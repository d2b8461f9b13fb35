------------------------- MODULE AnchorPlugin_proof -------------------------
(***************************************************************************)
(* Theorems about AnchorPlugin for every number of sessions, loggers, runs *)
(* and tokens: its types, and that the key filed under a token is the one  *)
(* its envelope was encrypted with.                                        *)
(***************************************************************************)
EXTENDS AnchorPlugin, TLAPS

USE BoundsAssumption

-----------------------------------------------------------------------------
(***************************************************************************)
(* The inductive invariant.  TypeOK alone is not inductive: an envelope    *)
(* that lands is stored under anchor[l].key, so a request in flight must   *)
(* come with a key.                                                        *)
(***************************************************************************)

(* An anchor that has started is named after its run and holds the key of  *)
(* that run; requests in flight belong to such anchors.                    *)
AnchorsNamed ==
    \A l \in Logger :
        /\ anchor[l].pc # "idle" =>
              /\ anchor[l].name \in Name
              /\ anchor[l].key \in Key
              /\ anchor[l].name[2] = anchor[l].key
        /\ wire[l] # "none" => anchor[l].pc # "idle"
        /\ wire[l] = "upload" => anchor[l].pc \in {"uploading", "unflushed", "lost"}

(* The token an anchor knows of was minted from its log under its key, and *)
(* from the moment the mint is known to be over it does know one.          *)
AnchorsMinted ==
    \A l \in Logger :
        /\ anchor[l].token # None =>
              /\ anchor[l].pc # "idle"
              /\ anchor[l].token \in 1..Len(chain)
              /\ chain[anchor[l].token].key = anchor[l].key
        /\ anchor[l].pc \in {"minted", "uncommitted"} => anchor[l].token # None
        /\ anchor[l].pc = "minting" /\ wire[l] = "none" => anchor[l].token # None

(* Whoever mints, may mint, or takes the upload for done has its envelope  *)
(* in storage.                                                             *)
BlobsBacked ==
    \A l \in Logger :
        \/ wire[l] = "mint"
        \/ anchor[l].pc \in {"minting", "unminted", "minted", "uncommitted"}
        \/ anchor[l].pc = "uploading" /\ wire[l] # "upload"
        => <<l, anchor[l].key>> \in blobs

(* A pending file is only ever written with the key of the run it names.   *)
PendingNamed == \A s \in Session, r \in Run : pending[<<s, r>>] \in {None, r}

KeyInv ==
    /\ AnchorsNamed
    /\ AnchorsMinted
    /\ BlobsBacked
    /\ PendingNamed
    /\ KeyOpensReceipt
    /\ KeyOutlivesCiphertext

IInv == TypeOK /\ KeyInv

-----------------------------------------------------------------------------
LEMMA InitTypeOK == Init => TypeOK
BY DEF Init, TypeOK, MemTypeOK, DiskTypeOK, NetTypeOK, EnvTypeOK, NoMeta, None, NotRunning,
       NoName, Anchor, PC, InFlight, Prefix, Tally, Ghosts

(* Capture, shared by every hook, keeps the parts of TypeOK it is about.   *)
LEMMA CaptureTypeOK ==
    ASSUME TypeOK, NEW s \in Session, Capture(s)
    PROVE  /\ sessions' \in [Session -> Logger \cup {None}]
           /\ entries' \in [Logger -> SUBSET Event]
           /\ events' \in Seq(EventRec) /\ Len(events') <= MaxEvents
           /\ tally' \in Tally
           /\ UNCHANGED <<pendingAnchors, seal, anchor, diskVars, netVars, clock, ghosts>>
PROOF
  <1> DEFINE l == IF sessions[s] = None THEN tally.loggers + 1 ELSE sessions[s]
             i == Len(events) + 1
  <1>1. l \in Logger /\ l # None
    BY DEF Capture, Logger, None
  <1>2. sessions' = [sessions EXCEPT ![s] = l]
    BY DEF Capture
  <1>3. sessions' \in [Session -> Logger \cup {None}]
    BY <1>1, <1>2 DEF TypeOK, MemTypeOK
  <1>4. tally' \in Tally
    <2>1. PICK c \in 0..MaxLoggers : tally' = [tally EXCEPT !.loggers = c]
      <3>1. tally.loggers \in 0..MaxLoggers
        BY DEF TypeOK, EnvTypeOK, Tally
      <3>2. l \in 0..MaxLoggers
        BY <1>1 DEF Logger
      <3> QED BY <3>1, <3>2 DEF Capture
    <2> QED BY <2>1 DEF TypeOK, EnvTypeOK, Tally
  <1>5. /\ entries' \in [Logger -> SUBSET Event]
        /\ events' \in Seq(EventRec) /\ Len(events') <= MaxEvents
    <2>1. CASE UNCHANGED <<events, entries>>
      BY <2>1 DEF TypeOK, MemTypeOK, EnvTypeOK
    <2>2. CASE /\ i \in Event
               /\ events' = Append(events, [session |-> s, at |-> clock, via |-> "hook"])
               /\ entries' = IF seal[l] = "open" THEN [entries EXCEPT ![l] = @ \cup {i}]
                                                 ELSE entries
      <3>1. [session |-> s, at |-> clock, via |-> "hook"] \in EventRec
        BY DEF TypeOK, EnvTypeOK, EventRec
      <3>2. events' \in Seq(EventRec) /\ Len(events') <= MaxEvents
        BY <2>2, <3>1 DEF TypeOK, EnvTypeOK, Event
      <3>3. entries' \in [Logger -> SUBSET Event]
        BY <2>2, <1>1 DEF TypeOK, MemTypeOK
      <3> QED BY <3>2, <3>3
    <2> QED BY <2>1, <2>2 DEF Capture
  <1>6. UNCHANGED <<pendingAnchors, seal, anchor, diskVars, netVars, clock, ghosts>>
    BY DEF Capture
  <1> QED BY <1>3, <1>4, <1>5, <1>6

LEMMA CapturingTypeOK ==
    ASSUME TypeOK, NEW s \in Session, Capturing(s)
    PROVE  TypeOK'
PROOF
  <1> USE DEF TypeOK, MemTypeOK, DiskTypeOK, NetTypeOK, EnvTypeOK, diskVars, netVars
  <1>1. CASE MessageReceived(s)
    <2>1. runMetadata' \in [Session -> [start : -1..MaxClock, pinned : BOOLEAN]]
      BY <1>1 DEF MessageReceived
    <2>2. inbox' \in [Session -> BOOLEAN] /\ UNCHANGED runFrom /\ Capture(s)
      BY <1>1 DEF MessageReceived
    <2> QED BY <2>1, <2>2, CaptureTypeOK
  <1>2. CASE BeforePromptBuild(s)
    <2>1. runFrom' \in [Session -> -1..MaxEvents]
      BY <1>2 DEF BeforePromptBuild
    <2>2. inbox' \in [Session -> BOOLEAN] /\ UNCHANGED runMetadata /\ Capture(s)
      BY <1>2 DEF BeforePromptBuild
    <2> QED BY <2>1, <2>2, CaptureTypeOK
  <1>3. CASE AfterToolCall(s)
    BY <1>3, CaptureTypeOK DEF AfterToolCall
  <1>4. CASE LlmOutput(s)
    BY <1>4, CaptureTypeOK DEF LlmOutput
  <1>5. CASE BeforeAgentFinalize(s)
    BY <1>5 DEF BeforeAgentFinalize, NoMeta, envVars
  <1>6. CASE CliToolCall(s)
    <2>1. [session |-> s, at |-> clock, via |-> "transcript"] \in EventRec
      BY DEF EventRec
    <2> QED BY <2>1, <1>6 DEF CliToolCall, memVars
  <1> QED BY <1>1, <1>2, <1>3, <1>4, <1>5, <1>6 DEF Capturing

LEMMA FreshRunTypeOK ==
    ASSUME TypeOK, NEW r \in Run, FreshRun(r)
    PROVE  tally' \in Tally
PROOF
  <1>1. r \in 0..MaxRuns
    BY DEF Run
  <1>2. tally' = [tally EXCEPT !.runs = r]
    BY DEF FreshRun
  <1> QED BY <1>1, <1>2 DEF TypeOK, EnvTypeOK, Tally

(* What agent_end and session_end share once a key was generated.          *)
LEMMA TakeAndAnchorTypeOK ==
    ASSUME TypeOK, NEW s \in Session, NEW r \in Run, NEW prefix \in Prefix,
           sessions[s] # None, TakeAndAnchor(s, r, prefix)
    PROVE  /\ sessions' \in [Session -> Logger \cup {None}]
           /\ pendingAnchors' \in [Name -> Logger \cup {None}]
           /\ seal' \in [Logger -> {"open", "flushing", "flushed"}]
           /\ anchor' \in [Logger -> Anchor]
           /\ DiskTypeOK' /\ NetTypeOK'
           /\ tally' \in Tally
           /\ UNCHANGED runMetadata
PROOF
  <1> USE DEF TypeOK, MemTypeOK, DiskTypeOK, NetTypeOK, EnvTypeOK, TakeAndAnchor
  <1>1. sessions[s] \in Logger /\ r \in Key /\ <<s, r>> \in Name
    BY DEF Run, Key, Name
  <1>2. [pc |-> "uploading", name |-> <<s, r>>, key |-> r, prefix |-> prefix,
         by |-> "hook", token |-> None] \in Anchor
    BY <1>1 DEF Anchor, PC, InFlight
  <1>3. anchor' \in [Logger -> Anchor]
    BY <1>1, <1>2
  <1>4. tally' \in Tally
    BY FreshRunTypeOK
  <1>5. /\ sessions' \in [Session -> Logger \cup {None}]
        /\ pendingAnchors' \in [Name -> Logger \cup {None}]
        /\ seal' \in [Logger -> {"open", "flushing", "flushed"}]
    BY <1>1
  <1>6. DiskTypeOK' /\ NetTypeOK'
    BY <1>1
  <1> QED BY <1>3, <1>4, <1>5, <1>6

(* Faults aside, what is appended is what was found.                       *)
LEMMA AppendsInjected ==
    ASSUME NEW s, NEW ws, NEW added \in Appended(s, ws)
    PROVE  added \subseteq Injected(s, ws) /\ ("faults" \notin Quirks => added = Injected(s, ws))
BY DEF Appended

(* The injected transcript entries are events. *)
LEMMA InjectTypeOK ==
    ASSUME TypeOK, NEW s \in Session, NEW ws, NEW added \in Appended(s, ws),
           sessions[s] # None, Inject(s, added)
    PROVE  entries' \in [Logger -> SUBSET Event]
PROOF
  <1>1. \A f : Transcript(f) \subseteq Event
    BY DEF Transcript, Event, TypeOK, EnvTypeOK
  <1>2. Injected(s, ws) \subseteq Event
    BY <1>1 DEF Injected
  <1>3. added \subseteq Event
    BY <1>2, AppendsInjected
  <1> QED BY <1>3 DEF Inject, TypeOK, MemTypeOK

LEMMA EndingTypeOK ==
    ASSUME TypeOK, NEW s \in Session, Ending(s)
    PROVE  TypeOK'
PROOF
  <1> USE DEF TypeOK, MemTypeOK, DiskTypeOK, NetTypeOK, EnvTypeOK, diskVars, netVars,
              RunEnds, NotRunning
  <1>1. CASE AgentEndSkips(s)
    BY <1>1 DEF AgentEndSkips, memVars
  <1>2. ASSUME NEW ws, NEW added \in Appended(s, ws), AgentEndEmpty(s, added)
        PROVE  TypeOK'
    BY <1>2 DEF AgentEndEmpty, NoMeta
  <1>3. ASSUME NEW r \in Run, NEW ws, NEW added \in Appended(s, ws), AgentEndKeyFails(s, r, added)
        PROVE  TypeOK'
    <2>1. entries' \in [Logger -> SUBSET Event]
      BY <1>3, InjectTypeOK DEF AgentEndKeyFails
    <2>2. DiskTypeOK'
      BY <1>3 DEF AgentEndKeyFails, SetPendingThrows, Run, Key
    <2>3. tally' \in Tally
      BY <1>3, FreshRunTypeOK DEF AgentEndKeyFails
    <2> QED BY <1>3, <2>1, <2>2, <2>3 DEF AgentEndKeyFails
  <1>4. ASSUME NEW r \in Run, NEW ws, NEW added \in Appended(s, ws), AgentEnd(s, r, added)
        PROVE  TypeOK'
    <2>1. entries' \in [Logger -> SUBSET Event]
      BY <1>4, InjectTypeOK DEF AgentEnd
    <2>2. sessions[s] # None /\ TakeAndAnchor(s, r, "exec-log") /\ "exec-log" \in Prefix
      BY <1>4 DEF AgentEnd, Prefix
    <2> QED BY <1>4, <2>1, <2>2, TakeAndAnchorTypeOK DEF AgentEnd
  <1>5. CASE SessionEndEmpty(s)
    BY <1>5 DEF SessionEndEmpty, envVars
  <1>6. ASSUME NEW r \in Run, SessionEndKeyFails(s, r)
        PROVE  TypeOK'
    <2>1. DiskTypeOK'
      BY <1>6 DEF SessionEndKeyFails, SetPendingThrows, Run, Key
    <2>2. tally' \in Tally
      BY <1>6, FreshRunTypeOK DEF SessionEndKeyFails
    <2> QED BY <1>6, <2>1, <2>2 DEF SessionEndKeyFails, memVars, envVars
  <1>7. ASSUME NEW r \in Run, SessionEnd(s, r)
        PROVE  TypeOK'
    <2>1. sessions[s] # None /\ TakeAndAnchor(s, r, "exec-log-orphan")
                             /\ "exec-log-orphan" \in Prefix
      BY <1>7 DEF SessionEnd, Prefix
    <2> QED BY <1>7, <2>1, TakeAndAnchorTypeOK DEF SessionEnd, envVars
  <1> QED BY <1>1, <1>2, <1>3, <1>4, <1>5, <1>6, <1>7 DEF Ending

LEMMA HandlerReturnsTypeOK ==
    ASSUME TypeOK, NEW l \in Logger, HandlerReturns(l)
    PROVE  runMetadata' \in [Session -> [start : -1..MaxClock, pinned : BOOLEAN]]
PROOF
  <1>1. NoMeta \in [start : -1..MaxClock, pinned : BOOLEAN]
    BY DEF NoMeta
  <1>2. \A x : [runMetadata EXCEPT ![x] = NoMeta]
                  \in [Session -> [start : -1..MaxClock, pinned : BOOLEAN]]
    BY <1>1 DEF TypeOK, MemTypeOK
  <1> QED BY <1>2 DEF HandlerReturns, TypeOK, MemTypeOK

(* An anchor whose state, owner or token changes is still an anchor.       *)
LEMMA AnchorExcept ==
    ASSUME TypeOK, NEW l \in Logger
    PROVE  /\ \A pc \in PC : [anchor EXCEPT ![l].pc = pc] \in [Logger -> Anchor]
           /\ \A t \in Token : [anchor EXCEPT ![l].token = t] \in [Logger -> Anchor]
           /\ \A pc \in PC, by \in {"hook", "operator"} :
                 [anchor EXCEPT ![l].pc = pc, ![l].by = by] \in [Logger -> Anchor]
PROOF
  <1>1. anchor \in [Logger -> Anchor] /\ anchor[l] \in Anchor
    BY DEF TypeOK, MemTypeOK
  <1>2. \A a \in Anchor : [anchor EXCEPT ![l] = a] \in [Logger -> Anchor]
    BY <1>1
  <1>3. ASSUME NEW a \in Anchor
        PROVE  /\ \A pc \in PC : [a EXCEPT !.pc = pc] \in Anchor
               /\ \A t \in Token : [a EXCEPT !.token = t] \in Anchor
               /\ \A pc \in PC, by \in {"hook", "operator"} :
                     [a EXCEPT !.pc = pc, !.by = by] \in Anchor
    BY DEF Anchor
  <1> QED BY <1>1, <1>2, <1>3

LEMMA ForgetLoggerTypeOK ==
    ASSUME TypeOK, NEW l \in Logger, ForgetLogger(l)
    PROVE  pendingAnchors' \in [Name -> Logger \cup {None}]
PROOF
  <1>1. \A n : [pendingAnchors EXCEPT ![n] = None] \in [Name -> Logger \cup {None}]
    BY DEF TypeOK, MemTypeOK
  <1> QED BY <1>1 DEF ForgetLogger, TypeOK, MemTypeOK

LEMMA UploadingTypeOK ==
    ASSUME TypeOK, NEW l \in Logger, Uploading(l)
    PROVE  TypeOK'
PROOF
  <1> USE DEF TypeOK, MemTypeOK, DiskTypeOK, NetTypeOK, EnvTypeOK, diskVars, netVars, envVars
  <1>1. CASE UploadSucceeds(l)
    <2>1. anchor' \in [Logger -> Anchor]
      BY <1>1, AnchorExcept DEF UploadSucceeds, PC, InFlight
    <2> QED BY <1>1, <2>1 DEF UploadSucceeds
  <1>2. CASE UploadFails(l)
    <2>1. anchor' \in [Logger -> Anchor]
      BY <1>2, AnchorExcept DEF UploadFails, PC
    <2> QED BY <1>2, <2>1, HandlerReturnsTypeOK DEF UploadFails
  <1> QED BY <1>1, <1>2 DEF Uploading

LEMMA MintingTypeOK ==
    ASSUME TypeOK, NEW l \in Logger, Minting(l)
    PROVE  TypeOK'
PROOF
  <1> USE DEF TypeOK, MemTypeOK, DiskTypeOK, NetTypeOK, EnvTypeOK, diskVars, netVars, envVars
  <1>1. CASE MintSucceeds(l)
    <2>1. anchor' \in [Logger -> Anchor]
      BY <1>1, AnchorExcept DEF MintSucceeds, PC, InFlight
    <2> QED BY <1>1, <2>1, ForgetLoggerTypeOK DEF MintSucceeds
  <1>2. CASE MintFails(l)
    <2>1. anchor' \in [Logger -> Anchor]
      BY <1>2, AnchorExcept DEF MintFails, PC
    <2> QED BY <1>2, <2>1, ForgetLoggerTypeOK, HandlerReturnsTypeOK DEF MintFails
  <1> QED BY <1>1, <1>2 DEF Minting

(* What lands was sent under a key: this is where TypeOK needs AnchorsNamed.*)
LEMMA NetworkTypeOK ==
    ASSUME TypeOK, AnchorsNamed, NEW l \in Logger, Network(l)
    PROVE  TypeOK'
PROOF
  <1> USE DEF TypeOK, MemTypeOK, DiskTypeOK, NetTypeOK, EnvTypeOK, memVars, diskVars, envVars
  <1>1. wire[l] # "none" => anchor[l].key \in Key
    BY DEF AnchorsNamed
  <1>2. CASE UploadLands(l)
    <2>1. blobs' \subseteq Logger \X Key
      BY <1>1, <1>2 DEF UploadLands
    <2> QED BY <1>2, <2>1 DEF UploadLands
  <1>3. CASE MintLands(l)
    <2>1. anchor[l].key \in Key /\ anchor[l].prefix \in Prefix
      BY <1>1, <1>3 DEF MintLands, Anchor
    <2>2. [log |-> l, key |-> anchor[l].key, prefix |-> anchor[l].prefix] \in Receipt
      BY <2>1 DEF Receipt
    <2>3. chain' \in Seq(Receipt) /\ Len(chain') <= MaxTokens
      BY <1>3, <2>2 DEF MintLands
    <2>4. Len(chain) + 1 \in Token
      BY <1>3 DEF MintLands, Token
    <2>5. anchor' \in [Logger -> Anchor]
      BY <1>3, <2>4, AnchorExcept DEF MintLands
    <2> QED BY <1>3, <2>3, <2>5 DEF MintLands
  <1> QED BY <1>2, <1>3 DEF Network

LEMMA CommitReturnsTypeOK ==
    ASSUME TypeOK, NEW l \in Logger, NEW pc \in PC, CommitReturns(l, pc), DiskTypeOK'
    PROVE  TypeOK'
PROOF
  <1> USE DEF TypeOK, MemTypeOK, NetTypeOK, EnvTypeOK, netVars, envVars
  <1>1. \A n : [pendingAnchors EXCEPT ![n] = None] \in [Name -> Logger \cup {None}]
    OBVIOUS
  <1>2. anchor' \in [Logger -> Anchor]
    BY AnchorExcept DEF CommitReturns
  <1> QED BY <1>1, <1>2, HandlerReturnsTypeOK DEF CommitReturns

LEMMA CommittingTypeOK ==
    ASSUME TypeOK, AnchorsNamed, AnchorsMinted, NEW l \in Logger, Committing(l)
    PROVE  TypeOK'
PROOF
  <1> USE DEF DiskTypeOK
  <1>1. /\ anchor[l].pc = "minted"
        /\ anchor[l].name \in Name
        /\ anchor[l].key \in Key
    BY DEF Committing, CommitPending, CommitByPut, RetryFindsNothing, CommitThrows, AnchorsNamed
  <1>2. anchor[l].token \in Token
    BY <1>1 DEF AnchorsMinted, Token, TypeOK, NetTypeOK, MemTypeOK, Anchor
  <1>3. pending[anchor[l].name] \in Key \cup {None}
    BY <1>1 DEF TypeOK
  <1>4. {"done", "uncommitted"} \subseteq PC
    BY DEF PC
  <1>5. CASE CommitPending(l)
    <2>1. DiskTypeOK'
      BY <1>2, <1>3, <1>5 DEF CommitPending, TypeOK
    <2> QED BY <1>4, <1>5, <2>1, CommitReturnsTypeOK DEF CommitPending
  <1>6. CASE CommitByPut(l)
    <2>1. DiskTypeOK'
      BY <1>1, <1>2, <1>6 DEF CommitByPut, TypeOK
    <2> QED BY <1>4, <1>6, <2>1, CommitReturnsTypeOK DEF CommitByPut
  <1>7. CASE RetryFindsNothing(l)
    <2>1. DiskTypeOK'
      BY <1>7 DEF RetryFindsNothing, TypeOK, diskVars
    <2> QED BY <1>4, <1>7, <2>1, CommitReturnsTypeOK DEF RetryFindsNothing
  <1>8. CASE CommitThrows(l)
    <2>1. DiskTypeOK'
      BY <1>1, <1>2, <1>3, <1>8 DEF CommitThrows, TypeOK
    <2> QED BY <1>4, <1>8, <2>1, CommitReturnsTypeOK DEF CommitThrows
  <1> QED BY <1>5, <1>6, <1>7, <1>8 DEF Committing

LEMMA OperatingTypeOK ==
    ASSUME TypeOK, NEW l \in Logger, Operating(l)
    PROVE  TypeOK'
PROOF
  <1>1. PICK pc \in PC : OperatorStarts(l, pc)
    BY DEF Operating, RetryFlush, RetryMint, RetryCommit, PC, InFlight
  <1>2. anchor' \in [Logger -> Anchor]
    BY <1>1, AnchorExcept DEF OperatorStarts
  <1>3. tally' \in Tally
    <2>1. tally.retries + 1 \in 0..MaxRetries
      BY <1>1 DEF OperatorStarts, TypeOK, EnvTypeOK, Tally
    <2>2. tally' = [tally EXCEPT !.retries = tally.retries + 1]
      BY <1>1 DEF OperatorStarts
    <2> QED BY <2>1, <2>2 DEF TypeOK, EnvTypeOK, Tally
  <1>4. /\ seal' \in [Logger -> {"open", "flushing", "flushed"}]
        /\ wire' \in [Logger -> {"none", "upload", "mint"}]
    BY DEF Operating, RetryFlush, RetryMint, RetryCommit, TypeOK, MemTypeOK, NetTypeOK
  <1> QED BY <1>1, <1>2, <1>3, <1>4
          DEF OperatorStarts, TypeOK, MemTypeOK, DiskTypeOK, NetTypeOK, EnvTypeOK, diskVars, envVars

LEMMA CrashTypeOK ==
    ASSUME TypeOK, Crash
    PROVE  TypeOK'
PROOF
  <1> USE DEF TypeOK, MemTypeOK, DiskTypeOK, NetTypeOK, EnvTypeOK, diskVars, netVars
  <1>1. anchor' \in [Logger -> Anchor]
    <2>1. \A a \in Anchor : [a EXCEPT !.pc = "lost"] \in Anchor
      BY DEF Anchor, PC
    <2> QED BY <2>1 DEF Crash
  <1>2. tally' \in Tally
    <2>1. tally.crashes + 1 \in 0..MaxCrashes
      <3>1. tally.crashes \in 0..MaxCrashes
        BY DEF Tally
      <3>2. tally.crashes < MaxCrashes
        BY DEF Crash
      <3> QED BY ONLY <3>1, <3>2, BoundsAssumption
    <2>2. tally' = [tally EXCEPT !.crashes = tally.crashes + 1]
      BY DEF Crash
    <2> QED BY <2>1, <2>2 DEF Tally
  <1>3. ghosts' \in Ghosts
    <2>1. 1..tally.loggers \subseteq Logger
      BY DEF Tally, Logger
    <2> QED BY <2>1 DEF Crash, Ghosts
  <1>4. /\ sessions' \in [Session -> Logger \cup {None}]
        /\ runMetadata' \in [Session -> [start : -1..MaxClock, pinned : BOOLEAN]]
        /\ pendingAnchors' \in [Name -> Logger \cup {None}]
        /\ runFrom' \in [Session -> -1..MaxEvents]
        /\ inbox' \in [Session -> BOOLEAN]
    BY DEF Crash, NoMeta, NotRunning
  <1> QED BY <1>1, <1>2, <1>3, <1>4 DEF Crash

LEMMA WipeTypeOK ==
    ASSUME TypeOK, NEW n \in Name, WipePending(n)
    PROVE  TypeOK'
PROOF
  <1>1. pending[n] \in Key
    BY DEF WipePending, TypeOK, DiskTypeOK
  <1>2. ghosts' \in Ghosts
    BY <1>1 DEF WipePending, Ghosts, TypeOK, EnvTypeOK
  <1> QED BY <1>2 DEF WipePending, TypeOK, MemTypeOK, DiskTypeOK, NetTypeOK, EnvTypeOK, memVars,
             netVars, envVars

LEMMA NextTypeOK ==
    ASSUME TypeOK, AnchorsNamed, AnchorsMinted, [Next]_vars
    PROVE  TypeOK'
PROOF
  <1>1. CASE Tick
    BY <1>1 DEF Tick, TypeOK, MemTypeOK, DiskTypeOK, NetTypeOK, EnvTypeOK, memVars, diskVars,
                netVars
  <1>2. CASE UNCHANGED vars
    BY <1>2 DEF vars, TypeOK, MemTypeOK, DiskTypeOK, NetTypeOK, EnvTypeOK, memVars, diskVars,
                netVars, envVars
  <1> QED BY <1>1, <1>2, CapturingTypeOK, EndingTypeOK, UploadingTypeOK, MintingTypeOK,
             CommittingTypeOK, NetworkTypeOK, OperatingTypeOK, CrashTypeOK, WipeTypeOK DEF Next

-----------------------------------------------------------------------------
(***************************************************************************)
(* Keys.  One lemma per kind of step that touches anchors, key files or    *)
(* the network; every other step leaves them alone.                        *)
(***************************************************************************)
Kept == (KeysOnDisk \ {None}) \cup ghosts.wiped

LEMMA KeyInvFrame ==
    ASSUME KeyInv, UNCHANGED <<anchor, diskVars, netVars, ghosts>>
    PROVE  KeyInv'
BY DEF KeyInv, AnchorsNamed, AnchorsMinted, BlobsBacked, PendingNamed, KeyOpensReceipt, KeyOutlivesCiphertext,
       KeysOnDisk, diskVars, netVars

(* No key goes, and what is newly at risk is safe: enough for the ordering.*)
LEMMA KeptGrows ==
    ASSUME KeyOutlivesCiphertext, Kept \subseteq Kept',
           \A l \in Logger, k \in Key :
               <<l, k>> \in blobs' \/ (wire'[l] = "upload" /\ anchor'[l].key = k)
               => \/ <<l, k>> \in blobs
                  \/ wire[l] = "upload" /\ anchor[l].key = k
                  \/ k \in Kept'
    PROVE  KeyOutlivesCiphertext'
BY DEF KeyOutlivesCiphertext, Kept, Key, None

(* Filing a key under a name that held none, or held that key, loses none. *)
LEMMA SetPendingKeeps ==
    ASSUME IInv, NEW s \in Session, NEW r \in Run,
           pending' = [pending EXCEPT ![<<s, r>>] = r],
           UNCHANGED <<committed, ghosts>>
    PROVE  Kept \subseteq Kept' /\ r \in Kept' /\ PendingNamed'
PROOF
  <1>1. <<s, r>> \in Name /\ pending \in [Name -> Key \cup {None}]
    BY DEF Name, IInv, TypeOK, DiskTypeOK
  <1>2. pending[<<s, r>>] \in {None, r}
    BY DEF IInv, KeyInv, PendingNamed
  <1>3. pending'[<<s, r>>] = r
    BY <1>1
  <1>4. \A n \in Name : pending'[n] = pending[n] \/ n = <<s, r>>
    BY <1>1
  <1>5. r \in Kept'
    BY <1>1, <1>3 DEF Kept, KeysOnDisk, Run, None
  <1>6. PendingNamed'
    BY <1>1 DEF PendingNamed, Name, IInv, KeyInv
  <1>7. ASSUME NEW k \in Kept
        PROVE  k \in Kept'
    <2>1. CASE k \in ghosts.wiped
      BY <2>1 DEF Kept
    <2>2. ASSUME NEW t \in Token, committed[t] = k, k # None
          PROVE  k \in Kept'
      BY <2>2 DEF Kept, KeysOnDisk
    <2>3. ASSUME NEW n \in Name, pending[n] = k, k # None
          PROVE  k \in Kept'
      <3>1. pending'[n] = k
        BY <1>2, <1>3, <1>4, <2>3
      <3> QED BY <2>3, <3>1 DEF Kept, KeysOnDisk
    <2> QED BY <2>1, <2>2, <2>3 DEF Kept, KeysOnDisk
  <1> QED BY <1>5, <1>6, <1>7

LEMMA TakeAndAnchorKeyInv ==
    ASSUME IInv, NEW s \in Session, NEW r \in Run, NEW prefix \in Prefix,
           sessions[s] # None, TakeAndAnchor(s, r, prefix), UNCHANGED ghosts
    PROVE  KeyInv'
PROOF
  <1> DEFINE l == sessions[s]
  <1>1. l \in Logger /\ <<s, r>> \in Name /\ r \in Key
    BY DEF IInv, TypeOK, MemTypeOK, Name, Run, Key
  <1>2. /\ anchor'[l] = [pc |-> "uploading", name |-> <<s, r>>, key |-> r, prefix |-> prefix,
                         by |-> "hook", token |-> None]
        /\ wire'[l] = "upload"
        /\ \A m \in Logger \ {l} : anchor'[m] = anchor[m] /\ wire'[m] = wire[m]
    BY <1>1 DEF TakeAndAnchor, IInv, TypeOK, MemTypeOK, NetTypeOK
  <1>3. Kept \subseteq Kept' /\ r \in Kept' /\ PendingNamed'
    BY SetPendingKeeps DEF TakeAndAnchor
  <1>4. AnchorsNamed'
    BY <1>1, <1>2 DEF AnchorsNamed, IInv, KeyInv
  <1>5. AnchorsMinted'
    BY <1>2 DEF AnchorsMinted, IInv, KeyInv, TakeAndAnchor
  <1>8. BlobsBacked'
    BY <1>2 DEF BlobsBacked, IInv, KeyInv, TakeAndAnchor
  <1>6. KeyOpensReceipt'
    BY DEF TakeAndAnchor, KeyOpensReceipt, IInv, KeyInv
  <1>7. KeyOutlivesCiphertext'
    <2>1. blobs' = blobs
      BY DEF TakeAndAnchor
    <2> QED BY <1>2, <1>3, <2>1, KeptGrows DEF IInv, KeyInv
  <1> QED BY <1>3, <1>4, <1>5, <1>6, <1>7, <1>8 DEF KeyInv

LEMMA SetPendingThrowsKeyInv ==
    ASSUME IInv, NEW s \in Session, NEW r \in Run, SetPendingThrows(<<s, r>>, r),
           UNCHANGED <<anchor, netVars, ghosts>>
    PROVE  KeyInv'
PROOF
  <1>1. CASE pending' = pending
    BY <1>1, KeyInvFrame DEF SetPendingThrows, IInv, diskVars
  <1>2. CASE pending' = [pending EXCEPT ![<<s, r>>] = r]
    <2>1. Kept \subseteq Kept' /\ PendingNamed'
      BY <1>2, SetPendingKeeps DEF SetPendingThrows
    <2>2. AnchorsNamed' /\ AnchorsMinted' /\ BlobsBacked' /\ KeyOpensReceipt'
      BY DEF SetPendingThrows, IInv, KeyInv, AnchorsNamed, AnchorsMinted, BlobsBacked,
             KeyOpensReceipt, netVars
    <2>3. KeyOutlivesCiphertext'
      BY <2>1, KeptGrows DEF netVars, IInv, KeyInv
    <2> QED BY <2>1, <2>2, <2>3 DEF KeyInv
  <1> QED BY <1>1, <1>2 DEF SetPendingThrows

LEMMA EndingKeyInv ==
    ASSUME IInv, NEW s \in Session, Ending(s)
    PROVE  KeyInv'
PROOF
  <1>1. CASE AgentEndSkips(s)
    BY <1>1, KeyInvFrame DEF AgentEndSkips, memVars, IInv
  <1>2. ASSUME NEW ws, NEW added \in Appended(s, ws), AgentEndEmpty(s, added)
        PROVE  KeyInv'
    BY <1>2, KeyInvFrame DEF AgentEndEmpty, IInv
  <1>3. ASSUME NEW r \in Run, NEW ws, NEW added \in Appended(s, ws), AgentEndKeyFails(s, r, added)
        PROVE  KeyInv'
    BY <1>3, SetPendingThrowsKeyInv DEF AgentEndKeyFails
  <1>4. ASSUME NEW r \in Run, NEW ws, NEW added \in Appended(s, ws), AgentEnd(s, r, added)
        PROVE  KeyInv'
    BY <1>4, TakeAndAnchorKeyInv DEF AgentEnd, Prefix
  <1>5. CASE SessionEndEmpty(s)
    BY <1>5, KeyInvFrame DEF SessionEndEmpty, IInv
  <1>6. ASSUME NEW r \in Run, SessionEndKeyFails(s, r)
        PROVE  KeyInv'
    BY <1>6, SetPendingThrowsKeyInv DEF SessionEndKeyFails, memVars
  <1>7. ASSUME NEW r \in Run, SessionEnd(s, r)
        PROVE  KeyInv'
    BY <1>7, TakeAndAnchorKeyInv DEF SessionEnd, Prefix
  <1> QED BY <1>1, <1>2, <1>3, <1>4, <1>5, <1>6, <1>7 DEF Ending

(* The steps of anchorRun and of the recovery that move an anchor on       *)
(* without touching what it holds, the disk, the chain or the envelopes.   *)
LEMMA AnchorMovesKeyInv ==
    ASSUME IInv, NEW l \in Logger,
           anchor[l].pc # "idle",
           /\ anchor'[l].pc # "idle"
           /\ anchor'[l].name = anchor[l].name
           /\ anchor'[l].key = anchor[l].key
           /\ anchor'[l].token = anchor[l].token,
           anchor'[l].pc \in {"minted", "uncommitted"} => anchor[l].token # None,
           anchor'[l].pc = "minting" /\ wire'[l] = "none" => anchor[l].token # None,
           wire'[l] = "upload" =>
               /\ wire[l] = "upload" \/ anchor[l].key \in Kept
               /\ anchor'[l].pc \in {"uploading", "unflushed", "lost"},
           \/ wire'[l] = "mint"
           \/ anchor'[l].pc \in {"minting", "unminted", "minted", "uncommitted"}
           \/ anchor'[l].pc = "uploading" /\ wire'[l] # "upload"
           => <<l, anchor[l].key>> \in blobs,
           \A m \in Logger \ {l} : anchor'[m] = anchor[m] /\ wire'[m] = wire[m],
           UNCHANGED <<diskVars, blobs, chain, ghosts>>
    PROVE  KeyInv'
PROOF
  <1>1. AnchorsNamed'
    BY DEF AnchorsNamed, IInv, KeyInv
  <1>2. AnchorsMinted'
    BY DEF AnchorsMinted, IInv, KeyInv
  <1>6. BlobsBacked'
    BY DEF BlobsBacked, IInv, KeyInv
  <1>3. PendingNamed' /\ KeyOpensReceipt'
    BY DEF PendingNamed, KeyOpensReceipt, IInv, KeyInv, diskVars
  <1>4. Kept' = Kept
    BY DEF Kept, KeysOnDisk, diskVars
  <1>5. KeyOutlivesCiphertext'
    BY <1>4, KeptGrows DEF IInv, KeyInv
  <1> QED BY <1>1, <1>2, <1>3, <1>5, <1>6 DEF KeyInv

LEMMA UploadingKeyInv ==
    ASSUME IInv, NEW l \in Logger, Uploading(l)
    PROVE  KeyInv'
PROOF
  <1>1. CASE UploadSucceeds(l)
    <2>1. <<l, anchor[l].key>> \in blobs
      BY <1>1 DEF UploadSucceeds, IInv, KeyInv, BlobsBacked
    <2>2. /\ anchor[l].pc = "uploading" /\ anchor' = [anchor EXCEPT ![l].pc = "minting"]
          /\ wire' = [wire EXCEPT ![l] = "mint"] /\ UNCHANGED <<diskVars, blobs, chain>>
      BY <1>1 DEF UploadSucceeds
    <2>3. /\ anchor'[l].pc = "minting" /\ anchor'[l].name = anchor[l].name
          /\ anchor'[l].key = anchor[l].key /\ anchor'[l].token = anchor[l].token
          /\ wire'[l] = "mint"
      BY <2>2 DEF IInv, TypeOK, MemTypeOK, NetTypeOK, Anchor
    <2>4. \A m \in Logger \ {l} : anchor'[m] = anchor[m] /\ wire'[m] = wire[m]
      BY <2>2 DEF IInv, TypeOK, MemTypeOK, NetTypeOK
    <2> QED BY <1>1, <2>1, <2>2, <2>3, <2>4, AnchorMovesKeyInv DEF UploadSucceeds, diskVars
  <1>2. CASE UploadFails(l)
    <2>1. wire[l] = "mint" => <<l, anchor[l].key>> \in blobs
      BY DEF IInv, KeyInv, BlobsBacked
    <2>2. /\ anchor[l].pc = "uploading"
          /\ anchor' = [anchor EXCEPT ![l].pc = "unflushed"]
          /\ UNCHANGED <<diskVars, netVars, ghosts>>
      BY <1>2 DEF UploadFails
    <2> QED BY <2>1, <2>2, AnchorMovesKeyInv DEF IInv, TypeOK, MemTypeOK, netVars, Anchor
  <1> QED BY <1>1, <1>2 DEF Uploading

LEMMA MintingKeyInv ==
    ASSUME IInv, NEW l \in Logger, Minting(l)
    PROVE  KeyInv'
PROOF
  <1>1. CASE MintSucceeds(l)
    <2>1. anchor[l].token # None /\ <<l, anchor[l].key>> \in blobs
      BY <1>1 DEF MintSucceeds, IInv, KeyInv, AnchorsMinted, BlobsBacked
    <2>2. /\ anchor[l].pc = "minting" /\ wire[l] = "none"
          /\ anchor' = [anchor EXCEPT ![l].pc = "minted"]
          /\ UNCHANGED <<diskVars, netVars, ghosts>>
      BY <1>1 DEF MintSucceeds
    <2>3. /\ anchor'[l].pc = "minted"
          /\ anchor'[l].name = anchor[l].name
          /\ anchor'[l].key = anchor[l].key
          /\ anchor'[l].token = anchor[l].token
          /\ \A m \in Logger \ {l} : anchor'[m] = anchor[m]
      BY <2>2 DEF IInv, TypeOK, MemTypeOK, Anchor
    <2>4. UNCHANGED <<wire, blobs, chain>>
      BY <2>2 DEF netVars
    <2> QED BY <2>1, <2>2, <2>3, <2>4, AnchorMovesKeyInv
  <1>2. CASE MintFails(l)
    <2>1. <<l, anchor[l].key>> \in blobs /\ wire[l] # "upload"
      BY <1>2 DEF MintFails, IInv, KeyInv, BlobsBacked, AnchorsNamed
    <2> QED BY <1>2, <2>1, AnchorMovesKeyInv
               DEF MintFails, IInv, TypeOK, MemTypeOK, diskVars, netVars, Anchor
  <1> QED BY <1>1, <1>2 DEF Minting

LEMMA NetworkKeyInv ==
    ASSUME IInv, NEW l \in Logger, Network(l)
    PROVE  KeyInv'
PROOF
  <1> USE DEF IInv, KeyInv
  <1>1. CASE UploadLands(l)
    <2>1. wire[l] = "upload" /\ wire'[l] = "none" /\ blobs' = blobs \cup {<<l, anchor[l].key>>}
          /\ \A m \in Logger \ {l} : wire'[m] = wire[m]
      BY <1>1 DEF UploadLands, TypeOK, NetTypeOK
    <2>2. UNCHANGED <<anchor, diskVars, chain, ghosts>>
      BY <1>1 DEF UploadLands, memVars
    <2>3. AnchorsNamed'
      BY <2>1, <2>2 DEF AnchorsNamed
    <2>4. AnchorsMinted'
      BY <2>1, <2>2 DEF AnchorsMinted, AnchorsNamed
    <2>7. BlobsBacked'
      <3>1. \A m \in Logger : anchor'[m] = anchor[m]
        BY <2>2
      <3>2. <<l, anchor[l].key>> \in blobs' /\ blobs \subseteq blobs'
        BY <2>1
      <3> QED BY <2>1, <3>1, <3>2 DEF BlobsBacked
    <2>5. PendingNamed' /\ KeyOpensReceipt'
      BY <2>2 DEF PendingNamed, KeyOpensReceipt, diskVars
    <2>6. KeyOutlivesCiphertext'
      <3>1. Kept' = Kept
        BY <2>2 DEF Kept, KeysOnDisk, diskVars
      <3> QED BY <2>1, <2>2, <3>1, KeptGrows
    <2> QED BY <2>3, <2>4, <2>5, <2>6, <2>7
  <1>2. CASE MintLands(l)
    <2> DEFINE n == Len(chain) + 1
    <2>1. chain' = Append(chain, [log |-> l, key |-> anchor[l].key, prefix |-> anchor[l].prefix])
          /\ wire[l] = "mint" /\ wire'[l] = "none"
          /\ \A m \in Logger \ {l} : wire'[m] = wire[m] /\ anchor'[m] = anchor[m]
      BY <1>2 DEF MintLands, TypeOK, NetTypeOK, MemTypeOK
    <2>2. /\ anchor'[l].pc = anchor[l].pc
          /\ anchor'[l].name = anchor[l].name
          /\ anchor'[l].key = anchor[l].key
          /\ anchor'[l].token = n
      BY <1>2 DEF MintLands, TypeOK, MemTypeOK, Anchor
    <2>3. UNCHANGED <<diskVars, blobs, ghosts>>
      BY <1>2 DEF MintLands
    <2>4. /\ Len(chain') = n /\ chain'[n].key = anchor[l].key
          /\ \A t \in 1..Len(chain) : t \in 1..n /\ t # n /\ chain'[t] = chain[t]
          /\ n \in 1..n /\ n # None
      BY <2>1 DEF TypeOK, NetTypeOK, None
    <2>5. AnchorsNamed'
      BY <2>1, <2>2 DEF AnchorsNamed
    <2>6. AnchorsMinted'
      <3>1. ASSUME NEW m \in Logger \ {l}, anchor[m].token # None
            PROVE  anchor[m].token \in 1..n /\ chain'[anchor[m].token].key = anchor[m].key
        BY <2>4, <3>1 DEF AnchorsMinted
      <3>2. anchor[l].pc # "idle"
        BY <2>1 DEF AnchorsNamed
      <3> QED BY <2>1, <2>2, <2>4, <3>1, <3>2 DEF AnchorsMinted
    <2>7. PendingNamed'
      BY <2>3 DEF PendingNamed, diskVars
    <2>10. BlobsBacked'
      BY <2>1, <2>2, <2>3 DEF BlobsBacked
    <2>8. KeyOpensReceipt'
      <3>1. ASSUME NEW t \in Token, committed[t] # None
            PROVE  t <= n /\ committed[t] = chain'[t].key
        <4>1. t \in 1..Len(chain)
          BY <3>1 DEF KeyOpensReceipt, Token, TypeOK, NetTypeOK
        <4> QED BY <2>4, <3>1, <4>1 DEF KeyOpensReceipt, Token
      <3> QED BY <2>3, <2>4, <3>1 DEF KeyOpensReceipt, diskVars
    <2>9. KeyOutlivesCiphertext'
      <3>1. Kept' = Kept
        BY <2>3 DEF Kept, KeysOnDisk, diskVars
      <3> QED BY <2>1, <2>2, <2>3, <3>1, KeptGrows
    <2> QED BY <2>5, <2>6, <2>7, <2>8, <2>9, <2>10
  <1> QED BY <1>1, <1>2 DEF Network

(* Filing the key of a minted anchor under its token, whether the pending  *)
(* file moves there or stays, and whether the pointer follows or not.      *)
LEMMA FileKeyInv ==
    ASSUME IInv, NEW l \in Logger, NEW pc \in {"done", "uncommitted"},
           anchor[l].pc = "minted",
           anchor' = [anchor EXCEPT ![l].pc = pc],
           committed' = [committed EXCEPT ![anchor[l].token] = anchor[l].key],
           \/ pending' = pending
           \/ pending' = [pending EXCEPT ![anchor[l].name] = None],
           lastReceipt' \in {lastReceipt, anchor[l].token},
           UNCHANGED <<netVars, ghosts>>
    PROVE  KeyInv'
PROOF
  <1> DEFINE n == anchor[l].name
             t == anchor[l].token
             k == anchor[l].key
  <1> USE DEF IInv, KeyInv
  <1>1. /\ n \in Name /\ k \in Key /\ n[2] = k
        /\ t \in Token /\ t \in 1..Len(chain) /\ chain[t].key = k
        /\ wire[l] # "upload"
    BY DEF AnchorsNamed, AnchorsMinted, TypeOK, MemTypeOK, NetTypeOK, Token, Anchor
  <1>2. /\ anchor'[l].pc = pc
        /\ anchor'[l].name = n /\ anchor'[l].key = k /\ anchor'[l].token = t
        /\ \A m \in Logger \ {l} : anchor'[m] = anchor[m]
    BY DEF TypeOK, MemTypeOK, Anchor
  <1>3. committed'[t] = k /\ \A u \in Token \ {t} : committed'[u] = committed[u]
    BY <1>1 DEF TypeOK, DiskTypeOK
  <1>4. pending[n] \in {None, k}
    BY <1>1 DEF PendingNamed, Name
  <1>5. \A m \in Name \ {n} : pending'[m] = pending[m]
    BY <1>1 DEF TypeOK, DiskTypeOK
  <1>6. UNCHANGED <<wire, blobs, chain>>
    BY DEF netVars
  <1>7. AnchorsNamed'
    BY <1>1, <1>2, <1>6 DEF AnchorsNamed
  <1>8. AnchorsMinted'
    BY <1>1, <1>2, <1>6 DEF AnchorsMinted, Token, None
  <1>9. BlobsBacked'
    BY <1>1, <1>2, <1>6 DEF BlobsBacked
  <1>10. PendingNamed'
    BY <1>1, <1>5 DEF PendingNamed, Name, TypeOK, DiskTypeOK
  <1>11. KeyOpensReceipt'
    <2>1. k # None /\ t # None
      BY <1>1 DEF Key, Token, None
    <2>2. ASSUME NEW u \in Token, committed'[u] # None
          PROVE  u <= Len(chain') /\ committed'[u] = chain'[u].key
      BY <1>1, <1>3, <1>6, <2>2 DEF KeyOpensReceipt, Token, TypeOK, NetTypeOK
    <2>3. lastReceipt' # None => committed'[lastReceipt'] # None
      BY <1>1, <1>3, <2>1 DEF KeyOpensReceipt, TypeOK, DiskTypeOK
    <2> QED BY <2>2, <2>3 DEF KeyOpensReceipt
  <1>12. KeyOutlivesCiphertext'
    <2>1. k \in Kept'
      BY <1>1, <1>3 DEF Kept, KeysOnDisk, Key, None
    <2>2. ASSUME NEW j \in Kept, j # k
          PROVE  j \in Kept'
      <3>1. CASE j \in ghosts.wiped
        BY <3>1 DEF Kept
      <3>2. ASSUME NEW u \in Token, committed[u] = j, j # None
            PROVE  j \in Kept'
        <4>1. u # t
          BY <1>1, <2>2, <3>2 DEF KeyOpensReceipt
        <4> QED BY <1>3, <3>2, <4>1 DEF Kept, KeysOnDisk
      <3>3. ASSUME NEW m \in Name, pending[m] = j, j # None
            PROVE  j \in Kept'
        <4>1. pending'[m] = j
          BY <1>4, <1>5, <2>2, <3>3
        <4> QED BY <3>3, <4>1 DEF Kept, KeysOnDisk
      <3> QED BY <3>1, <3>2, <3>3 DEF Kept, KeysOnDisk
    <2>3. Kept \subseteq Kept'
      BY <2>1, <2>2
    <2> QED BY <1>1, <1>2, <1>6, <2>3, KeptGrows
  <1> QED BY <1>7, <1>8, <1>9, <1>10, <1>11, <1>12

LEMMA CommittingKeyInv ==
    ASSUME IInv, NEW l \in Logger, Committing(l)
    PROVE  KeyInv'
PROOF
  <1>1. /\ anchor[l].pc = "minted"
        /\ anchor[l].name \in Name /\ anchor[l].key \in Key
        /\ anchor[l].name[2] = anchor[l].key
        /\ anchor[l].token # None
        /\ wire[l] # "upload"
    BY DEF Committing, CommitPending, CommitByPut, RetryFindsNothing, CommitThrows,
           AnchorsNamed, AnchorsMinted, IInv, KeyInv
  <1>2. pending[anchor[l].name] \in {None, anchor[l].key}
    BY <1>1 DEF PendingNamed, Name, IInv, KeyInv
  <1>3. /\ <<l, anchor[l].key>> \in blobs
        /\ UNCHANGED <<netVars, ghosts>>
    BY DEF Committing, CommitPending, CommitByPut, RetryFindsNothing, CommitThrows, CommitReturns,
           BlobsBacked, IInv, KeyInv
  <1>4. CASE CommitPending(l)
    BY <1>1, <1>2, <1>3, <1>4, FileKeyInv DEF CommitPending, CommitReturns
  <1>5. CASE CommitByPut(l)
    BY <1>1, <1>3, <1>5, FileKeyInv DEF CommitByPut, CommitReturns
  <1>6. CASE UNCHANGED diskVars /\ CommitReturns(l, "uncommitted")
    <2>1. /\ anchor'[l].pc = "uncommitted"
          /\ anchor'[l].name = anchor[l].name
          /\ anchor'[l].key = anchor[l].key
          /\ anchor'[l].token = anchor[l].token
          /\ \A m \in Logger \ {l} : anchor'[m] = anchor[m]
      BY <1>6 DEF CommitReturns, IInv, TypeOK, MemTypeOK, Anchor
    <2>2. UNCHANGED <<wire, blobs, chain, diskVars, ghosts>>
      BY <1>3, <1>6 DEF netVars
    <2> QED BY <1>1, <1>3, <2>1, <2>2, AnchorMovesKeyInv
  <1>7. CASE CommitThrows(l) /\ ~ UNCHANGED diskVars
    <2>1. /\ \/ pending' = pending
             \/ pending' = [pending EXCEPT ![anchor[l].name] = None]
          /\ committed' = [committed EXCEPT ![anchor[l].token] = anchor[l].key]
          /\ lastReceipt' = lastReceipt
          /\ anchor' = [anchor EXCEPT ![l].pc = "uncommitted"]
      BY <1>2, <1>7 DEF CommitThrows, CommitReturns, diskVars
    <2> QED BY <1>1, <1>3, <2>1, FileKeyInv
  <1> QED BY <1>4, <1>5, <1>6, <1>7 DEF Committing, RetryFindsNothing, CommitThrows

LEMMA OperatingKeyInv ==
    ASSUME IInv, NEW l \in Logger, Operating(l)
    PROVE  KeyInv'
PROOF
  <1>1. PICK pc \in {"uploading", "minting", "minted"} : OperatorStarts(l, pc)
    BY DEF Operating, RetryFlush, RetryMint, RetryCommit
  <1>2. /\ anchor'[l].pc = pc
        /\ anchor'[l].name = anchor[l].name
        /\ anchor'[l].key = anchor[l].key
        /\ anchor'[l].token = anchor[l].token
        /\ \A m \in Logger \ {l} : anchor'[m] = anchor[m]
    BY <1>1 DEF OperatorStarts, IInv, TypeOK, MemTypeOK, Anchor
  <1>3. UNCHANGED <<diskVars, blobs, chain, ghosts>>
    BY <1>1 DEF OperatorStarts
  <1>4. CASE RetryFlush(l)
    <2>1. /\ anchor[l].pc = "unflushed" /\ anchor'[l].pc = "uploading"
          /\ wire' = [wire EXCEPT ![l] = "upload"]
      BY <1>4 DEF RetryFlush, OperatorStarts, IInv, TypeOK, MemTypeOK, Anchor
    <2>2. anchor[l].key \in Kept
      <3>1. anchor[l].name \in Name /\ anchor[l].key \in Key
        BY <2>1 DEF AnchorsNamed, IInv, KeyInv
      <3> QED BY <1>4, <3>1 DEF RetryFlush, Kept, KeysOnDisk, Key, None
    <2>3. wire'[l] = "upload" /\ \A m \in Logger \ {l} : wire'[m] = wire[m]
      BY <2>1 DEF IInv, TypeOK, NetTypeOK
    <2> QED BY <1>2, <1>3, <2>1, <2>2, <2>3, AnchorMovesKeyInv
  <1>5. CASE RetryMint(l)
    <2>1. /\ anchor[l].pc = "unminted" /\ anchor'[l].pc = "minting"
          /\ wire' = [wire EXCEPT ![l] = "mint"]
      BY <1>5 DEF RetryMint, OperatorStarts, IInv, TypeOK, MemTypeOK, Anchor
    <2>2. <<l, anchor[l].key>> \in blobs
      BY <2>1 DEF BlobsBacked, IInv, KeyInv
    <2>3. wire'[l] = "mint" /\ \A m \in Logger \ {l} : wire'[m] = wire[m]
      BY <2>1 DEF IInv, TypeOK, NetTypeOK
    <2> QED BY <1>2, <1>3, <2>1, <2>2, <2>3, AnchorMovesKeyInv
  <1>6. CASE RetryCommit(l)
    <2>1. /\ anchor[l].pc = "uncommitted" /\ anchor'[l].pc = "minted"
          /\ wire' = wire
      BY <1>6 DEF RetryCommit, OperatorStarts, IInv, TypeOK, MemTypeOK, Anchor
    <2>2. /\ anchor[l].token # None
          /\ wire[l] # "upload"
          /\ <<l, anchor[l].key>> \in blobs
      BY <2>1 DEF AnchorsNamed, AnchorsMinted, BlobsBacked, IInv, KeyInv
    <2> QED BY <1>2, <1>3, <2>1, <2>2, AnchorMovesKeyInv
  <1> QED BY <1>4, <1>5, <1>6 DEF Operating

LEMMA CrashKeyInv ==
    ASSUME IInv, Crash
    PROVE  KeyInv'
PROOF
  <1>1. ASSUME NEW l \in Logger
        PROVE  /\ \/ anchor'[l] = anchor[l]
                  \/ anchor[l].pc \in InFlight /\ anchor'[l].pc = "lost"
               /\ anchor'[l].name = anchor[l].name
               /\ anchor'[l].key = anchor[l].key
               /\ anchor'[l].token = anchor[l].token
    BY DEF Crash, IInv, TypeOK, MemTypeOK, Anchor
  <1>2. UNCHANGED <<diskVars, wire, blobs, chain>> /\ ghosts'.wiped = ghosts.wiped
    BY DEF Crash, netVars, IInv, TypeOK, EnvTypeOK, Ghosts
  <1>3. AnchorsNamed'
    BY <1>1, <1>2 DEF AnchorsNamed, IInv, KeyInv, InFlight
  <1>4. AnchorsMinted'
    BY <1>1, <1>2 DEF AnchorsMinted, IInv, KeyInv, InFlight
  <1>5. BlobsBacked'
    BY <1>1, <1>2 DEF BlobsBacked, IInv, KeyInv
  <1>6. PendingNamed' /\ KeyOpensReceipt'
    BY <1>2 DEF PendingNamed, KeyOpensReceipt, IInv, KeyInv, diskVars
  <1>7. KeyOutlivesCiphertext'
    <2>1. Kept' = Kept
      BY <1>2 DEF Kept, KeysOnDisk, diskVars
    <2> QED BY <1>1, <1>2, <2>1, KeptGrows DEF IInv, KeyInv
  <1> QED BY <1>3, <1>4, <1>5, <1>6, <1>7 DEF KeyInv

LEMMA WipeKeyInv ==
    ASSUME IInv, NEW n \in Name, WipePending(n)
    PROVE  KeyInv'
PROOF
  <1>1. /\ UNCHANGED <<anchor, wire, blobs, chain, committed, lastReceipt>>
        /\ pending[n] # None
        /\ pending' = [pending EXCEPT ![n] = None]
    BY DEF WipePending, memVars, netVars
  <1>2. ghosts'.wiped = ghosts.wiped \cup {pending[n]}
    BY DEF WipePending, IInv, TypeOK, EnvTypeOK, Ghosts
  <1>3. pending'[n] = None /\ \A m \in Name \ {n} : pending'[m] = pending[m]
    BY <1>1 DEF IInv, TypeOK, DiskTypeOK
  <1>4. AnchorsNamed' /\ AnchorsMinted' /\ BlobsBacked' /\ KeyOpensReceipt'
    BY <1>1 DEF AnchorsNamed, AnchorsMinted, BlobsBacked, KeyOpensReceipt, IInv, KeyInv
  <1>5. PendingNamed'
    BY <1>3 DEF PendingNamed, Name, IInv, KeyInv
  <1>6. Kept \subseteq Kept'
    BY <1>1, <1>2, <1>3 DEF Kept, KeysOnDisk
  <1>7. KeyOutlivesCiphertext'
    BY <1>1, <1>6, KeptGrows DEF IInv, KeyInv
  <1> QED BY <1>4, <1>5, <1>7 DEF KeyInv

LEMMA CapturingKeyInv ==
    ASSUME IInv, NEW s \in Session, Capturing(s)
    PROVE  KeyInv'
PROOF
  <1>1. UNCHANGED <<anchor, diskVars, netVars, ghosts>>
    BY DEF Capturing, MessageReceived, BeforePromptBuild, AfterToolCall, LlmOutput, Capture,
           BeforeAgentFinalize, CliToolCall, memVars
  <1> QED BY <1>1, KeyInvFrame DEF IInv

-----------------------------------------------------------------------------
LEMMA InitIInv == Init => IInv
PROOF
  <1> SUFFICES ASSUME Init
               PROVE  KeyInv
    BY InitTypeOK DEF IInv
  <1> USE DEF Init, KeyInv
  <1>1. AnchorsNamed /\ AnchorsMinted /\ BlobsBacked
    BY DEF AnchorsNamed, AnchorsMinted, BlobsBacked
  <1>2. PendingNamed
    BY DEF PendingNamed, Name
  <1>3. KeyOpensReceipt /\ KeyOutlivesCiphertext
    BY DEF KeyOpensReceipt, KeyOutlivesCiphertext
  <1> QED BY <1>1, <1>2, <1>3

LEMMA NextIInv == IInv /\ [Next]_vars => IInv'
PROOF
  <1> SUFFICES ASSUME IInv, [Next]_vars
               PROVE  KeyInv'
    BY NextTypeOK DEF IInv, KeyInv
  <1>1. CASE Tick
    BY <1>1, KeyInvFrame DEF Tick, memVars, IInv
  <1>2. CASE UNCHANGED vars
    BY <1>2, KeyInvFrame DEF vars, memVars, IInv
  <1> QED BY <1>1, <1>2, CapturingKeyInv, EndingKeyInv, UploadingKeyInv, MintingKeyInv,
             CommittingKeyInv, NetworkKeyInv, OperatingKeyInv, CrashKeyInv, WipeKeyInv DEF Next

LEMMA Invariance == Spec => []IInv
BY InitIInv, NextIInv, PTL DEF Spec

(* Every variable of the plugin, the disk, the network and the chain keeps *)
(* its type in every behaviour, whatever the bounds are.                   *)
THEOREM TypeCorrect == Spec => []TypeOK
PROOF
  <1>1. IInv => TypeOK
    BY DEF IInv
  <1> QED BY <1>1, Invariance, PTL

(* commitPending, put and the operator's recipes only ever file, under a   *)
(* token, the key its envelope was encrypted with.                         *)
THEOREM KeysOpenReceipts == Spec => []KeyOpensReceipt
PROOF
  <1>1. IInv => KeyOpensReceipt
    BY DEF IInv, KeyInv
  <1> QED BY <1>1, Invariance, PTL

(* setPending before takeAndRelease before flush: no crash, timeout, late  *)
(* upload or failed commit separates an envelope from its key.             *)
THEOREM KeysOutliveCiphertexts == Spec => []KeyOutlivesCiphertext
PROOF
  <1>1. IInv => KeyOutlivesCiphertext
    BY DEF IInv, KeyInv
  <1> QED BY <1>1, Invariance, PTL

=============================================================================
