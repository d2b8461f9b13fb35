-------------------------------- MODULE Feed --------------------------------
(***************************************************************************)
(* The dashboard's list of receipts.  A scan finds the highest token id,   *)
(* from a module-level cache or by asking the contract, and walks down     *)
(* from it one RPC call at a time, while tokens are minted and transferred.*)
(* /api/feed answers from its last scan for a while and lets concurrent    *)
(* requests share one; of what it keeps, the rows are those of that scan,  *)
(* and only their age is a variable.                                       *)
(*                                                                         *)
(* Time is kept as ages, which stop growing where nothing can tell them    *)
(* apart any more.                                                         *)
(***************************************************************************)
EXTENDS AgenticID

CONSTANTS
    Scanner,        \* /api/feed and the pages that scan by themselves
    Route,          \* /api/feed
    Filter,         \* per scanner: the agent whose tokens it wants, or None
    RowLimit,       \* per scanner: FEED_RESULT_LIMIT, 50 for an agent
    WalkDepth,      \* per scanner: FEED_PROBE_DEPTH, AGENT_SCAN_MAX_DEPTH
    ProbeStart,     \* first id of the exponential probe (64)
    ProbeCeiling,   \* PROBE_SAFETY_CEILING
    CeilingTTL,     \* CEILING_TTL_MS, in ticks
    PayloadTTL,     \* CACHE_TTL_MS, in ticks
    Poll            \* requests to /api/feed that may overlap

ASSUME FeedAssumption ==
    /\ Route \in Scanner
    /\ Filter \in [Scanner -> Account \cup {None}] /\ Filter[Route] = None
    /\ RowLimit \in [Scanner -> Nat] /\ WalkDepth \in [Scanner -> Nat]
    /\ {ProbeStart, ProbeCeiling, CeilingTTL, PayloadTTL} \subseteq Nat \ {0}

VARIABLES
    age,            \* history: how long ago each token was minted
    cachedCeiling,  \* the cached token id, and how long ago it was asked for
    scan,           \* per scanner: where its scan stands, and (kept) the tokens it
                    \* wanted at its start, wants still and has not listed
    payloadAge,     \* of what /api/feed keeps
    inflight,       \* inflightFetch is set
    waiting         \* the requests that await it

feedVars == <<age, cachedCeiling, scan, payloadAge, inflight, waiting>>

Calling == {"supply", "probe", "check", "bisect", "walk"}
Rows    == Seq(Token)
NoCeiling == [value |-> 0, age |-> CeilingTTL]
NoScan  == [pc |-> "idle", now |-> 0, lo |-> 0, hi |-> 0, ceiling |-> 0, id |-> 0,
            rows |-> <<>>, kept |-> {}]

(* Ages are capped, a scan has one call under way and walks downwards.     *)
FeedTypeOK ==
    /\ age \in [Token -> 0..CeilingTTL]
    /\ cachedCeiling \in [value : Nat, age : 0..CeilingTTL]
    /\ scan \in [Scanner ->
           [pc : Calling \cup {"idle"}, now : 0..CeilingTTL, lo : Nat, hi : Nat,
            ceiling : Nat, id : Nat \cup {-1}, rows : Rows, kept : SUBSET Token]]
    /\ payloadAge \in 0..PayloadTTL
    /\ inflight \in BOOLEAN
    /\ waiting \subseteq Poll

FeedInit ==
    /\ age = [t \in Token |-> 0]
    /\ cachedCeiling = NoCeiling
    /\ scan = [s \in Scanner |-> NoScan]
    /\ payloadAge = PayloadTTL
    /\ inflight = FALSE
    /\ waiting = {}

-----------------------------------------------------------------------------
(* What one token id is to the feed.  An item of its data is "log" or      *)
(* "orphan" for a description exec-log:<session>:<model> or                *)
(* exec-log-orphan:..., "bad" for one with either prefix and no session or *)
(* no model, anything else for a description of another kind.              *)

isExecutionLogDescription(d) == d \in {"log", "orphan", "bad"}

parses(d) == d \in {"log", "orphan"}

tokenExists(t) == t \in Minted

(* The first item with a known prefix decides, though a later one parses.  *)
IsReceipt(t) ==
    LET datas == intelligentData[t]
        logs  == {i \in DOMAIN datas : isExecutionLogDescription(datas[i])}
    IN  \E i \in logs : (\A j \in logs : i <= j) /\ parses(datas[i])

Wants(s, t) == Filter[s] \in {None, owner[t]}

-----------------------------------------------------------------------------
(* A scan, one awaited call at a time.                                     *)

Advance(s, change) == scan' = [scan EXCEPT ![s] = change]

StartScan(s) ==
    LET fresh == cachedCeiling.age < CeilingTTL
    IN  Advance(s, [NoScan EXCEPT
            !.pc = IF fresh THEN "walk" ELSE "supply",
            !.ceiling = IF fresh THEN cachedCeiling.value ELSE 0,
            !.id = IF fresh THEN cachedCeiling.value ELSE 0,
            !.kept = {t \in Minted : Wants(s, t)}])

(* As if the cache were stamped when the answer is there.                  *)
FoundCeilingStampedLate(s, value) ==
    /\ cachedCeiling' = [value |-> value, age |-> 0]
    /\ Advance(s, [scan[s] EXCEPT !.pc = "walk", !.ceiling = value, !.id = value, !.now = 0,
                                  !.lo = 0, !.hi = 0])

(* Stamped with the time the question was asked, whoever stored meanwhile. *)
FoundCeiling(s, value) ==
    /\ cachedCeiling' = IF scan[s].now < CeilingTTL
                        THEN [value |-> value, age |-> scan[s].now] ELSE NoCeiling
    /\ Advance(s, [scan[s] EXCEPT !.pc = "walk", !.ceiling = value, !.id = value, !.now = 0,
                                  !.lo = 0, !.hi = 0])

(* _nextTokenId() reverts on this contract, so totalSupply() is asked.     *)
SupplyAnswers(s) ==
    /\ scan[s].pc = "supply"
    /\ FoundCeiling(s, IF nextTokenId > 0 THEN nextTokenId - 1 ELSE 0)
    /\ UNCHANGED <<age, payloadAge, inflight, waiting>>

(* Any error sends the scan into the search, an outage included.           *)
SupplyFails(s) ==
    /\ scan[s].pc = "supply"
    /\ Advance(s, [scan[s] EXCEPT !.pc = "probe", !.hi = ProbeStart])
    /\ UNCHANGED <<age, cachedCeiling, payloadAge, inflight, waiting>>

Probe(s) ==
    LET lo == scan[s].lo  hi == scan[s].hi
    IN  /\ scan[s].pc = "probe"
        /\ IF ~tokenExists(hi)
           THEN Advance(s, [scan[s] EXCEPT !.pc = "check"]) /\ UNCHANGED cachedCeiling
           ELSE IF 2 * hi < ProbeCeiling
                THEN Advance(s, [scan[s] EXCEPT !.lo = hi, !.hi = 2 * hi]) /\ UNCHANGED cachedCeiling
                ELSE FoundCeiling(s, hi)
        /\ UNCHANGED <<age, payloadAge, inflight, waiting>>

Narrow(s, lo, hi) ==
    IF hi - lo > 1
    THEN Advance(s, [scan[s] EXCEPT !.pc = "bisect", !.lo = lo, !.hi = hi]) /\ UNCHANGED cachedCeiling
    ELSE FoundCeiling(s, lo)

CheckLow(s) ==
    LET lo == scan[s].lo  hi == scan[s].hi
    IN  /\ scan[s].pc = "check"
        /\ IF tokenExists(lo) THEN Narrow(s, lo, hi) ELSE FoundCeiling(s, 0)
        /\ UNCHANGED <<age, payloadAge, inflight, waiting>>

Bisect(s) ==
    LET lo == scan[s].lo  hi == scan[s].hi  mid == (lo + hi) \div 2
    IN  /\ scan[s].pc = "bisect"
        /\ IF tokenExists(mid) THEN Narrow(s, mid, hi) ELSE Narrow(s, lo, mid)
        /\ UNCHANGED <<age, payloadAge, inflight, waiting>>

(* As if token 0 ended the walk. *)
WalkedAboveZero(s) ==
    \/ scan[s].id <= 0
    \/ scan[s].id < scan[s].ceiling - WalkDepth[s]
    \/ Len(scan[s].rows) >= RowLimit[s]

Walked(s) ==
    \/ scan[s].id < 0
    \/ scan[s].id < scan[s].ceiling - WalkDepth[s]
    \/ Len(scan[s].rows) >= RowLimit[s]

(* Its data cannot change, so reading it together with the owner is no     *)
(* other than reading it one call before.                                  *)
Listable(s, t) == tokenExists(t) /\ IsReceipt(t) /\ Wants(s, t)

Read(s, rest) ==
    LET t == scan[s].id
    IN  IF Listable(s, t)
        THEN [scan[s] EXCEPT !.id = rest, !.rows = Append(@, t), !.kept = @ \ {t}]
        ELSE [scan[s] EXCEPT !.id = rest]

(* As if the walk stopped at the first token that is not the agent's.      *)
fetchOneRowStopping(s) ==
    LET t == scan[s].id
    IN  /\ scan[s].pc = "walk" /\ ~Walked(s)
        /\ Advance(s, Read(s, IF tokenExists(t) /\ ~Wants(s, t) THEN -1 ELSE t - 1))
        /\ UNCHANGED <<age, cachedCeiling, payloadAge, inflight, waiting>>

fetchOneRow(s) ==
    /\ scan[s].pc = "walk" /\ ~Walked(s)
    /\ Advance(s, Read(s, scan[s].id - 1))
    /\ UNCHANGED <<age, cachedCeiling, payloadAge, inflight, waiting>>

(* inflightFetch settles: whoever awaits it gets its rows, or its error.   *)
Settle == inflight' = FALSE /\ waiting' = {}

ScanDone(s) ==
    /\ scan[s].pc = "walk" /\ Walked(s)
    /\ Advance(s, NoScan)
    /\ IF s = Route THEN payloadAge' = 0 /\ Settle
       ELSE UNCHANGED <<payloadAge, inflight, waiting>>
    /\ UNCHANGED <<age, cachedCeiling>>

(* As if a scan that throws left inflightFetch set.                        *)
CallFailsForgetting(s) ==
    /\ scan[s].pc \in Calling \ {"supply"}
    /\ Advance(s, NoScan)
    /\ UNCHANGED <<age, cachedCeiling, payloadAge, inflight, waiting>>

(* An RPC call fails otherwise than with "Token does not exist".           *)
CallFails(s) ==
    /\ scan[s].pc \in Calling \ {"supply"}
    /\ Advance(s, NoScan)
    /\ IF s = Route THEN Settle ELSE UNCHANGED <<inflight, waiting>>
    /\ UNCHANGED <<age, cachedCeiling, payloadAge>>

ScanStep(s) ==
    \/ SupplyAnswers(s) \/ SupplyFails(s) \/ Probe(s) \/ CheckLow(s) \/ Bisect(s)
    \/ fetchOneRow(s) \/ ScanDone(s) \/ CallFails(s)

-----------------------------------------------------------------------------
(* Who asks for scans. *)

(* The landing page and an agent's page scan when they are rendered.       *)
PageRenders(s) ==
    /\ s # Route /\ scan[s].pc = "idle"
    /\ StartScan(s)
    /\ UNCHANGED <<age, cachedCeiling, payloadAge, inflight, waiting>>

(* A request that finds the last scan fresh is answered on the spot.       *)
getCachedFeed(p) ==
    /\ payloadAge >= PayloadTTL /\ p \notin waiting
    /\ waiting' = waiting \cup {p}
    /\ IF inflight THEN UNCHANGED <<scan, inflight>>
       ELSE inflight' = TRUE /\ StartScan(Route)
    /\ UNCHANGED <<age, cachedCeiling, payloadAge>>

Older(n, cap) == IF n < cap THEN n + 1 ELSE n

Tick ==
    /\ age' = [t \in Token |-> IF t \in Minted THEN Older(age[t], CeilingTTL) ELSE 0]
    /\ cachedCeiling' = IF cachedCeiling.age + 1 < CeilingTTL
                        THEN [cachedCeiling EXCEPT !.age = @ + 1] ELSE NoCeiling
    /\ payloadAge' = Older(payloadAge, PayloadTTL)
    /\ scan' = [s \in Scanner |->
           IF scan[s].pc \in {"supply", "probe", "check", "bisect"}
           THEN [scan[s] EXCEPT !.now = Older(@, CeilingTTL)] ELSE scan[s]]
    /\ UNCHANGED <<inflight, waiting>>

FeedNext ==
    \/ \E s \in Scanner : ScanStep(s) \/ PageRenders(s)
    \/ \E p \in Poll : getCachedFeed(p)
    \/ Tick

(* The calls that write what a scan reads; who sends them it does not read.*)
(* A transaction with clones or callbacks comes, to a scan, to the mints   *)
(* and transfers it is made of: no scan sees the middle of it.             *)
(* A token that leaves the agent's hands is no longer one it has kept.     *)
ChainMoves ==
    /\ \E to \in Account :
          \/ \E datas \in Data : to \notin Contract /\ iMint(Deployer, to, datas, 0)
          \/ \E t \in Minted : iTransferFrom(owner[t], owner[t], to, t)
    /\ scan' = [s \in Scanner |->
           [scan[s] EXCEPT !.kept = {t \in @ : Filter[s] \in {None, owner'[t]}}]]
    /\ UNCHANGED <<age, cachedCeiling, payloadAge, inflight, waiting>>

FeedSpec ==
    /\ ContractInit /\ FeedInit
    /\ [][ChainMoves \/ (FeedNext /\ UNCHANGED contractVars)]_<<contractVars, feedVars>>

-----------------------------------------------------------------------------
(* A cached ceiling still in use is a token that exists, or 0, and is no   *)
(* lower than any token minted before it was asked for, however long the   *)
(* search took, whatever was minted meanwhile, and although a slow scan    *)
(* may overwrite what a later one stored.                                  *)
CeilingFresh ==
    cachedCeiling.age < CeilingTTL =>
        /\ cachedCeiling.value = 0 \/ tokenExists(cachedCeiling.value)
        /\ \A t \in Minted : age[t] > cachedCeiling.age => t <= cachedCeiling.value

(* The rows of a scan that is about to return, and the tokens it owes yet: *)
(* receipts it wanted at its start and still wants, up to its ceiling and  *)
(* within the depth of its walk.                                           *)
Over(s) == scan[s].pc = "walk" /\ Walked(s)
Shown(s) == {scan[s].rows[i] : i \in DOMAIN scan[s].rows}
Owed(s) ==
    {t \in scan[s].kept : IsReceipt(t) /\ t \in (scan[s].ceiling - WalkDepth[s])..scan[s].ceiling}
Complete(s) ==
    \A t \in Owed(s) : Len(scan[s].rows) = RowLimit[s] /\ \A u \in Shown(s) : u > t

(* The feed lists receipts only, newest first and none twice, and leaves   *)
(* none out that it owes: token 0 and the last within reach included.      *)
PayloadFaithful ==
    LET rows == scan[Route].rows
    IN  Over(Route) =>
            /\ \A i \in DOMAIN rows : IsReceipt(rows[i])
            /\ \A i, j \in DOMAIN rows : i < j => rows[i] > rows[j]
            /\ Complete(Route)

(* An agent's page lists every receipt the agent held all through the scan *)
(* under the same terms, although tokens change hands meanwhile.           *)
AgentComplete == \A s \in Scanner : Over(s) /\ Filter[s] # None => Complete(s)

(* A request that waits has a scan under way that will settle it, its own  *)
(* or another's, whichever call of which scan failed before.               *)
PollServed == waiting # {} => inflight /\ scan[Route].pc # "idle"

=============================================================================
