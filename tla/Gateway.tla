------------------------------- MODULE Gateway -------------------------------
(***************************************************************************)
(* The plugin on its host: how a gateway process comes by its wallet and   *)
(* its agentId when it registers, goes without hooks when it cannot, and   *)
(* keeps what each chat session does in a logger of its own until a hook   *)
(* of that session takes it away to be anchored (AnchorPlugin says how).   *)
(*                                                                         *)
(* Several gateways may run under one home directory; they share           *)
(* wallet.json and openclaw.json with install.sh.  register() is           *)
(* synchronous, but only within its process: a file operation of another,  *)
(* or a crash, may come between two of its own, and between any two of the *)
(* commands of install.sh.  A wallet is named by its address.              *)
(***************************************************************************)
EXTENDS Integers, Sequences

CONSTANTS
    Process,    \* gateways of one home directory
    Installer,  \* shells that run install.sh there
    Wallet,     \* bound: the key pairs that are ever generated
    EnvWallet,  \* the one PRIVATE_KEY holds, where it is set
    Foreign,    \* an address nobody on this host has the key of
    Session,    \* chat sessions, by sessionId
    RoutingKey, \* per session: its sessionKey, which others may have as well
    MaxStarts,  \* bound: starts of gateways and of install.sh
    MaxEntries, \* bound: entries a session has in its logger
    None        \* no file, no value, no key

ASSUME GatewayAssumption ==
    /\ {EnvWallet, Foreign, None, "torn", "invalid"} \cap Wallet = {}
    /\ EnvWallet # None /\ Foreign # None /\ None \notin Session \cup Process
    /\ Process \cap Installer = {}
    /\ MaxStarts \in Nat /\ MaxEntries \in Nat

VARIABLES
    walletFile, \* wallet.json: None, "torn" or a wallet
    damaged,    \* it cannot be read or parsed, though its wallet is in it
    setting,    \* the agentId of openclaw.json: None, "invalid" or an address
    process,    \* per gateway: its mode, signer, agentId, and whether that was auto-bound
    installer,  \* per shell: how far it is, the wallet it knows, the agentId it will write
    loggers,    \* per gateway and key: the sessions of the entries in that logger
    owed,       \* history: per gateway and session, its entries not taken away yet
    generated,  \* history: the wallets generated so far
    announced,  \* history: the wallets a banner or install.sh told the user to fund
    raced,      \* history: the wallets of first starts and installs that overlapped
    aside,      \* history: the wallets the operator moved out of the way
    starts      \* history: how many starts so far

hostFiles   == <<walletFile, damaged, setting>>
captures    == <<loggers, owed>>
walletPast  == <<generated, announced, raced, aside>>
gatewayVars == <<hostFiles, process, installer, captures, walletPast, starts>>

Address   == Wallet \cup {EnvWallet, Foreign}
LoggerKey == Session \cup {RoutingKey[s] : s \in Session}
FirstRun  == {"creating", "writing"}
Down      == [mode |-> "down", signer |-> None, agentId |-> None, bound |-> FALSE]
Idle      == [step |-> "idle", wallet |-> None, agentId |-> None]

(* A gateway that is live has a signer and an agentId, any other logs      *)
(* nothing.                                                                *)
GatewayTypeOK ==
    /\ walletFile \in Wallet \cup {"torn", None}
    /\ damaged \in BOOLEAN
    /\ setting \in Address \cup {"invalid", None}
    /\ process \in [Process -> [mode : {"down", "degraded", "live"} \cup FirstRun,
                                signer : Address \cup {None}, agentId : Address \cup {None},
                                bound : BOOLEAN]]
    /\ \A p \in Process :
          IF process[p].mode = "live" THEN None \notin {process[p].signer, process[p].agentId}
          ELSE \A k \in LoggerKey : loggers[p][k] = <<>>
    /\ installer \in [Installer -> [step : {"idle", "reading", "seeding", "patching", "linking"} \cup FirstRun,
                                    wallet : Wallet \cup {None},
                                    agentId : Address \cup {"invalid", None}]]
    /\ loggers \in [Process -> [LoggerKey -> Seq(Session)]]
    /\ owed \in [Process -> [Session -> 0..MaxEntries]]
    /\ generated \subseteq Wallet /\ announced \subseteq generated
    /\ raced \subseteq Wallet /\ aside \subseteq Wallet
    /\ starts \in 0..MaxStarts

NoLoggers == [k \in LoggerKey |-> <<>>]
NothingOwed == [s \in Session |-> 0]

GatewayInit ==
    /\ walletFile = None /\ damaged = FALSE /\ setting = None
    /\ process = [p \in Process |-> Down]
    /\ installer = [i \in Installer |-> Idle]
    /\ loggers = [p \in Process |-> NoLoggers]
    /\ owed = [p \in Process |-> NothingOwed]
    /\ generated = {} /\ announced = {} /\ raced = {} /\ aside = {}
    /\ starts = 0

-----------------------------------------------------------------------------
(* register(): the configuration, the wallet, then the hooks. *)

Becomes(p, mode, signer, bound) ==
    process' = [process EXCEPT ![p] =
        [mode |-> mode, signer |-> signer, bound |-> bound,
         agentId |-> IF bound THEN signer ELSE IF mode = "degraded" THEN None ELSE setting]]

(* An agentId that is no address is refused; one left empty, or zero, is   *)
(* replaced by the address of the wallet.                                  *)
resolveConfig == IF setting = "invalid" THEN "refused" ELSE "ok"
AutoBound     == setting = None

Fresh == CHOOSE w \in Wallet \ generated : TRUE

Generate(p) ==
    /\ generated # Wallet
    /\ generated' = generated \cup {Fresh}
    /\ Becomes(p, "creating", Fresh, AutoBound)

(* As it was before round 10: a file that does not parse is no wallet.     *)
resolveWalletRegenerating(p) ==
    IF walletFile \notin {None, "torn"} /\ ~damaged
    THEN Becomes(p, "live", walletFile, AutoBound) /\ UNCHANGED generated
    ELSE Generate(p)

(* wallet.json is looked for here, and created by the steps that follow.   *)
resolveWallet(p) ==
    IF walletFile = None THEN Generate(p)
    ELSE /\ IF walletFile = "torn" \/ damaged THEN Becomes(p, "degraded", None, FALSE)
            ELSE Becomes(p, "live", walletFile, AutoBound)
         /\ UNCHANGED generated

(* The environment variable goes before the file.  Without hooks for a     *)
(* configuration that is refused, a variable that holds no key, or a       *)
(* client that cannot be built.                                            *)
register(p) ==
    /\ process[p].mode = "down" /\ starts < MaxStarts
    /\ starts' = starts + 1
    /\ \/ Becomes(p, "degraded", None, FALSE) /\ UNCHANGED generated
       \/ /\ resolveConfig = "ok"
          /\ Becomes(p, "live", EnvWallet, AutoBound) /\ UNCHANGED generated
       \/ /\ resolveConfig = "ok"
          /\ resolveWallet(p)
    /\ UNCHANGED <<hostFiles, installer, captures, announced, raced, aside>>

(* The wallets that others than x, a gateway or a shell, found no file for *)
(* and are about to write; with the one that x writes, if there are any.   *)
MadeBesides(x) ==
    {process[p].signer : p \in {p \in Process \ {x} : process[p].mode \in FirstRun}}
      \cup {installer[i].wallet : i \in {i \in Installer \ {x} : installer[i].step \in FirstRun}}

Overlapping(w, x) == IF MadeBesides(x) = {} THEN {} ELSE MadeBesides(x) \cup {w}

(* writeFileSync truncates whatever is there by now, and then writes.      *)
Truncate(p) ==
    /\ process[p].mode = "creating"
    /\ walletFile' = "torn" /\ damaged' = FALSE
    /\ process' = [process EXCEPT ![p].mode = "writing"]
    /\ UNCHANGED <<setting, installer, captures, walletPast, starts>>

Write(p) ==
    /\ process[p].mode = "writing"
    /\ walletFile' = process[p].signer
    /\ \/ process' = [process EXCEPT ![p].mode = "live"]
       \/ Becomes(p, "degraded", None, FALSE)
    /\ announced' = announced \cup {process[p].signer}
    /\ raced' = raced \cup Overlapping(process[p].signer, p)
    /\ UNCHANGED <<damaged, setting, installer, captures, generated, aside, starts>>

(* A write that throws leaves the gateway without hooks, and the file as   *)
(* it is.                                                                  *)
WriteThrows(p) ==
    /\ process[p].mode \in FirstRun
    /\ Becomes(p, "degraded", None, FALSE)
    /\ UNCHANGED <<hostFiles, installer, captures, walletPast, starts>>

Stop(p) ==
    /\ process[p].mode # "down"
    /\ process' = [process EXCEPT ![p] = Down]
    /\ loggers' = [loggers EXCEPT ![p] = NoLoggers]
    /\ owed' = [owed EXCEPT ![p] = NothingOwed]
    /\ UNCHANGED <<hostFiles, installer, walletPast, starts>>

-----------------------------------------------------------------------------
(* Hooks.  The harness gives every hook the sessionId, the sessionKey only *)
(* now and then.  That is what pickSessionKey's comment says of the agent, *)
(* tool and session hooks; message_received's type makes the sessionId     *)
(* optional as well, and here it is taken to be there.                     *)

Contexts(s) == {[sessionId |-> s, sessionKey |-> k] : k \in {RoutingKey[s], None}}

(* As it was before: the routing key when there is one.                    *)
pickSessionKeyFirst(ctx) == IF ctx.sessionKey # None THEN ctx.sessionKey ELSE ctx.sessionId

pickSessionKey(ctx) == IF ctx.sessionId # None THEN ctx.sessionId ELSE ctx.sessionKey

(* getOrCreate, then appendEntry. *)
CaptureHook(p, s, ctx) ==
    /\ process[p].mode = "live" /\ owed[p][s] < MaxEntries
    /\ loggers' = [loggers EXCEPT ![p][pickSessionKey(ctx)] = Append(@, s)]
    /\ owed' = [owed EXCEPT ![p][s] = @ + 1]
    /\ UNCHANGED <<hostFiles, process, installer, walletPast, starts>>

(* takeAndRelease, by agent_end or session_end.                            *)
EndHook(p, s, ctx) ==
    /\ process[p].mode = "live"
    /\ loggers[p][pickSessionKey(ctx)] # <<>>
    /\ loggers' = [loggers EXCEPT ![p][pickSessionKey(ctx)] = <<>>]
    /\ owed' = [owed EXCEPT ![p][s] = 0]
    /\ UNCHANGED <<hostFiles, process, installer, walletPast, starts>>

(* An entry as the verifier reads it: whom its signature recovers to.      *)
buildSignedEntry(p) ==
    [sig |-> IF process[p].signer = process[p].agentId THEN "agent" ELSE process[p].signer,
     attested |-> TRUE]

(* Where /agentscan_share and /agentscan_tokens send the user, and what    *)
(* /agentscan_wallet says to fund: each the agentId, no file is read.      *)
allReceiptsUrl(p)   == process[p].agentId
agentscan_tokens(p) == allReceiptsUrl(p)
agentscan_wallet(p) == [fund |-> process[p].agentId, feed |-> allReceiptsUrl(p)]

-----------------------------------------------------------------------------
(* install.sh, one command after the other. *)

Reaches(i, step, wallet, agentId) ==
    installer' = [installer EXCEPT ![i] = [step |-> step, wallet |-> wallet, agentId |-> agentId]]

(* As if it made a wallet although there is one.                           *)
InstallRegenerating(i) ==
    /\ installer[i].step = "idle" /\ generated # Wallet
    /\ starts < MaxStarts /\ starts' = starts + 1
    /\ generated' = generated \cup {Fresh}
    /\ Reaches(i, "creating", Fresh, None)
    /\ UNCHANGED <<hostFiles, process, captures, announced, raced, aside>>

(* [ ! -f wallet.json ]: the file is made by another process, which takes  *)
(* its time to start, or it is reused.                                     *)
InstallChecks(i) ==
    /\ installer[i].step = "idle"
    /\ starts < MaxStarts /\ starts' = starts + 1
    /\ \/ /\ walletFile = None /\ generated # Wallet
          /\ generated' = generated \cup {Fresh}
          /\ Reaches(i, "creating", Fresh, None)
       \/ /\ walletFile # None /\ UNCHANGED generated
          /\ Reaches(i, "reading", None, None)
    /\ UNCHANGED <<hostFiles, process, captures, announced, raced, aside>>

InstallTruncates(i) ==
    /\ installer[i].step = "creating"
    /\ walletFile' = "torn" /\ damaged' = FALSE
    /\ Reaches(i, "writing", installer[i].wallet, None)
    /\ UNCHANGED <<setting, process, captures, walletPast, starts>>

InstallWrites(i) ==
    /\ installer[i].step = "writing"
    /\ walletFile' = installer[i].wallet
    /\ raced' = raced \cup Overlapping(installer[i].wallet, i)
    /\ Reaches(i, "reading", None, None)
    /\ UNCHANGED <<damaged, setting, process, captures, generated, announced, aside, starts>>

(* jq -r .address, which finds nothing in an empty file and fails on half  *)
(* a one, or one that is gone by now.                                      *)
InstallReads(i) ==
    /\ installer[i].step = "reading"
    /\ \/ walletFile \in Wallet /\ ~damaged /\ Reaches(i, "seeding", walletFile, None)
       \/ walletFile = "torn" /\ Reaches(i, "seeding", None, None)
    /\ UNCHANGED <<hostFiles, process, captures, walletPast, starts>>

(* The agentId, where it is empty or zero, becomes the address: jq writes  *)
(* a copy of openclaw.json, mv puts it in place.                           *)
InstallSeeds(i) ==
    /\ installer[i].step = "seeding"
    /\ Reaches(i, "patching", installer[i].wallet, IF setting = None THEN installer[i].wallet ELSE setting)
    /\ UNCHANGED <<hostFiles, process, captures, walletPast, starts>>

InstallPatches(i) ==
    /\ installer[i].step = "patching"
    /\ setting' = installer[i].agentId
    /\ Reaches(i, "linking", installer[i].wallet, None)
    /\ UNCHANGED <<walletFile, damaged, process, captures, walletPast, starts>>

(* The footer says to fund the address that was read.                      *)
InstallAnnounces(i) ==
    /\ installer[i].step = "linking"
    /\ announced' = announced \cup ({installer[i].wallet} \ {None})
    /\ Reaches(i, "idle", None, None)
    /\ UNCHANGED <<hostFiles, process, captures, generated, raced, aside, starts>>

(* Any command that fails ends it (set -e), and so does the operator.      *)
InstallAborts(i) ==
    /\ installer[i].step # "idle"
    /\ Reaches(i, "idle", None, None)
    /\ UNCHANGED <<hostFiles, process, captures, walletPast, starts>>

Install(i) ==
    \/ InstallChecks(i) \/ InstallTruncates(i) \/ InstallWrites(i) \/ InstallReads(i)
    \/ InstallSeeds(i) \/ InstallPatches(i) \/ InstallAnnounces(i) \/ InstallAborts(i)

-----------------------------------------------------------------------------
(* What the operator does to the files. *)

Configure ==
    /\ setting' \in {None, "invalid", Foreign} \ {setting}
    /\ UNCHANGED <<walletFile, damaged, process, installer, captures, walletPast, starts>>

Damage ==
    /\ walletFile \in Wallet
    /\ damaged' = ~damaged
    /\ UNCHANGED <<walletFile, setting, process, installer, captures, walletPast, starts>>

(* The way out of degraded mode that the error names.                      *)
MoveAside ==
    /\ walletFile # None
    /\ walletFile' = None /\ damaged' = FALSE
    /\ aside' = aside \cup ({walletFile} \cap Wallet)
    /\ UNCHANGED <<setting, process, installer, captures, generated, announced, raced, starts>>

Register == \E p \in Process : register(p) \/ Truncate(p) \/ Write(p) \/ WriteThrows(p)
Stops    == \E p \in Process : Stop(p)
Hooks    == \E p \in Process, s \in Session : \E ctx \in Contexts(s) :
                CaptureHook(p, s, ctx) \/ EndHook(p, s, ctx)
Installs == \E i \in Installer : Install(i)
Outside  == Configure \/ Damage \/ MoveAside

GatewayNext == Register \/ Stops \/ Hooks \/ Installs \/ Outside

GatewaySpec == GatewayInit /\ [][GatewayNext]_gatewayVars

-----------------------------------------------------------------------------
(* A wallet the user was told to fund stays in wallet.json, whatever else  *)
(* starts, stops, fails to read it or is installed, until the operator     *)
(* moves it; only first starts and installs that found no file and overlap *)
(* may lose one.                                                           *)
WalletKept == \A w \in announced \ (aside \cup raced) : walletFile = w

(* Whichever hook of a session fires next, and with whichever context, it  *)
(* finds the logger with all the entries the session has not anchored yet, *)
(* and with no entry of another session that has the same routing key.     *)
SessionWhole ==
    \A p \in Process, s \in Session : \A ctx \in Contexts(s) :
        LET log == loggers[p][pickSessionKey(ctx)]
        IN  Len(log) = owed[p][s] /\ \A i \in DOMAIN log : log[i] = s

=============================================================================
