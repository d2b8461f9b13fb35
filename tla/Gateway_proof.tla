---------------------------- MODULE Gateway_proof ----------------------------
(***************************************************************************)
(* Theorems about Gateway for any number of gateways, wallets, sessions    *)
(* and entries: no start, stop, crash or failing file operation loses a    *)
(* wallet the user was told to fund unless first starts or installs        *)
(* overlapped, and no hook misses or mixes up the entries of its session.  *)
(* With the page that shows them, and the adapter: whose entries are       *)
(* green, and why not.                                                     *)
(***************************************************************************)
EXTENDS VerificationMC, Verification_proof

USE GatewayAssumption

-----------------------------------------------------------------------------
(***************************************************************************)
(* Types.  A first start writes its wallet long after it took its agentId  *)
(* from the configuration, which may have been changed since; what a shell *)
(* makes or reads, and what is in wallet.json, was generated.              *)
(***************************************************************************)

FirstRunsNamed ==
    \A p \in Process :
        process[p].mode \in FirstRun => process[p].signer \in generated /\ process[p].agentId \in Address

InstallersNamed ==
    /\ walletFile \in Wallet => walletFile \in generated
    /\ \A i \in Installer :
          /\ installer[i].wallet \in generated \cup {None}
          /\ installer[i].step \in FirstRun => installer[i].wallet # None

TInv == GatewayTypeOK /\ FirstRunsNamed /\ InstallersNamed

InstallerType == [step : {"idle", "reading", "seeding", "patching", "linking"} \cup FirstRun,
                  wallet : Wallet \cup {None}, agentId : Address \cup {"invalid", None}]

ProcessType == [mode : {"down", "degraded", "live"} \cup FirstRun, signer : Address \cup {None},
                agentId : Address \cup {None}, bound : BOOLEAN]

(* GatewayTypeOK in parts. *)
FilesOK ==
    /\ walletFile \in Wallet \cup {"torn", None} /\ damaged \in BOOLEAN
    /\ setting \in Address \cup {"invalid", None} /\ starts \in 0..MaxStarts
PastOK ==
    /\ generated \subseteq Wallet /\ announced \subseteq generated
    /\ raced \subseteq Wallet /\ aside \subseteq Wallet
ProcessOK ==
    /\ process \in [Process -> ProcessType]
    /\ \A p \in Process :
          /\ process[p].mode = "live" => None \notin {process[p].signer, process[p].agentId}
          /\ process[p].mode # "live" => \A k \in LoggerKey : loggers[p][k] = <<>>
LoggersOK ==
    /\ loggers \in [Process -> [LoggerKey -> Seq(Session)]]
    /\ owed \in [Process -> [Session -> 0..MaxEntries]]

InstallerOK == installer \in [Installer -> InstallerType]

LEMMA Parts == GatewayTypeOK <=> FilesOK /\ PastOK /\ ProcessOK /\ LoggersOK /\ InstallerOK
  <1>1. (\A p \in Process : IF process[p].mode = "live" THEN None \notin {process[p].signer, process[p].agentId}
                            ELSE \A k \in LoggerKey : loggers[p][k] = <<>>)
        <=> \A p \in Process :
              /\ process[p].mode = "live" => None \notin {process[p].signer, process[p].agentId}
              /\ process[p].mode # "live" => \A k \in LoggerKey : loggers[p][k] = <<>>
      OBVIOUS
  <1> QED BY <1>1, Zenon DEF GatewayTypeOK, FilesOK, PastOK, ProcessOK, LoggersOK, ProcessType, InstallerOK, InstallerType

LEMMA NextParts == GatewayTypeOK' <=> FilesOK' /\ PastOK' /\ ProcessOK' /\ LoggersOK' /\ InstallerOK'
  BY Parts, PTL

(* What a step of a gateway keeps; the shells are for InstallersStay.      *)
GatewaysInv == FilesOK /\ PastOK /\ ProcessOK /\ LoggersOK /\ FirstRunsNamed

LEMMA TInvInit == GatewayInit => TInv
  <1> SUFFICES ASSUME GatewayInit PROVE TInv
      OBVIOUS
  <1>1. process \in [Process -> ProcessType] /\ \A p \in Process : process[p].mode = "down"
      BY DEF GatewayInit, Down, ProcessType
  <1>2. loggers \in [Process -> [LoggerKey -> Seq(Session)]]
        /\ \A p \in Process : \A k \in LoggerKey : loggers[p][k] = <<>>
    <2>1. NoLoggers \in [LoggerKey -> Seq(Session)]
        BY DEF NoLoggers
    <2> QED BY <2>1 DEF GatewayInit, NoLoggers
  <1>3. owed \in [Process -> [Session -> 0..MaxEntries]]
      BY DEF GatewayInit, NothingOwed
  <1>4. FilesOK /\ PastOK
    <2>1. 0 \in 0..MaxStarts
        OBVIOUS
    <2>2. FilesOK
        BY <2>1 DEF GatewayInit, FilesOK
    <2> QED BY <2>2 DEF GatewayInit, PastOK
  <1>5. ProcessOK /\ LoggersOK
      BY <1>1, <1>2, <1>3 DEF ProcessOK, LoggersOK
  <1>6. FirstRunsNamed
      BY <1>1 DEF FirstRunsNamed, FirstRun
  <1>7. InstallerOK /\ InstallersNamed
    <2>1. Idle \in InstallerType /\ Idle.step \notin FirstRun /\ Idle.wallet = None
        BY DEF Idle, InstallerType, FirstRun
    <2> QED BY <2>1 DEF GatewayInit, InstallerOK, InstallersNamed
  <1> QED BY <1>4, <1>5, <1>6, <1>7, Parts DEF TInv

(* What becomes of a gateway that has no loggers. *)
LEMMA BecomesOK ==
    ASSUME TInv, NEW p \in Process, NEW new \in ProcessType,
           process' = [process EXCEPT ![p] = new], process[p].mode # "live",
           UNCHANGED captures, generated \subseteq generated',
           new.mode \in FirstRun => new.signer \in generated' /\ new.agentId \in Address,
           new.mode = "live" => None \notin {new.signer, new.agentId}
    PROVE  ProcessOK' /\ LoggersOK' /\ FirstRunsNamed'
  <1>1. FilesOK /\ PastOK /\ ProcessOK /\ LoggersOK /\ FirstRunsNamed
      BY Parts DEF TInv
  <1>2. \A q \in Process : process'[q] = IF q = p THEN new ELSE process[q]
      BY <1>1 DEF ProcessOK
  <1>3. loggers' = loggers /\ owed' = owed
      BY DEF captures
  <1>4. process' \in [Process -> ProcessType]
      BY <1>1 DEF ProcessOK
  <1>5. ProcessOK'
    <2> SUFFICES ASSUME NEW q \in Process
                 PROVE  /\ process'[q].mode = "live" => None \notin {process'[q].signer, process'[q].agentId}
                        /\ process'[q].mode # "live" => \A k \in LoggerKey : loggers[q][k] = <<>>
        BY <1>3, <1>4 DEF ProcessOK
    <2>1. CASE q = p
        BY <1>1, <1>2, <2>1 DEF ProcessOK
    <2>2. CASE q # p
        BY <1>1, <1>2, <2>2 DEF ProcessOK
    <2> QED BY <2>1, <2>2
  <1>6. LoggersOK'
      BY <1>1, <1>3 DEF LoggersOK
  <1>7. FirstRunsNamed'
    <2> SUFFICES ASSUME NEW q \in Process, process'[q].mode \in FirstRun
                 PROVE  process'[q].signer \in generated' /\ process'[q].agentId \in Address
        BY DEF FirstRunsNamed
    <2>1. CASE q = p
        BY <1>2, <2>1
    <2>2. CASE q # p
        BY <1>1, <1>2, <2>2 DEF FirstRunsNamed
    <2> QED BY <2>1, <2>2
  <1> QED BY <1>5, <1>6, <1>7

(* A gateway that goes without hooks. *)
LEMMA DegradedOK ==
    ASSUME TInv, NEW p \in Process, Becomes(p, "degraded", None, FALSE),
           process[p].mode # "live", UNCHANGED captures, generated \subseteq generated'
    PROVE  ProcessOK' /\ LoggersOK' /\ FirstRunsNamed'
  <1> DEFINE new == [mode |-> "degraded", signer |-> None, bound |-> FALSE, agentId |-> None]
  <1>1. process' = [process EXCEPT ![p] = new]
      BY DEF Becomes
  <1>2. new \in ProcessType /\ new.mode \notin FirstRun /\ new.mode # "live"
      BY DEF ProcessType, FirstRun
  <1> HIDE DEF new
  <1> QED BY <1>1, <1>2, BecomesOK

(* A gateway that has its wallet, or is about to create it. *)
LEMMA SignerOK ==
    ASSUME TInv, NEW p \in Process, NEW mode \in {"live"} \cup FirstRun, NEW w \in Wallet \cup {EnvWallet},
           Becomes(p, mode, w, AutoBound), resolveConfig = "ok",
           process[p].mode # "live", UNCHANGED captures, generated \subseteq generated',
           mode \in FirstRun => w \in generated'
    PROVE  ProcessOK' /\ LoggersOK' /\ FirstRunsNamed'
  <1> DEFINE new == [mode |-> mode, signer |-> w, bound |-> (setting = None),
                     agentId |-> IF setting = None THEN w ELSE setting]
  <1>1. w \in Address /\ None \notin Address /\ mode # "degraded"
      BY DEF Address, FirstRun
  <1>2. setting = None \/ setting \in Address
      BY Parts DEF TInv, FilesOK, resolveConfig
  <1>3. process' = [process EXCEPT ![p] = new]
      BY <1>1 DEF Becomes, AutoBound
  <1>4. new.mode = mode /\ new.signer = w /\ new.agentId \in Address
      BY <1>1, <1>2
  <1>5. new \in ProcessType
      BY <1>1, <1>2 DEF ProcessType
  <1> HIDE DEF new
  <1> QED BY <1>1, <1>3, <1>4, <1>5, BecomesOK

LEMMA RegisterTypes ==
    ASSUME TInv, NEW p \in Process, register(p)
    PROVE  GatewaysInv'
  <1>1. FilesOK /\ PastOK /\ ProcessOK /\ LoggersOK /\ FirstRunsNamed
      BY Parts DEF TInv
  <1>2. /\ process[p].mode = "down" /\ starts < MaxStarts /\ starts' = starts + 1
        /\ UNCHANGED <<hostFiles, captures, announced, raced, aside>>
      BY DEF register
  <1>3. process[p].mode # "live" /\ UNCHANGED captures /\ announced' = announced
        /\ raced' = raced /\ aside' = aside
      BY <1>2
  <1>4. FilesOK'
      BY <1>1, <1>2 DEF FilesOK, hostFiles
  <1>5. CASE Becomes(p, "degraded", None, FALSE) /\ UNCHANGED generated
    <2>1. ProcessOK' /\ LoggersOK' /\ FirstRunsNamed'
        BY <1>3, <1>5, DegradedOK
    <2> QED BY <1>1, <1>3, <1>4, <1>5, <2>1 DEF GatewaysInv, PastOK
  <1>6. ASSUME NEW w \in Wallet \cup {EnvWallet}, resolveConfig = "ok",
               Becomes(p, "live", w, AutoBound), UNCHANGED generated
        PROVE  GatewaysInv'
    <2>1. ProcessOK' /\ LoggersOK' /\ FirstRunsNamed'
      <3>1. "live" \notin FirstRun /\ generated \subseteq generated' /\ "live" \in {"live"} \cup FirstRun
          BY <1>6 DEF FirstRun
      <3> QED BY <1>3, <1>6, <3>1, SignerOK
    <2> QED BY <1>1, <1>3, <1>4, <1>6, <2>1 DEF GatewaysInv, PastOK
  <1>7. ASSUME resolveConfig = "ok", Generate(p)
        PROVE  GatewaysInv'
    <2>1. Fresh \in Wallet
      <3>1. \E w : w \in Wallet \ generated
          BY <1>1, <1>7 DEF Generate, PastOK
      <3> QED BY <3>1 DEF Fresh
    <2>2. generated' = generated \cup {Fresh} /\ Becomes(p, "creating", Fresh, AutoBound)
        BY <1>7 DEF Generate
    <2>3. ProcessOK' /\ LoggersOK' /\ FirstRunsNamed'
      <3>1. "creating" \in {"live"} \cup FirstRun /\ Fresh \in Wallet \cup {EnvWallet}
            /\ generated \subseteq generated' /\ Fresh \in generated'
          BY <2>1, <2>2 DEF FirstRun
      <3> QED BY <1>3, <1>7, <2>2, <3>1, SignerOK
    <2>4. PastOK'
        BY <1>1, <1>3, <2>1, <2>2 DEF PastOK
    <2> QED BY <1>4, <2>3, <2>4 DEF GatewaysInv
  <1>8. ASSUME resolveConfig = "ok", resolveWallet(p) PROVE GatewaysInv'
    <2>1. CASE walletFile = None
        BY <1>7, <1>8, <2>1 DEF resolveWallet
    <2>2. CASE walletFile # None /\ (walletFile = "torn" \/ damaged)
        BY <1>5, <1>8, <2>2 DEF resolveWallet
    <2>3. CASE walletFile # None /\ ~(walletFile = "torn" \/ damaged)
      <3>1. walletFile \in Wallet \cup {EnvWallet}
          BY <1>1, <2>3 DEF FilesOK
      <3>2. Becomes(p, "live", walletFile, AutoBound) /\ UNCHANGED generated
          BY <1>8, <2>3 DEF resolveWallet
      <3> QED BY <1>6, <1>8, <3>1, <3>2
    <2> QED BY <2>1, <2>2, <2>3
  <1> QED BY <1>5, <1>6, <1>8 DEF register

LEMMA TruncateTypes ==
    ASSUME TInv, NEW p \in Process, Truncate(p)
    PROVE  GatewaysInv'
  <1> DEFINE new == [process[p] EXCEPT !.mode = "writing"]
  <1>1. FilesOK /\ PastOK /\ ProcessOK /\ LoggersOK /\ FirstRunsNamed
      BY Parts DEF TInv
  <1>2. process[p] \in ProcessType /\ process[p].mode = "creating"
      BY <1>1 DEF ProcessOK, Truncate
  <1>3. new \in ProcessType /\ new.mode = "writing" /\ new.signer = process[p].signer
        /\ new.agentId = process[p].agentId
      BY <1>2 DEF ProcessType, FirstRun
  <1>4. process' = [process EXCEPT ![p] = new]
      BY DEF Truncate
  <1>5. UNCHANGED captures /\ UNCHANGED walletPast
      BY DEF Truncate
  <1>6. process[p].signer \in generated /\ process[p].agentId \in Address
      BY <1>1, <1>2 DEF FirstRunsNamed, FirstRun
  <1> HIDE DEF new
  <1>7. ProcessOK' /\ LoggersOK' /\ FirstRunsNamed'
      BY <1>2, <1>3, <1>4, <1>5, <1>6, BecomesOK DEF walletPast
  <1>8. FilesOK' /\ PastOK'
      BY <1>1, <1>5 DEF FilesOK, PastOK, walletPast, Truncate
  <1> QED BY <1>7, <1>8 DEF GatewaysInv

(* What is being made was generated.                                       *)
LEMMA MadeOK == TInv => \A x : MadeBesides(x) \subseteq generated
BY Parts DEF TInv, MadeBesides, FirstRunsNamed, InstallersNamed

LEMMA WriteTypes ==
    ASSUME TInv, NEW p \in Process, Write(p)
    PROVE  GatewaysInv'
  <1>1. FilesOK /\ PastOK /\ ProcessOK /\ LoggersOK /\ FirstRunsNamed
      BY Parts DEF TInv
  <1>2. process[p] \in ProcessType /\ process[p].mode = "writing"
      BY <1>1 DEF ProcessOK, Write
  <1>3. process[p].signer \in generated /\ process[p].agentId \in Address
      BY <1>1, <1>2 DEF FirstRunsNamed, FirstRun
  <1>4. UNCHANGED captures /\ generated' = generated /\ process[p].mode # "live"
      BY <1>2 DEF Write
  <1>5. ProcessOK' /\ LoggersOK' /\ FirstRunsNamed'
    <2>1. CASE Becomes(p, "degraded", None, FALSE)
        BY <1>4, <2>1, DegradedOK
    <2>2. CASE process' = [process EXCEPT ![p].mode = "live"]
      <3> DEFINE new == [process[p] EXCEPT !.mode = "live"]
      <3>1. new \in ProcessType /\ new.mode = "live" /\ new.signer = process[p].signer
            /\ new.agentId = process[p].agentId
          BY <1>2 DEF ProcessType
      <3>2. process' = [process EXCEPT ![p] = new]
          BY <2>2
      <3>3. new.mode \notin FirstRun
          BY <3>1 DEF FirstRun
      <3>4. None \notin {new.signer, new.agentId}
          BY <1>1, <1>3, <3>1 DEF PastOK, Address
      <3> HIDE DEF new
      <3> QED BY <1>4, <3>1, <3>2, <3>3, <3>4, BecomesOK
    <2> QED BY <2>1, <2>2 DEF Write
  <1>6. FilesOK'
      BY <1>1, <1>3 DEF FilesOK, PastOK, Write
  <1>7. Overlapping(process[p].signer, p) \subseteq Wallet
      BY <1>1, <1>3, MadeOK DEF Overlapping, PastOK
  <1>8. PastOK'
      BY <1>1, <1>3, <1>4, <1>7 DEF PastOK, Write
  <1> QED BY <1>5, <1>6, <1>8 DEF GatewaysInv

LEMMA WriteThrowsTypes ==
    ASSUME TInv, NEW p \in Process, WriteThrows(p)
    PROVE  GatewaysInv'
  <1>1. FilesOK /\ PastOK
      BY Parts DEF TInv
  <1>2. process[p].mode # "live" /\ UNCHANGED captures /\ generated \subseteq generated'
        /\ Becomes(p, "degraded", None, FALSE)
      BY DEF WriteThrows, FirstRun, walletPast
  <1>3. ProcessOK' /\ LoggersOK' /\ FirstRunsNamed'
      BY <1>2, DegradedOK
  <1>4. FilesOK' /\ PastOK'
      BY <1>1 DEF FilesOK, PastOK, WriteThrows, hostFiles, walletPast
  <1> QED BY <1>3, <1>4 DEF GatewaysInv

LEMMA StopTypes ==
    ASSUME TInv, NEW p \in Process, Stop(p)
    PROVE  GatewaysInv'
  <1>1. FilesOK /\ PastOK /\ ProcessOK /\ LoggersOK /\ FirstRunsNamed
      BY Parts DEF TInv
  <1>2. Down \in ProcessType /\ Down.mode = "down"
      BY DEF Down, ProcessType
  <1>3. NoLoggers \in [LoggerKey -> Seq(Session)] /\ \A k \in LoggerKey : NoLoggers[k] = <<>>
      BY DEF NoLoggers
  <1>4. NothingOwed \in [Session -> 0..MaxEntries]
      BY DEF NothingOwed
  <1>5. process' \in [Process -> ProcessType]
        /\ \A q \in Process : process'[q] = IF q = p THEN Down ELSE process[q]
      BY <1>1, <1>2 DEF ProcessOK, Stop
  <1>6. loggers' \in [Process -> [LoggerKey -> Seq(Session)]]
        /\ \A q \in Process : loggers'[q] = IF q = p THEN NoLoggers ELSE loggers[q]
      BY <1>1, <1>3 DEF LoggersOK, Stop
  <1>7. owed' \in [Process -> [Session -> 0..MaxEntries]]
      BY <1>1, <1>4 DEF LoggersOK, Stop
  <1>8. ProcessOK'
    <2> SUFFICES ASSUME NEW q \in Process
                 PROVE  /\ process'[q].mode = "live" => None \notin {process'[q].signer, process'[q].agentId}
                        /\ process'[q].mode # "live" => \A k \in LoggerKey : loggers'[q][k] = <<>>
        BY <1>5 DEF ProcessOK
    <2>1. CASE q = p
        BY <1>2, <1>3, <1>5, <1>6, <2>1
    <2>2. CASE q # p
      <3>1. process'[q] = process[q] /\ loggers'[q] = loggers[q]
          BY <1>5, <1>6, <2>2
      <3> QED BY <1>1, <3>1 DEF ProcessOK
    <2> QED BY <2>1, <2>2
  <1>9. LoggersOK'
      BY <1>6, <1>7 DEF LoggersOK
  <1>10. FirstRunsNamed'
      BY <1>1, <1>2, <1>5 DEF FirstRunsNamed, FirstRun, Stop, walletPast
  <1>11. FilesOK' /\ PastOK'
      BY <1>1 DEF FilesOK, PastOK, Stop, hostFiles, walletPast
  <1> QED BY <1>8, <1>9, <1>10, <1>11 DEF GatewaysInv

(* A hook addresses the logger of its own session whatever else is in its  *)
(* context.                                                                *)
LEMMA OwnLogger ==
    ASSUME NEW s \in Session, NEW ctx \in Contexts(s)
    PROVE  pickSessionKey(ctx) = s /\ s \in LoggerKey
  <1>1. ctx.sessionId = s
      BY DEF Contexts
  <1> QED BY <1>1 DEF pickSessionKey, LoggerKey

LEMMA CaptureTypes ==
    ASSUME TInv, NEW p \in Process, NEW s \in Session, NEW ctx \in Contexts(s), CaptureHook(p, s, ctx)
    PROVE  GatewaysInv'
  <1>1. FilesOK /\ PastOK /\ ProcessOK /\ LoggersOK /\ FirstRunsNamed
      BY Parts DEF TInv
  <1>2. pickSessionKey(ctx) = s /\ s \in LoggerKey
      BY OwnLogger
  <1>3. /\ loggers' = [loggers EXCEPT ![p] = [loggers[p] EXCEPT ![s] = Append(loggers[p][s], s)]]
        /\ owed' = [owed EXCEPT ![p] = [owed[p] EXCEPT ![s] = owed[p][s] + 1]]
        /\ process[p].mode = "live" /\ owed[p][s] < MaxEntries
      BY <1>2 DEF CaptureHook
  <1>4. loggers[p] \in [LoggerKey -> Seq(Session)] /\ owed[p] \in [Session -> 0..MaxEntries]
      BY <1>1 DEF LoggersOK
  <1>5. owed[p][s] + 1 \in 0..MaxEntries /\ Append(loggers[p][s], s) \in Seq(Session)
    <2>1. loggers[p][s] \in Seq(Session) /\ owed[p][s] \in 0..MaxEntries
        BY <1>2, <1>4
    <2> QED BY <1>3, <2>1
  <1>6. [loggers[p] EXCEPT ![s] = Append(loggers[p][s], s)] \in [LoggerKey -> Seq(Session)]
        /\ [owed[p] EXCEPT ![s] = owed[p][s] + 1] \in [Session -> 0..MaxEntries]
      BY <1>4, <1>5
  <1>7. LoggersOK'
      BY <1>1, <1>3, <1>6 DEF LoggersOK
  <1>8. \A q \in Process : process[q].mode # "live" => loggers'[q] = loggers[q]
      BY <1>1, <1>3 DEF LoggersOK
  <1>9. ProcessOK'
      BY <1>1, <1>8 DEF ProcessOK, CaptureHook
  <1>10. FilesOK' /\ PastOK' /\ FirstRunsNamed'
      BY <1>1 DEF FilesOK, PastOK, FirstRunsNamed, CaptureHook, hostFiles, walletPast
  <1> QED BY <1>7, <1>9, <1>10 DEF GatewaysInv

LEMMA EndTypes ==
    ASSUME TInv, NEW p \in Process, NEW s \in Session, NEW ctx \in Contexts(s), EndHook(p, s, ctx)
    PROVE  GatewaysInv'
  <1>1. FilesOK /\ PastOK /\ ProcessOK /\ LoggersOK /\ FirstRunsNamed
      BY Parts DEF TInv
  <1>2. pickSessionKey(ctx) = s /\ s \in LoggerKey
      BY OwnLogger
  <1>3. /\ loggers' = [loggers EXCEPT ![p] = [loggers[p] EXCEPT ![s] = <<>>]]
        /\ owed' = [owed EXCEPT ![p] = [owed[p] EXCEPT ![s] = 0]]
        /\ process[p].mode = "live"
      BY <1>2 DEF EndHook
  <1>4. loggers[p] \in [LoggerKey -> Seq(Session)] /\ owed[p] \in [Session -> 0..MaxEntries]
      BY <1>1 DEF LoggersOK
  <1>5. 0 \in 0..MaxEntries /\ <<>> \in Seq(Session)
      OBVIOUS
  <1>6. [loggers[p] EXCEPT ![s] = <<>>] \in [LoggerKey -> Seq(Session)]
        /\ [owed[p] EXCEPT ![s] = 0] \in [Session -> 0..MaxEntries]
      BY <1>4, <1>5
  <1>7. LoggersOK'
      BY <1>1, <1>3, <1>6 DEF LoggersOK
  <1>8. \A q \in Process : process[q].mode # "live" => loggers'[q] = loggers[q]
      BY <1>1, <1>3 DEF LoggersOK
  <1>9. ProcessOK'
      BY <1>1, <1>8 DEF ProcessOK, EndHook
  <1>10. FilesOK' /\ PastOK' /\ FirstRunsNamed'
      BY <1>1 DEF FilesOK, PastOK, FirstRunsNamed, EndHook, hostFiles, walletPast
  <1> QED BY <1>7, <1>9, <1>10 DEF GatewaysInv

LEMMA OutsideTypes ==
    ASSUME TInv, Outside
    PROVE  GatewaysInv'
  <1>1. FilesOK /\ PastOK /\ ProcessOK /\ LoggersOK /\ FirstRunsNamed
      BY Parts DEF TInv
  <1>2. UNCHANGED <<process, captures, generated>>
      BY DEF Outside, Configure, Damage, MoveAside, walletPast
  <1>3. ProcessOK' /\ LoggersOK' /\ FirstRunsNamed'
      BY <1>1, <1>2 DEF ProcessOK, LoggersOK, FirstRunsNamed, captures
  <1>4. CASE Configure \/ Damage
    <2>1. FilesOK'
        BY <1>1, <1>4 DEF FilesOK, Configure, Damage, Address
    <2>2. PastOK'
        BY <1>1, <1>4 DEF PastOK, Configure, Damage, walletPast
    <2> QED BY <1>3, <2>1, <2>2 DEF GatewaysInv
  <1>5. CASE MoveAside
    <2>1. FilesOK' /\ PastOK'
        BY <1>1, <1>5 DEF FilesOK, PastOK, MoveAside
    <2> QED BY <1>3, <2>1 DEF GatewaysInv
  <1> QED BY <1>4, <1>5 DEF Outside

(* A step of a shell writes no more than a wallet of its own, the setting  *)
(* it has computed, and its history.                                       *)
LEMMA InstallTypes ==
    ASSUME TInv, NEW i \in Installer, Install(i)
    PROVE  TInv'
  <1>1. FilesOK /\ PastOK /\ ProcessOK /\ LoggersOK /\ FirstRunsNamed /\ InstallerOK /\ InstallersNamed
      BY Parts DEF TInv
  <1>2. UNCHANGED <<process, captures>>
      BY DEF Install, InstallChecks, InstallTruncates, InstallWrites, InstallReads, InstallSeeds,
             InstallPatches, InstallAnnounces, InstallAborts
  <1>3. generated \subseteq generated' /\ generated' \subseteq Wallet
    <2>1. generated # Wallet => Fresh \in Wallet
      <3>1. ASSUME generated # Wallet PROVE Fresh \in Wallet
        <4>1. \E w : w \in Wallet \ generated
            BY <1>1, <3>1 DEF PastOK
        <4> QED BY <4>1 DEF Fresh
      <3> QED BY <3>1
    <2> QED BY <1>1, <2>1 DEF PastOK, walletPast, Install, InstallChecks, InstallTruncates, InstallWrites,
               InstallReads, InstallSeeds, InstallPatches, InstallAnnounces, InstallAborts
  <1>4. ProcessOK' /\ LoggersOK' /\ FirstRunsNamed'
      BY <1>1, <1>2, <1>3 DEF ProcessOK, LoggersOK, FirstRunsNamed, captures
  <1>5. installer[i] \in InstallerType /\ installer[i].wallet \in generated \cup {None}
        /\ (installer[i].step \in FirstRun => installer[i].wallet # None)
      BY <1>1 DEF InstallerOK, InstallersNamed
  <1>6. PICK step \in {"idle", "reading", "seeding", "patching", "linking"} \cup FirstRun,
             w \in generated' \cup {None}, id \in Address \cup {"invalid", None} :
          Reaches(i, step, w, id) /\ (step \in FirstRun => w # None)
    <2>1. CASE InstallChecks(i)
      <3>1. CASE walletFile = None /\ Reaches(i, "creating", Fresh, None) /\ generated' = generated \cup {Fresh}
        <4>1. Fresh # None /\ "creating" \in FirstRun
            BY <1>3, <3>1 DEF FirstRun
        <4> QED BY <3>1, <4>1
      <3>2. CASE Reaches(i, "reading", None, None)
          BY <3>2 DEF FirstRun
      <3> QED BY <2>1, <3>1, <3>2 DEF InstallChecks
    <2>2. CASE InstallTruncates(i)
        BY <1>3, <1>5, <2>2 DEF InstallTruncates, FirstRun
    <2>3. CASE InstallWrites(i) \/ InstallAnnounces(i) \/ InstallAborts(i)
        BY <2>3 DEF InstallWrites, InstallAnnounces, InstallAborts, FirstRun
    <2>4. CASE InstallReads(i)
        BY <1>1, <1>3, <2>4 DEF InstallReads, InstallersNamed, FirstRun
    <2>5. CASE InstallSeeds(i)
      <3>1. installer[i].wallet \in Address \cup {None} /\ setting \in Address \cup {"invalid", None}
          BY <1>1, <1>5 DEF InstallerType, FilesOK, Address
      <3> QED BY <1>3, <1>5, <2>5, <3>1 DEF InstallSeeds, FirstRun
    <2>6. CASE InstallPatches(i)
        BY <1>3, <1>5, <2>6 DEF InstallPatches, FirstRun
    <2> QED BY <2>1, <2>2, <2>3, <2>4, <2>5, <2>6 DEF Install
  <1>7. InstallerOK'
    <2>1. w \in Wallet \cup {None}
        BY <1>3
    <2> DEFINE new == [step |-> step, wallet |-> w, agentId |-> id]
    <2>2. new \in InstallerType
        BY <2>1 DEF InstallerType
    <2>3. installer' = [installer EXCEPT ![i] = new]
        BY <1>6 DEF Reaches
    <2> HIDE DEF new
    <2> QED BY <1>1, <2>2, <2>3 DEF InstallerOK
  <1>8. walletFile' \in {walletFile, "torn"} \cup generated
      BY <1>5 DEF Install, InstallChecks, InstallTruncates, InstallWrites, InstallReads, InstallSeeds,
             InstallPatches, InstallAnnounces, InstallAborts, hostFiles, FirstRun
  <1>9. InstallersNamed'
    <2>1. \A j \in Installer : installer'[j] =
              IF j = i THEN [step |-> step, wallet |-> w, agentId |-> id] ELSE installer[j]
        BY <1>1, <1>6 DEF InstallerOK, Reaches
    <2>2. "torn" \notin Wallet
        OBVIOUS
    <2>3. walletFile' \in Wallet => walletFile' \in generated'
        BY <1>1, <1>3, <1>8, <2>2 DEF InstallersNamed
    <2>4. ASSUME NEW j \in Installer
          PROVE  installer'[j].wallet \in generated' \cup {None}
                 /\ (installer'[j].step \in FirstRun => installer'[j].wallet # None)
      <3>1. CASE j = i
          BY <1>6, <2>1, <3>1
      <3>2. CASE j # i
          BY <1>1, <1>3, <2>1, <3>2 DEF InstallersNamed
      <3> QED BY <3>1, <3>2
    <2> QED BY <2>3, <2>4 DEF InstallersNamed
  <1>10. FilesOK'
    <2>1. walletFile' \in Wallet \cup {"torn", None}
        BY <1>1, <1>8 DEF FilesOK, PastOK
    <2>2. setting' \in Address \cup {"invalid", None}
        BY <1>1, <1>5 DEF FilesOK, InstallerType, Install, InstallChecks, InstallTruncates, InstallWrites,
               InstallReads, InstallSeeds, InstallPatches, InstallAnnounces, InstallAborts, hostFiles
    <2>3. damaged' \in BOOLEAN
        BY <1>1 DEF FilesOK, Install, InstallChecks, InstallTruncates, InstallWrites,
               InstallReads, InstallSeeds, InstallPatches, InstallAnnounces, InstallAborts, hostFiles
    <2>4. starts' \in 0..MaxStarts
        BY <1>1 DEF FilesOK, Install, InstallChecks, InstallTruncates, InstallWrites,
               InstallReads, InstallSeeds, InstallPatches, InstallAnnounces, InstallAborts
    <2> QED BY <2>1, <2>2, <2>3, <2>4 DEF FilesOK
  <1>11. PastOK'
    <2>1. CASE InstallWrites(i)
      <3>1. Overlapping(installer[i].wallet, i) \subseteq Wallet
          BY <1>1, <1>5, <2>1, MadeOK DEF InstallWrites, FirstRun, Overlapping, PastOK
      <3> QED BY <1>1, <2>1, <3>1 DEF PastOK, InstallWrites
    <2>2. CASE InstallAnnounces(i)
        BY <1>1, <1>5, <2>2 DEF PastOK, InstallAnnounces
    <2>3. CASE UNCHANGED <<announced, raced, aside>>
        BY <1>1, <1>3, <2>3 DEF PastOK
    <2> QED BY <2>1, <2>2, <2>3 DEF Install, InstallChecks, InstallTruncates, InstallReads, InstallSeeds,
               InstallPatches, InstallAborts, walletPast
  <1> QED BY <1>4, <1>7, <1>9, <1>10, <1>11, NextParts DEF TInv

(* Nothing else touches a shell, or puts another wallet in the file.       *)
LEMMA InstallersStay ==
    ASSUME TInv, UNCHANGED installer, generated \subseteq generated',
           walletFile' \in {walletFile, "torn", None} \cup generated'
    PROVE  InstallerOK' /\ InstallersNamed'
  <1>1. InstallerOK /\ InstallersNamed
      BY Parts DEF TInv
  <1>2. None \notin Wallet /\ "torn" \notin Wallet
      OBVIOUS
  <1> QED BY <1>1, <1>2 DEF InstallerOK, InstallersNamed

LEMMA RegisterShells ==
    ASSUME TInv, Register \/ Stops \/ Hooks \/ Outside
    PROVE  InstallerOK' /\ InstallersNamed'
  <1>1. UNCHANGED installer
      BY DEF Register, register, Truncate, Write, WriteThrows, Stops, Stop, Hooks, CaptureHook, EndHook,
             Outside, Configure, Damage, MoveAside
  <1>2. generated \subseteq generated'
      BY DEF Register, register, resolveWallet, Generate, Truncate, Write, WriteThrows, Stops, Stop, Hooks,
             CaptureHook, EndHook, Outside, Configure, Damage, MoveAside, walletPast
  <1>3. \A p \in Process : process[p].mode \in FirstRun => process[p].signer \in generated
      BY DEF TInv, FirstRunsNamed
  <1>4. walletFile' \in {walletFile, "torn", None} \cup generated'
    <2>1. ASSUME NEW p \in Process, Write(p) PROVE walletFile' \in generated'
        BY <1>2, <1>3, <2>1 DEF Write, FirstRun
    <2> QED BY <2>1 DEF Register, register, Truncate, WriteThrows, Stops, Stop, Hooks,
               CaptureHook, EndHook, Outside, Configure, Damage, MoveAside, hostFiles
  <1> QED BY <1>1, <1>2, <1>4, InstallersStay

LEMMA TInvNext == TInv /\ [GatewayNext]_gatewayVars => TInv'
  <1> SUFFICES ASSUME TInv, [GatewayNext]_gatewayVars PROVE TInv'
      OBVIOUS
  <1>1. CASE Register
      BY <1>1, RegisterTypes, TruncateTypes, WriteTypes, WriteThrowsTypes, RegisterShells, NextParts
         DEF Register, GatewaysInv, TInv
  <1>2. CASE Stops
      BY <1>2, StopTypes, RegisterShells, NextParts DEF Stops, GatewaysInv, TInv
  <1>3. CASE Hooks
      BY <1>3, CaptureTypes, EndTypes, RegisterShells, NextParts DEF Hooks, GatewaysInv, TInv
  <1>4. CASE Outside
      BY <1>4, OutsideTypes, RegisterShells, NextParts DEF GatewaysInv, TInv
  <1>5. CASE Installs
      BY <1>5, InstallTypes DEF Installs
  <1>6. CASE UNCHANGED gatewayVars
      BY <1>6 DEF TInv, GatewayTypeOK, FirstRunsNamed, InstallersNamed, gatewayVars, hostFiles, captures, walletPast
  <1> QED BY <1>1, <1>2, <1>3, <1>4, <1>5, <1>6 DEF GatewayNext

-----------------------------------------------------------------------------
(***************************************************************************)
(* A session finds its entries.                                            *)
(***************************************************************************)

LEMMA SessionWholeInit == GatewayInit => SessionWhole
  <1> SUFFICES ASSUME GatewayInit, NEW p \in Process, NEW s \in Session, NEW ctx \in Contexts(s)
               PROVE  /\ Len(loggers[p][pickSessionKey(ctx)]) = owed[p][s]
                      /\ \A i \in DOMAIN loggers[p][pickSessionKey(ctx)] : loggers[p][pickSessionKey(ctx)][i] = s
      BY DEF SessionWhole
  <1>1. pickSessionKey(ctx) = s /\ s \in LoggerKey
      BY OwnLogger
  <1> QED BY <1>1 DEF GatewayInit, NoLoggers, NothingOwed

LEMMA SessionWholeNext == TInv /\ SessionWhole /\ [GatewayNext]_gatewayVars => SessionWhole'
  <1> SUFFICES ASSUME TInv, SessionWhole, [GatewayNext]_gatewayVars,
                      NEW p \in Process, NEW s \in Session, NEW ctx \in Contexts(s)
               PROVE  /\ Len(loggers'[p][s]) = owed'[p][s]
                      /\ \A i \in DOMAIN loggers'[p][s] : loggers'[p][s][i] = s
      BY OwnLogger DEF SessionWhole, pickSessionKey, Contexts
  <1>1. LoggersOK /\ s \in LoggerKey
      BY Parts DEF TInv, LoggerKey
  <1>2. /\ Len(loggers[p][s]) = owed[p][s]
        /\ \A i \in DOMAIN loggers[p][s] : loggers[p][s][i] = s
      BY OwnLogger DEF SessionWhole
  <1>3. loggers[p][s] \in Seq(Session)
      BY <1>1 DEF LoggersOK
  <1>4. CASE UNCHANGED captures
      BY <1>2, <1>4 DEF captures
  <1>5. ASSUME NEW q \in Process, Stop(q)
        PROVE  /\ Len(loggers'[p][s]) = owed'[p][s]
               /\ \A i \in DOMAIN loggers'[p][s] : loggers'[p][s][i] = s
    <2>1. CASE q = p
        BY <1>1, <1>5, <2>1 DEF LoggersOK, Stop, NoLoggers, NothingOwed
    <2>2. CASE q # p
        BY <1>1, <1>2, <1>5, <2>2 DEF LoggersOK, Stop
    <2> QED BY <2>1, <2>2
  <1>6. ASSUME NEW q \in Process, NEW t \in Session, NEW other \in Contexts(t),
               CaptureHook(q, t, other) \/ EndHook(q, t, other), ~(q = p /\ t = s)
        PROVE  loggers'[p][s] = loggers[p][s] /\ owed'[p][s] = owed[p][s]
    <2>1. pickSessionKey(other) = t
        BY OwnLogger
    <2> QED BY <1>1, <1>6, <2>1 DEF LoggersOK, CaptureHook, EndHook
  <1>7. ASSUME NEW other \in Contexts(s), CaptureHook(p, s, other)
        PROVE  /\ Len(loggers'[p][s]) = owed'[p][s]
               /\ \A i \in DOMAIN loggers'[p][s] : loggers'[p][s][i] = s
    <2>1. pickSessionKey(other) = s
        BY OwnLogger
    <2>2. loggers'[p][s] = Append(loggers[p][s], s) /\ owed'[p][s] = owed[p][s] + 1
        BY <1>1, <1>7, <2>1 DEF LoggersOK, CaptureHook
    <2> QED BY <1>2, <1>3, <2>2
  <1>8. ASSUME NEW other \in Contexts(s), EndHook(p, s, other)
        PROVE  /\ Len(loggers'[p][s]) = owed'[p][s]
               /\ \A i \in DOMAIN loggers'[p][s] : loggers'[p][s][i] = s
    <2>1. pickSessionKey(other) = s
        BY OwnLogger
    <2>2. loggers'[p][s] = <<>> /\ owed'[p][s] = 0
        BY <1>1, <1>8, <2>1 DEF LoggersOK, EndHook
    <2> QED BY <2>2
  <1>9. CASE Register
      BY <1>4, <1>9 DEF Register, register, Truncate, Write, WriteThrows
  <1>10. CASE Hooks
    <2>1. PICK q \in Process, t \in Session : \E other \in Contexts(t) :
              CaptureHook(q, t, other) \/ EndHook(q, t, other)
        BY <1>10 DEF Hooks
    <2>2. CASE q = p /\ t = s
        BY <1>7, <1>8, <2>1, <2>2
    <2>3. CASE ~(q = p /\ t = s)
        BY <1>2, <1>6, <2>1, <2>3
    <2> QED BY <2>2, <2>3
  <1>11. CASE Outside
      BY <1>4, <1>11 DEF Outside, Configure, Damage, MoveAside
  <1>12. CASE Installs
      BY <1>4, <1>12 DEF Installs, Install, InstallChecks, InstallTruncates, InstallWrites, InstallReads,
             InstallSeeds, InstallPatches, InstallAnnounces, InstallAborts
  <1>13. CASE UNCHANGED gatewayVars
      BY <1>4, <1>13 DEF gatewayVars
  <1> QED BY <1>5, <1>9, <1>10, <1>11, <1>12, <1>13 DEF GatewayNext, Stops

-----------------------------------------------------------------------------
(***************************************************************************)
(* The funded wallet stays.  A first start or an install makes a wallet    *)
(* because there was no wallet.json.  While one does, whatever wallet is   *)
(* in the file was put there by another that overlapped it; so a wallet    *)
(* that was ever in the file is still there, or was moved aside, or raced. *)
(***************************************************************************)

UnderWay ==
    \/ \E p \in Process : process[p].mode \in FirstRun
    \/ \E i \in Installer : installer[i].step \in FirstRun

FileRaced == UnderWay /\ walletFile \in Wallet => walletFile \in raced

Kept(w) == w = walletFile \/ w \in aside \cup raced

FilesInv == TInv /\ FileRaced

(* The gateways and shells that are making a wallet after a step.          *)
LEMMA BecomesUnderWay ==
    ASSUME TInv, NEW p \in Process, NEW mode, NEW w, NEW bound, Becomes(p, mode, w, bound),
           mode \notin FirstRun, UNCHANGED installer
    PROVE  UnderWay' => UnderWay
BY Parts DEF TInv, ProcessOK, Becomes, UnderWay

LEMMA ReachesUnderWay ==
    ASSUME TInv, NEW i \in Installer, NEW step, NEW w, NEW id, Reaches(i, step, w, id),
           step \notin FirstRun, UNCHANGED process
    PROVE  UnderWay' => UnderWay
BY Parts DEF TInv, InstallerOK, Reaches, UnderWay

(* Nobody begins to make a wallet, or there is none in the file.           *)
LEMMA QuietStep ==
    ASSUME FilesInv, UNCHANGED <<walletFile, raced, aside>>, (UnderWay' => UnderWay) \/ walletFile \notin Wallet
    PROVE  FileRaced' /\ \A w : Kept(w) => Kept(w)'
BY DEF FilesInv, FileRaced, Kept

LEMMA MakerStep ==
    ASSUME FilesInv, UnderWay, UNCHANGED aside, raced \subseteq raced',
           walletFile' \notin Wallet \/ (UnderWay' => walletFile' \in raced')
    PROVE  FileRaced' /\ \A w \in Wallet : Kept(w) => Kept(w)'
BY DEF FilesInv, FileRaced, Kept

LEMMA FilesNext ==
    ASSUME FilesInv, [GatewayNext]_gatewayVars
    PROVE  FileRaced' /\ \A w \in Wallet : Kept(w) => Kept(w)'
  <1> DEFINE Goal == FileRaced' /\ \A w \in Wallet : Kept(w) => Kept(w)'
  <1> SUFFICES Goal
      BY DEF Goal
  <1> HIDE DEF Goal
  <1>1. TInv /\ ProcessOK /\ InstallerOK /\ "torn" \notin Wallet /\ None \notin Wallet
      BY Parts DEF FilesInv, TInv
  <1>2. "live" \notin FirstRun /\ "degraded" \notin FirstRun /\ "down" \notin FirstRun
        /\ "creating" \in FirstRun /\ "writing" \in FirstRun
        /\ {"idle", "reading", "seeding", "patching", "linking"} \cap FirstRun = {}
      BY DEF FirstRun
  <1>3. ASSUME UNCHANGED <<walletFile, raced, aside>>, (UnderWay' => UnderWay) \/ walletFile \notin Wallet
        PROVE  Goal
      BY <1>3, QuietStep DEF Goal
  <1>4. ASSUME NEW p \in Process, register(p) PROVE Goal
    <2>1. UNCHANGED <<walletFile, raced, aside, installer>>
        BY <1>4 DEF register, hostFiles
    <2>2. CASE Becomes(p, "degraded", None, FALSE)
        BY <1>1, <1>2, <1>3, <2>1, <2>2, BecomesUnderWay
    <2>3. CASE \E w : Becomes(p, "live", w, AutoBound)
        BY <1>1, <1>2, <1>3, <2>1, <2>3, BecomesUnderWay
    <2>4. CASE walletFile = None
        BY <1>1, <1>3, <2>1, <2>4
    <2> QED BY <1>4, <2>2, <2>3, <2>4 DEF register, resolveWallet
  <1>5. ASSUME NEW p \in Process, Truncate(p) PROVE Goal
    <2>1. UnderWay /\ walletFile' \notin Wallet /\ UNCHANGED <<aside, raced>>
        BY <1>1, <1>2, <1>5 DEF Truncate, UnderWay, walletPast
    <2> QED BY <2>1, MakerStep DEF Goal
  <1>6. ASSUME NEW p \in Process, Write(p) PROVE Goal
    <2>1. /\ UnderWay /\ UNCHANGED aside /\ walletFile' = process[p].signer /\ installer' = installer
          /\ raced' = raced \cup Overlapping(process[p].signer, p)
        BY <1>2, <1>6 DEF Write, UnderWay
    <2>2. process'[p].mode \notin FirstRun /\ \A q \in Process \ {p} : process'[q] = process[q]
        BY <1>1, <1>2, <1>6 DEF ProcessOK, ProcessType, Write, Becomes
    <2>3. UnderWay' => MadeBesides(p) # {}
      <3>1. ASSUME NEW q \in Process, process'[q].mode \in FirstRun PROVE MadeBesides(p) # {}
          BY <2>2, <3>1 DEF MadeBesides
      <3>2. ASSUME NEW i \in Installer, installer'[i].step \in FirstRun PROVE MadeBesides(p) # {}
        <4>1. i # p
            OBVIOUS
        <4> QED BY <2>1, <3>2, <4>1 DEF MadeBesides
      <3> QED BY <3>1, <3>2 DEF UnderWay
    <2>4. UnderWay' => walletFile' \in raced'
        BY <2>1, <2>3 DEF Overlapping
    <2> QED BY <2>1, <2>4, MakerStep DEF Goal
  <1>7. ASSUME NEW p \in Process, WriteThrows(p) PROVE Goal
    <2>1. UNCHANGED <<walletFile, raced, aside, installer>> /\ Becomes(p, "degraded", None, FALSE)
        BY <1>7 DEF WriteThrows, hostFiles, walletPast
    <2> QED BY <1>1, <1>2, <1>3, <2>1, BecomesUnderWay
  <1>8. ASSUME NEW p \in Process, Stop(p) PROVE Goal
    <2>1. UNCHANGED <<walletFile, raced, aside, installer>>
        BY <1>8 DEF Stop, hostFiles, walletPast
    <2>2. UnderWay' => UnderWay
        BY <1>1, <1>2, <1>8, <2>1 DEF ProcessOK, Stop, Down, UnderWay
    <2> QED BY <1>3, <2>1, <2>2
  <1>9. ASSUME NEW i \in Installer, InstallChecks(i) PROVE Goal
    <2>1. UNCHANGED <<walletFile, raced, aside, process>>
        BY <1>9 DEF InstallChecks, hostFiles
    <2>2. CASE walletFile = None
        BY <1>1, <1>3, <2>1, <2>2
    <2>3. CASE Reaches(i, "reading", None, None)
        BY <1>1, <1>2, <1>3, <2>1, <2>3, ReachesUnderWay
    <2> QED BY <1>9, <2>2, <2>3 DEF InstallChecks
  <1>10. ASSUME NEW i \in Installer, InstallTruncates(i) PROVE Goal
    <2>1. UnderWay /\ walletFile' \notin Wallet /\ UNCHANGED <<aside, raced>>
        BY <1>1, <1>2, <1>10 DEF InstallTruncates, UnderWay, walletPast
    <2> QED BY <2>1, MakerStep DEF Goal
  <1>11. ASSUME NEW i \in Installer, InstallWrites(i) PROVE Goal
    <2>1. /\ UnderWay /\ UNCHANGED aside /\ walletFile' = installer[i].wallet /\ process' = process
          /\ raced' = raced \cup Overlapping(installer[i].wallet, i)
        BY <1>2, <1>11 DEF InstallWrites, UnderWay
    <2>2. installer'[i].step \notin FirstRun /\ \A j \in Installer \ {i} : installer'[j] = installer[j]
        BY <1>1, <1>2, <1>11 DEF InstallerOK, InstallWrites, Reaches
    <2>3. UnderWay' => MadeBesides(i) # {}
      <3>1. ASSUME NEW j \in Installer, installer'[j].step \in FirstRun PROVE MadeBesides(i) # {}
          BY <2>2, <3>1 DEF MadeBesides
      <3>2. ASSUME NEW q \in Process, process'[q].mode \in FirstRun PROVE MadeBesides(i) # {}
        <4>1. q # i
            OBVIOUS
        <4> QED BY <2>1, <3>2, <4>1 DEF MadeBesides
      <3> QED BY <3>1, <3>2 DEF UnderWay
    <2>4. UnderWay' => walletFile' \in raced'
        BY <2>1, <2>3 DEF Overlapping
    <2> QED BY <2>1, <2>4, MakerStep DEF Goal
  <1>12. ASSUME NEW i \in Installer, InstallReads(i) \/ InstallSeeds(i) \/ InstallPatches(i)
                  \/ InstallAnnounces(i) \/ InstallAborts(i)
         PROVE Goal
    <2>1. UNCHANGED <<walletFile, raced, aside, process>>
        BY <1>12 DEF InstallReads, InstallSeeds, InstallPatches, InstallAnnounces, InstallAborts,
                     hostFiles, walletPast
    <2>2. \E step \in {"idle", "seeding", "patching", "linking"} : \E w, id : Reaches(i, step, w, id)
        BY <1>12 DEF InstallReads, InstallSeeds, InstallPatches, InstallAnnounces, InstallAborts
    <2> QED BY <1>1, <1>2, <1>3, <2>1, <2>2, ReachesUnderWay
  <1>13. CASE Hooks \/ Configure \/ Damage \/ UNCHANGED gatewayVars
    <2>1. UNCHANGED <<walletFile, raced, aside, process, installer>>
        BY <1>13 DEF Hooks, CaptureHook, EndHook, Configure, Damage, gatewayVars, hostFiles, walletPast
    <2>2. UnderWay' => UnderWay
        BY <2>1 DEF UnderWay
    <2> QED BY <1>3, <2>1, <2>2
  <1>14. CASE MoveAside
      BY <1>1, <1>14 DEF MoveAside, FileRaced, Kept, Goal
  <1>15. CASE Register \/ Stops
      BY <1>4, <1>5, <1>6, <1>7, <1>8, <1>15 DEF Register, Stops
  <1>16. CASE Installs
      BY <1>9, <1>10, <1>11, <1>12, <1>16 DEF Installs, Install
  <1> QED BY <1>13, <1>14, <1>15, <1>16 DEF GatewayNext, Outside

(* What a shell has read from the file and will announce.                  *)
ReadKept ==
    \A i \in Installer :
        installer[i].step \notin FirstRun /\ installer[i].wallet # None => Kept(installer[i].wallet)

GInv == FilesInv /\ WalletKept /\ ReadKept

LEMMA GInvInit == GatewayInit => GInv
  <1>1. "idle" \notin FirstRun /\ "down" \notin FirstRun
      BY DEF FirstRun
  <1> QED BY <1>1, TInvInit DEF GatewayInit, GInv, FilesInv, FileRaced, WalletKept, ReadKept, Idle

LEMMA ReadKeptNext == GInv /\ [GatewayNext]_gatewayVars => ReadKept'
  <1> SUFFICES ASSUME GInv, [GatewayNext]_gatewayVars PROVE ReadKept'
      OBVIOUS
  <1>1. TInv /\ InstallerOK /\ InstallersNamed /\ PastOK /\ ReadKept
      BY Parts DEF GInv, FilesInv, TInv
  <1>2. \A w \in Wallet : Kept(w) => Kept(w)'
      BY FilesNext DEF GInv
  <1>3. \A i \in Installer : installer[i].wallet \in Wallet \cup {None}
      BY <1>1 DEF InstallersNamed, PastOK
  <1>4. CASE UNCHANGED installer
      BY <1>1, <1>2, <1>3, <1>4 DEF ReadKept
  <1>5. ASSUME NEW i \in Installer, NEW step, NEW w \in Wallet \cup {None}, NEW id, Reaches(i, step, w, id),
               step \in FirstRun \/ w = None \/ Kept(w)
        PROVE  ReadKept'
    <2>1. \A j \in Installer : installer'[j] =
              IF j = i THEN [step |-> step, wallet |-> w, agentId |-> id] ELSE installer[j]
        BY <1>1, <1>5 DEF InstallerOK, Reaches
    <2>2. ASSUME NEW j \in Installer, installer'[j].step \notin FirstRun, installer'[j].wallet # None
          PROVE  installer'[j].wallet = walletFile' \/ installer'[j].wallet \in aside' \cup raced'
      <3>1. CASE j = i
          BY <1>2, <1>5, <2>1, <2>2, <3>1 DEF Kept
      <3>2. CASE j # i
          BY <1>1, <1>2, <1>3, <2>1, <2>2, <3>2 DEF ReadKept, Kept
      <3> QED BY <3>1, <3>2
    <2> QED BY <2>2 DEF ReadKept, Kept
  <1>6. ASSUME NEW i \in Installer, Install(i) PROVE ReadKept'
    <2>1. CASE InstallChecks(i)
      <3>1. CASE Reaches(i, "creating", Fresh, None) /\ generated # Wallet
        <4>1. \E w : w \in Wallet \ generated
            BY <1>1, <3>1 DEF PastOK
        <4>2. Fresh \in Wallet
            BY <4>1 DEF Fresh
        <4> QED BY <1>5, <3>1, <4>2 DEF FirstRun
      <3>2. CASE Reaches(i, "reading", None, None)
          BY <1>5, <3>2
      <3> QED BY <2>1, <3>1, <3>2 DEF InstallChecks
    <2>2. CASE InstallTruncates(i)
        BY <1>3, <1>5, <2>2 DEF InstallTruncates, FirstRun
    <2>3. CASE InstallWrites(i) \/ InstallAnnounces(i) \/ InstallAborts(i)
        BY <1>5, <2>3 DEF InstallWrites, InstallAnnounces, InstallAborts
    <2>4. CASE InstallReads(i)
        BY <1>5, <2>4 DEF InstallReads, Kept
    <2>5. CASE InstallSeeds(i) \/ InstallPatches(i)
      <3>1. installer[i].wallet = None \/ Kept(installer[i].wallet)
          BY <1>1, <2>5 DEF ReadKept, InstallSeeds, InstallPatches, FirstRun
      <3> QED BY <1>3, <1>5, <2>5, <3>1 DEF InstallSeeds, InstallPatches
    <2> QED BY <1>6, <2>1, <2>2, <2>3, <2>4, <2>5 DEF Install
  <1>7. Register \/ Stops \/ Hooks \/ Outside \/ UNCHANGED gatewayVars => UNCHANGED installer
      BY DEF Register, register, Truncate, Write, WriteThrows, Stops, Stop, Hooks, CaptureHook, EndHook,
             Outside, Configure, Damage, MoveAside, gatewayVars
  <1> QED BY <1>4, <1>6, <1>7 DEF GatewayNext, Installs

LEMMA WalletKeptNext == GInv /\ [GatewayNext]_gatewayVars => WalletKept'
  <1> SUFFICES ASSUME GInv, [GatewayNext]_gatewayVars PROVE WalletKept'
      OBVIOUS
  <1>1. TInv /\ PastOK /\ InstallersNamed /\ ReadKept /\ WalletKept
      BY Parts DEF GInv, FilesInv, TInv
  <1>2. \A w \in Wallet : Kept(w) => Kept(w)'
      BY FilesNext DEF GInv
  <1>3. \A w \in announced : w \in Wallet /\ Kept(w)
      BY <1>1 DEF WalletKept, PastOK, Kept
  <1>4. ASSUME \A w \in announced' \ announced : w = walletFile' \/ (w \in Wallet /\ Kept(w))
        PROVE  WalletKept'
      BY <1>2, <1>3, <1>4 DEF WalletKept, Kept
  <1>5. ASSUME NEW p \in Process, Write(p) PROVE WalletKept'
      BY <1>4, <1>5 DEF Write
  <1>6. ASSUME NEW i \in Installer, InstallAnnounces(i) PROVE WalletKept'
    <2>1. installer[i].wallet # None => installer[i].wallet \in Wallet /\ Kept(installer[i].wallet)
        BY <1>1, <1>6 DEF ReadKept, InstallersNamed, PastOK, InstallAnnounces, FirstRun
    <2> QED BY <1>4, <1>6, <2>1 DEF InstallAnnounces
  <1>7. CASE UNCHANGED announced
      BY <1>4, <1>7
  <1> QED BY <1>5, <1>6, <1>7
          DEF GatewayNext, Register, register, Truncate, WriteThrows, Stops, Stop, Hooks, CaptureHook, EndHook,
              Installs, Install, InstallChecks, InstallTruncates, InstallWrites, InstallReads, InstallSeeds,
              InstallPatches, InstallAborts, Outside, Configure, Damage, MoveAside, gatewayVars, walletPast

LEMMA GInvNext == GInv /\ [GatewayNext]_gatewayVars => GInv'
  BY TInvNext, FilesNext, ReadKeptNext, WalletKeptNext DEF GInv, FilesInv

-----------------------------------------------------------------------------
(* Every state is well formed, however starts, crashes and failing file    *)
(* operations of the gateways of one home directory interleave.            *)
THEOREM GatewayTypes == GatewaySpec => []GatewayTypeOK
  <1>1. TInv => GatewayTypeOK
      BY DEF TInv
  <1> QED BY <1>1, TInvInit, TInvNext, PTL DEF GatewaySpec

(* Neither register() nor install.sh loses a wallet the user was told to   *)
(* fund, unless first starts or installs overlapped or the operator moved  *)
(* it: also when a whole first start falls between the shell's look for    *)
(* the file and its write (wallet.ts, index.ts, install.sh).               *)
THEOREM FundedWalletStays == GatewaySpec => []WalletKept
  <1>1. GInv => WalletKept
      BY DEF GInv
  <1> QED BY <1>1, GInvInit, GInvNext, PTL DEF GatewaySpec

(* Every hook finds its session's entries, all of them and no others, also *)
(* when sessions share a routing key (pickSessionKey, session-manager.ts). *)
THEOREM HooksFindTheirSession == GatewaySpec => []SessionWhole
  <1>1. TInv /\ SessionWhole /\ [GatewayNext]_gatewayVars => (TInv /\ SessionWhole)'
      BY TInvNext, SessionWholeNext
  <1>2. GatewayInit => TInv /\ SessionWhole
      BY TInvInit, SessionWholeInit
  <1> QED BY <1>1, <1>2, PTL DEF GatewaySpec

-----------------------------------------------------------------------------
(***************************************************************************)
(* Whose address a gateway gives out.  An agentId that openclaw.json names *)
(* and that is not the wallet in wallet.json is the operator's, or of a    *)
(* wallet moved aside or lost to an overlapping first start or install.    *)
(***************************************************************************)

Accounted == {Foreign} \cup aside \cup raced

Named(id) == id \in Wallet \cup {Foreign, "invalid", None} /\ (id \in Wallet => Kept(id))

SettingTraced == Named(setting) /\ \A i \in Installer : Named(installer[i].agentId)

Traced(p) ==
    process[p].mode \in {"live"} \cup FirstRun /\ process[p].agentId # process[p].signer =>
        ~process[p].bound /\ (process[p].agentId \in Accounted \/ process[p].signer = EnvWallet)

IdentityInv == SettingTraced /\ \A p \in Process : Traced(p)

LEMMA IdentityInit == GatewayInit => IdentityInv
BY DEF GatewayInit, IdentityInv, SettingTraced, Named, Traced, Down, Idle, FirstRun

(* The setting goes on naming what it may, whoever writes it.              *)
LEMMA SettingNext == GInv /\ SettingTraced /\ [GatewayNext]_gatewayVars => SettingTraced'
  <1> SUFFICES ASSUME GInv, SettingTraced, [GatewayNext]_gatewayVars PROVE SettingTraced'
      OBVIOUS
  <1>1. TInv /\ PastOK /\ InstallerOK /\ InstallersNamed /\ ReadKept
      BY Parts DEF GInv, FilesInv, TInv
  <1>2. \A w \in Wallet : Kept(w) => Kept(w)'
      BY FilesNext DEF GInv
  <1>3. \A id : Named(id) => Named(id)'
      BY <1>2 DEF Named
  <1>4. ASSUME Named(setting)' \/ setting' = setting, UNCHANGED installer PROVE SettingTraced'
    <2>1. Named(setting)'
        BY <1>3, <1>4 DEF SettingTraced, Named, Kept
    <2>2. \A i \in Installer : Named(installer[i].agentId)'
        BY <1>3, <1>4 DEF SettingTraced, Named, Kept
    <2> QED BY <2>1, <2>2 DEF SettingTraced
  <1>5. ASSUME NEW i \in Installer, NEW step, NEW w, NEW id, Reaches(i, step, w, id), Named(id),
               setting' = setting \/ setting' = installer[i].agentId
        PROVE  SettingTraced'
    <2>1. \A j \in Installer : installer'[j].agentId = IF j = i THEN id ELSE installer[j].agentId
        BY <1>1, <1>5 DEF InstallerOK, Reaches
    <2>2. \A j \in Installer : Named(installer[j].agentId)'
        BY <1>3, <1>5, <2>1 DEF SettingTraced, Named, Kept
    <2>3. Named(setting)'
        BY <1>3, <1>5 DEF SettingTraced, Named, Kept
    <2> QED BY <2>2, <2>3 DEF SettingTraced
  <1>6. ASSUME NEW i \in Installer, Install(i) PROVE SettingTraced'
    <2>1. CASE InstallSeeds(i)
      <3>1. Named(installer[i].wallet)
          BY <1>1, <2>1 DEF ReadKept, InstallersNamed, PastOK, InstallSeeds, Named, FirstRun
      <3> QED BY <1>5, <2>1, <3>1 DEF InstallSeeds, SettingTraced, hostFiles
    <2>2. CASE ~InstallSeeds(i)
      <3>1. Named(None)
          BY DEF Named
      <3> QED BY <1>5, <1>6, <2>2, <3>1
              DEF Install, InstallChecks, InstallTruncates, InstallWrites, InstallReads,
                  InstallPatches, InstallAnnounces, InstallAborts, hostFiles
    <2> QED BY <2>1, <2>2
  <1>7. CASE Configure
    <2>1. Named(setting)' /\ UNCHANGED installer
        BY <1>7 DEF Configure, Named
    <2> QED BY <1>4, <2>1
  <1>8. CASE Register \/ Stops \/ Hooks \/ Damage \/ MoveAside \/ UNCHANGED gatewayVars
    <2>1. UNCHANGED <<setting, installer>>
        BY <1>8 DEF Register, register, Truncate, Write, WriteThrows, Stops, Stop, Hooks, CaptureHook, EndHook,
                    Damage, MoveAside, gatewayVars, hostFiles
    <2> QED BY <1>4, <2>1
  <1> QED BY <1>6, <1>7, <1>8 DEF GatewayNext, Installs, Outside

LEMMA TracedNext ==
    ASSUME GInv, IdentityInv, [GatewayNext]_gatewayVars, NEW p \in Process
    PROVE  Traced(p)'
  <1>1. SettingTraced /\ ProcessOK /\ FilesOK /\ Traced(p)
      BY Parts DEF GInv, FilesInv, TInv, IdentityInv
  <1>2. "live" \notin FirstRun /\ "degraded" \notin FirstRun /\ "down" \notin FirstRun
        /\ "creating" \in FirstRun /\ "writing" \in FirstRun
      BY DEF FirstRun
  <1>3. aside \subseteq aside' /\ raced \subseteq raced'
      BY DEF GatewayNext, Register, register, Truncate, Write, WriteThrows, Stops, Stop, Hooks, CaptureHook,
             EndHook, Installs, Install, InstallChecks, InstallTruncates, InstallWrites, InstallReads,
             InstallSeeds, InstallPatches, InstallAnnounces, InstallAborts, Outside, Configure, Damage,
             MoveAside, gatewayVars, walletPast
  <1>4. ASSUME process'[p] = process[p] \/ process'[p].mode \notin {"live"} \cup FirstRun
               \/ (/\ process[p].mode \in FirstRun /\ process'[p].signer = process[p].signer
                   /\ process'[p].agentId = process[p].agentId /\ process'[p].bound = process[p].bound)
        PROVE  Traced(p)'
      BY <1>1, <1>3, <1>4 DEF Traced, Accounted
  <1>5. ASSUME NEW mode, NEW w, NEW bound, Becomes(p, mode, w, bound)
        PROVE  /\ process'[p].mode = mode /\ process'[p].signer = w /\ process'[p].bound = bound
               /\ bound => process'[p].agentId = w
               /\ ~bound /\ mode # "degraded" => process'[p].agentId = setting
      BY <1>1, <1>5 DEF Becomes, ProcessOK
  <1>6. ASSUME NEW mode \in {"live"} \cup FirstRun, NEW w, Becomes(p, mode, w, AutoBound),
               w = EnvWallet \/ setting \in {None, w} \cup Accounted
        PROVE  Traced(p)'
      BY <1>2, <1>3, <1>5, <1>6 DEF Traced, Accounted, AutoBound
  <1>7. setting \in {"invalid", None, walletFile} \cup Accounted
      BY <1>1 DEF SettingTraced, Named, Kept, Accounted
  <1>8. ASSUME register(p) PROVE Traced(p)'
    <2>1. CASE Becomes(p, "degraded", None, FALSE)
      <3>1. process'[p].mode = "degraded"
          BY <1>5, <2>1
      <3> QED BY <1>2, <1>4, <3>1
    <2>2. CASE Becomes(p, "live", EnvWallet, AutoBound)
        BY <1>6, <2>2
    <2>3. CASE resolveConfig = "ok" /\ resolveWallet(p)
      <3>1. setting # "invalid"
          BY <2>3 DEF resolveConfig
      <3>2. CASE walletFile = None
          BY <1>2, <1>6, <1>7, <2>3, <3>1, <3>2 DEF resolveWallet, Generate
      <3>3. CASE walletFile # None
          BY <1>6, <1>7, <2>1, <2>3, <3>1, <3>3 DEF resolveWallet
      <3> QED BY <3>2, <3>3
    <2> QED BY <1>8, <2>1, <2>2, <2>3 DEF register
  <1>9. ASSUME Truncate(p) \/ Write(p) \/ WriteThrows(p) \/ Stop(p) PROVE Traced(p)'
    <2>1. CASE Truncate(p) \/ (Write(p) /\ process' = [process EXCEPT ![p].mode = "live"])
      <3>1. process[p] \in ProcessType /\ process[p].mode \in FirstRun
          BY <1>1, <1>2, <2>1 DEF ProcessOK, Truncate, Write
      <3>2. \E mode : process'[p] = [process[p] EXCEPT !.mode = mode]
          BY <1>1, <2>1 DEF ProcessOK, Truncate, Write
      <3>3. process'[p].signer = process[p].signer /\ process'[p].agentId = process[p].agentId
            /\ process'[p].bound = process[p].bound
          BY <3>1, <3>2 DEF ProcessType
      <3> QED BY <1>4, <3>1, <3>3
    <2>2. CASE Becomes(p, "degraded", None, FALSE)
      <3>1. process'[p].mode = "degraded"
          BY <1>5, <2>2
      <3> QED BY <1>2, <1>4, <3>1
    <2>3. CASE Stop(p)
        BY <1>1, <1>2, <1>4, <2>3 DEF ProcessOK, Stop, Down
    <2> QED BY <1>9, <2>1, <2>2, <2>3 DEF Write, WriteThrows
  <1>10. ASSUME NEW q \in Process, q # p, register(q) \/ Truncate(q) \/ Write(q) \/ WriteThrows(q) \/ Stop(q)
         PROVE  process'[p] = process[p]
      BY <1>1, <1>10 DEF ProcessOK, register, resolveWallet, Generate, Truncate, Write, WriteThrows, Stop, Becomes
  <1>11. CASE Register \/ Stops
    <2>1. PICK q \in Process : register(q) \/ Truncate(q) \/ Write(q) \/ WriteThrows(q) \/ Stop(q)
        BY <1>11 DEF Register, Stops
    <2> QED BY <1>4, <1>8, <1>9, <1>10, <2>1
  <1>12. CASE Hooks \/ Installs \/ Outside \/ UNCHANGED gatewayVars
    <2>1. UNCHANGED process
        BY <1>12 DEF Hooks, CaptureHook, EndHook, Installs, Install, InstallChecks, InstallTruncates,
             InstallWrites, InstallReads, InstallSeeds, InstallPatches, InstallAnnounces, InstallAborts,
             Outside, Configure, Damage, MoveAside, gatewayVars
    <2> QED BY <1>4, <2>1
  <1> QED BY <1>11, <1>12 DEF GatewayNext

LEMMA IdentityNext == GInv /\ IdentityInv /\ [GatewayNext]_gatewayVars => IdentityInv'
  BY SettingNext, TracedNext DEF IdentityInv

-----------------------------------------------------------------------------
(***************************************************************************)
(* The gateways with the page that shows their logs: each scene is a part  *)
(* of both specifications, so that what holds of each holds of the two.    *)
(***************************************************************************)

PageVars == <<vars, gatewayVars, adapterVars, scene>>

LEMMA Composed ==
    /\ PageAndHostInit => Init /\ GatewayInit /\ AdapterInit
    /\ [PageAndHostNext]_PageVars => [Next]_vars /\ [GatewayNext]_gatewayVars
  <1>1. AdapterNext => [Next]_vars
      BY DEF AdapterNext, OracleRotates, Next
  <1> QED BY <1>1 DEF PageAndHostInit, PageAndHostNext, PageVars, GatewayNext, Outside

(* Only its own scene moves the adapter; the others may rotate the oracle. *)
AdapterInScene == AdapterInv /\ (scene # "adapter" => attempt.state = "received")

LEMMA SceneKeeps ==
    IInv /\ AdapterInScene /\ [PageAndHostNext]_PageVars => AdapterInScene'
  <1> SUFFICES ASSUME IInv, AdapterInScene, [PageAndHostNext]_PageVars PROVE AdapterInScene'
      OBVIOUS
  <1>1. oracle \in Oracle
      BY DEF IInv, GivenOK
  <1>2. CASE scene = "adapter" /\ AdapterNext /\ UNCHANGED scene
      BY <1>1, <1>2, AdapterKeeps DEF AdapterInScene
  <1>3. CASE UNCHANGED <<adapterVars, scene>> /\ (scene # "adapter" \/ UNCHANGED vars)
    <2>1. UNCHANGED <<response, attempt, during, scene>>
      BY <1>3 DEF adapterVars
    <2>2. attempt.state = "received" \/ UNCHANGED oracle
      BY <1>3 DEF AdapterInScene, vars
    <2> QED BY <2>1, <2>2 DEF AdapterInScene, AdapterInv, AdapterTypeOK, AttemptUntouched,
               AttemptAsking, AttemptDecided, AttemptFailed
  <1> QED BY <1>2, <1>3 DEF PageAndHostNext, PageVars

LEMMA SceneInvariance == PageAndHost => [](IInv /\ AdapterInScene)
  <1>1. PageAndHostInit => IInv /\ AdapterInScene
      BY Composed, IInvInit, AdapterStarts DEF AdapterInScene, AdapterInit, Received
  <1>2. (IInv /\ AdapterInScene) /\ [PageAndHostNext]_PageVars => (IInv /\ AdapterInScene)'
      BY Composed, IInvNext, SceneKeeps
  <1> QED BY <1>1, <1>2, PTL DEF PageAndHost, PageVars

(* What the page, the cascade, the files, the loggers and the adapter hold *)
(* is what the types say, in every scene (VerificationMC).                 *)
THEOREM PageAndHostTypes == PageAndHost => []StateOK
  <1>1. IInv /\ AdapterInScene /\ TInv => StateOK
      BY DEF IInv, GivenOK, PageOK, LoopOK, BadgeOK, TInv, StateOK, TypeOK, AdapterInScene, AdapterInv,
             LoadingPage, ShownPage, FailedPage, View, LoopState
  <1> QED BY <1>1, SceneInvariance, Composed, TInvInit, TInvNext, PTL DEF PageAndHost, PageVars

(* A live gateway's own entry is green to the server and the browser, and  *)
(* its commands tell the user to fund the wallet that signs and pays; but  *)
(* for an agentId the operator gave, or one whose wallet was moved aside,  *)
(* overridden or lost to an overlapping first start or install (wallet.ts, *)
(* index.ts, install.sh).                                                  *)
THEOREM OwnEntriesAreGreen == PageAndHost => []OwnEntriesGreen
  <1>1. IdentityInv => OwnEntriesGreen
    <2> SUFFICES ASSUME IdentityInv, NEW p \in Process, process[p].mode = "live"
                 PROVE  LET e == buildSignedEntry(p)
                        IN  \/ /\ verifyOneEntry(e) = "verified" /\ verifyEntryClient(e) = "verified"
                               /\ agentscan_wallet(p).fund = process[p].signer
                            \/ /\ ~process[p].bound
                               /\ \/ process[p].agentId \in {Foreign} \cup aside \cup raced
                                  \/ process[p].signer = EnvWallet
        BY DEF OwnEntriesGreen
    <2>1. CASE process[p].agentId = process[p].signer
        BY <2>1 DEF buildSignedEntry, verifyOneEntry, verifyEntryClient, NeedsContract, Unsigned,
                    RecoversToAgent, hasAttestationFields, agentscan_wallet
    <2>2. CASE process[p].agentId # process[p].signer
        BY <2>2 DEF IdentityInv, Traced, Accounted
    <2> QED BY <2>1, <2>2
  <1>2. GatewayInit => GInv /\ IdentityInv
      BY GInvInit, IdentityInit
  <1>3. GInv /\ IdentityInv /\ [GatewayNext]_gatewayVars => (GInv /\ IdentityInv)'
      BY GInvNext, IdentityNext
  <1> QED BY <1>1, <1>2, <1>3, Composed, PTL DEF PageAndHost, PageVars

=============================================================================
