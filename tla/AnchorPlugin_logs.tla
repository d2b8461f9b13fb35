-------------------------- MODULE AnchorPlugin_logs --------------------------
(***************************************************************************)
(* Theorems about the logs of AnchorPlugin, for every number of sessions,  *)
(* loggers, runs and tokens and every environment: no failure drops one,   *)
(* none gets an entry of another, and what is stored stays what it was; and*)
(* in a quiet chat each tool call of the transcript is in its run's log.   *)
(***************************************************************************)
EXTENDS AnchorPlugin_proof, WellFoundedInduction

-----------------------------------------------------------------------------
(***************************************************************************)
(* The inductive invariant: who refers to a logger at which point of its   *)
(* life.                                                                   *)
(***************************************************************************)

(* A logger that is bound, anchored or written to has been allocated.      *)
LoggersCounted ==
    /\ \A s \in Session : sessions[s] <= tally.loggers
    /\ \A l \in Logger : anchor[l].pc # "idle" \/ entries[l] # {} => l <= tally.loggers

(* A session's logger is its own, and not anchored yet; until then nothing *)
(* locks it.                                                               *)
BoundIdle ==
    /\ \A s \in Session : sessions[s] # None => anchor[sessions[s]].pc = "idle"
    /\ \A s, t \in Session : sessions[s] = sessions[t] => s = t \/ sessions[s] = None
    /\ \A l \in Logger : anchor[l].pc = "idle" => seal[l] = "open"

(* The registry keeps an anchored logger under its own name, and a name is *)
(* given to one logger only.                                               *)
RegistryNamed ==
    /\ \A n \in Name : pendingAnchors[n] # None =>
          /\ anchor[pendingAnchors[n]].pc # "idle"
          /\ anchor[pendingAnchors[n]].name = n
    /\ \A l \in Logger : anchor[l].pc # "idle" => anchor[l].name[2] <= tally.runs
    /\ \A l, m \in Logger :
          anchor[l].pc # "idle" /\ anchor[m].pc # "idle" /\ anchor[l].name = anchor[m].name
            => l = m

(* Only an anchored logger has an envelope in storage.                     *)
BlobsAnchored == \A l \in Logger, k \in Key : <<l, k>> \in blobs => anchor[l].pc # "idle"

EntriesCaptured == \A l \in Logger : entries[l] \subseteq DOMAIN events

LogInv ==
    /\ LoggersCounted
    /\ BoundIdle
    /\ RegistryNamed
    /\ BlobsAnchored
    /\ EntriesCaptured
    /\ CapturedOnce
    /\ NothingDropped

-----------------------------------------------------------------------------
LEMMA LogInit == Init => LogInv
PROOF
  <1> SUFFICES ASSUME Init
               PROVE  LogInv
    OBVIOUS
  <1> USE DEF Init, None
  <1>1. LoggersCounted /\ BoundIdle /\ BlobsAnchored /\ EntriesCaptured
    BY DEF LoggersCounted, BoundIdle, BlobsAnchored, EntriesCaptured
  <1>2. RegistryNamed
    BY DEF RegistryNamed
  <1>3. CapturedOnce /\ NothingDropped
    BY DEF CapturedOnce, NothingDropped, Logger
  <1> QED BY <1>1, <1>2, <1>3 DEF LogInv

(* What leaves the loggers, their anchors and the captured events alone.   *)
LEMMA LogFrame ==
    ASSUME LogInv,
           UNCHANGED <<sessions, pendingAnchors, entries, seal, anchor, blobs, events, tally>>,
           ghosts'.gone = ghosts.gone
    PROVE  LogInv'
BY DEF LogInv, LoggersCounted, BoundIdle, RegistryNamed, BlobsAnchored, EntriesCaptured,
       CapturedOnce, NothingDropped

(* The types the proofs below use, with loggers as numbers.                *)
LEMMA LogTypes ==
    ASSUME TypeOK
    PROVE  /\ Logger \subseteq Nat \ {0}
           /\ sessions \in [Session -> Logger \cup {0}]
           /\ pendingAnchors \in [Name -> Logger \cup {0}]
           /\ entries \in [Logger -> SUBSET Event]
           /\ seal \in [Logger -> {"open", "flushing", "flushed"}]
           /\ anchor \in [Logger -> Anchor]
           /\ events \in Seq(EventRec)
           /\ tally \in Tally /\ tally.loggers \in Nat /\ tally.runs \in Nat
           /\ 1..tally.loggers \subseteq Logger
PROOF
  <1>1. tally \in Tally
    BY DEF TypeOK, EnvTypeOK
  <1>2. tally.loggers \in 0..MaxLoggers /\ tally.runs \in 0..MaxRuns
    BY <1>1 DEF Tally
  <1>3. tally.loggers \in Nat /\ tally.runs \in Nat
    BY <1>2
  <1>4. 1..tally.loggers \subseteq Logger
    BY <1>2, BoundsAssumption DEF Logger
  <1>5. Logger \subseteq Nat \ {0}
    BY DEF Logger
  <1> QED BY <1>1, <1>3, <1>4, <1>5 DEF TypeOK, MemTypeOK, EnvTypeOK, None

(* A hook appends to the logger of its session, or to a new one: both are  *)
(* idle, so the append is not refused.                                     *)
LEMMA CaptureFinds ==
    ASSUME IInv, LogInv, NEW s \in Session, Capture(s)
    PROVE  \E l \in Logger :
               /\ l = IF sessions[s] = 0 THEN tally.loggers + 1 ELSE sessions[s]
               /\ sessions' = [sessions EXCEPT ![s] = l]
               /\ tally'.loggers = IF sessions[s] = 0 THEN l ELSE tally.loggers
               /\ tally'.loggers \in Nat /\ tally.loggers <= tally'.loggers
               /\ l <= tally'.loggers
               /\ tally'.runs = tally.runs
               /\ anchor[l].pc = "idle" /\ seal[l] = "open"
               /\ \/ UNCHANGED <<events, entries>>
                  \/ /\ events' = Append(events, [session |-> s, at |-> clock, via |-> "hook"])
                     /\ entries' = [entries EXCEPT ![l] = @ \cup {Len(events) + 1}]
               /\ UNCHANGED <<pendingAnchors, seal, anchor, blobs, ghosts>>
PROOF
  <1> DEFINE l == IF sessions[s] = None THEN tally.loggers + 1 ELSE sessions[s]
  <1> USE LogTypes DEF IInv, None
  <1>1. /\ l \in Logger
        /\ sessions' = [sessions EXCEPT ![s] = l]
        /\ tally' = [tally EXCEPT !.loggers = IF sessions[s] = None THEN l ELSE @]
        /\ UNCHANGED <<pendingAnchors, seal, anchor, blobs, ghosts>>
    BY DEF Capture, netVars
  <1>2. /\ tally'.loggers = IF sessions[s] = None THEN l ELSE tally.loggers
        /\ tally'.runs = tally.runs
    BY <1>1 DEF Tally
  <1>3. anchor[l].pc = "idle" /\ seal[l] = "open" /\ l <= tally'.loggers
    <2>1. CASE sessions[s] = None
      <3>1. l = tally.loggers + 1 /\ ~(l <= tally.loggers) /\ l \in Nat
        BY <2>1
      <3>2. anchor[l].pc = "idle"
        BY <1>1, <3>1 DEF LogInv, LoggersCounted
      <3>3. seal[l] = "open"
        BY <1>1, <3>2 DEF LogInv, BoundIdle
      <3> QED BY <1>2, <2>1, <3>1, <3>2, <3>3
    <2>2. CASE sessions[s] # None
      <3>1. l = sessions[s] /\ anchor[l].pc = "idle"
        BY <2>2 DEF LogInv, BoundIdle
      <3>2. seal[l] = "open"
        BY <1>1, <3>1 DEF LogInv, BoundIdle
      <3>3. l <= tally.loggers
        BY <3>1 DEF LogInv, LoggersCounted
      <3> QED BY <1>2, <2>2, <3>1, <3>2, <3>3
    <2> QED BY <2>1, <2>2
  <1>4. \/ UNCHANGED <<events, entries>>
        \/ /\ events' = Append(events, [session |-> s, at |-> clock, via |-> "hook"])
           /\ entries' = [entries EXCEPT ![l] = @ \cup {Len(events) + 1}]
    BY <1>3 DEF Capture
  <1>5. /\ l = IF sessions[s] = 0 THEN tally.loggers + 1 ELSE sessions[s]
        /\ tally'.loggers = IF sessions[s] = 0 THEN l ELSE tally.loggers
    BY <1>2
  <1>6. tally'.loggers \in Nat /\ tally.loggers <= tally'.loggers
    BY <1>5
  <1> HIDE DEF l
  <1>7. l \in Logger
    BY <1>1
  <1> QED BY <1>7, <1>1, <1>2, <1>3, <1>4, <1>5, <1>6

LEMMA CaptureKeeps ==
    ASSUME IInv, LogInv, NEW s \in Session, Capture(s)
    PROVE  LogInv'
PROOF
  <1> USE LogTypes DEF IInv, None
  <1>1. PICK l \in Logger :
            /\ l = IF sessions[s] = 0 THEN tally.loggers + 1 ELSE sessions[s]
            /\ sessions' = [sessions EXCEPT ![s] = l]
            /\ tally'.loggers = IF sessions[s] = 0 THEN l ELSE tally.loggers
            /\ tally'.loggers \in Nat /\ tally.loggers <= tally'.loggers
            /\ l <= tally'.loggers
            /\ tally'.runs = tally.runs
            /\ anchor[l].pc = "idle" /\ seal[l] = "open"
            /\ \/ UNCHANGED <<events, entries>>
               \/ /\ events' = Append(events, [session |-> s, at |-> clock, via |-> "hook"])
                  /\ entries' = [entries EXCEPT ![l] = @ \cup {Len(events) + 1}]
            /\ UNCHANGED <<pendingAnchors, seal, anchor, blobs, ghosts>>
    BY CaptureFinds
  <1>2. /\ sessions'[s] = l
        /\ \A t \in Session \ {s} : sessions'[t] = sessions[t]
        /\ \A m \in Logger \ {l} : entries'[m] = entries[m]
    BY <1>1
  <1>3. \A t \in Session \ {s} : sessions[t] # l
    <2>1. CASE sessions[s] = 0
      BY <2>1, <1>1 DEF LogInv, LoggersCounted
    <2>2. CASE sessions[s] # 0
      BY <2>2, <1>1 DEF LogInv, BoundIdle
    <2> QED BY <2>1, <2>2
  <1>4. LoggersCounted'
    <2>1. \A t \in Session : sessions[t] <= tally.loggers /\ sessions[t] \in Nat
      BY DEF LogInv, LoggersCounted
    <2>2. \A t \in Session : sessions'[t] <= tally'.loggers
      BY <1>1, <1>2, <2>1
    <2>3. ASSUME NEW m \in Logger, anchor'[m].pc # "idle" \/ entries'[m] # {}
          PROVE  m <= tally'.loggers
      <3>1. CASE m = l
        BY <3>1, <1>1
      <3>2. CASE m # l
        <4>1. m <= tally.loggers
          BY <3>2, <2>3, <1>1, <1>2 DEF LogInv, LoggersCounted
        <4> QED BY <4>1, <1>1
      <3> QED BY <3>1, <3>2
    <2> QED BY <2>2, <2>3 DEF LoggersCounted
  <1>5. BoundIdle'
    BY <1>1, <1>2, <1>3 DEF LogInv, BoundIdle
  <1>6. RegistryNamed' /\ BlobsAnchored'
    BY <1>1 DEF LogInv, RegistryNamed, BlobsAnchored
  <1>7. EntriesCaptured' /\ CapturedOnce'
    <2> DEFINE i == Len(events) + 1
    <2>1. CASE UNCHANGED <<events, entries>>
      BY <2>1 DEF LogInv, EntriesCaptured, CapturedOnce
    <2>2. CASE /\ events' = Append(events, [session |-> s, at |-> clock, via |-> "hook"])
               /\ entries' = [entries EXCEPT ![l] = @ \cup {i}]
      <3>1. /\ DOMAIN events = 1..Len(events) /\ DOMAIN events' = 1..i /\ Len(events) \in Nat
            /\ \A j \in DOMAIN events : events'[j] = events[j]
        BY <2>2
      <3>2. \A m \in Logger : entries[m] \subseteq 1..Len(events)
        BY <3>1 DEF LogInv, EntriesCaptured
      <3>3. entries'[l] = entries[l] \cup {i}
        BY <2>2
      <3>4. i \notin 1..Len(events) /\ i \in 1..i /\ 1..Len(events) \subseteq 1..i
        BY <3>1
      <3> HIDE DEF i
      <3>5. EntriesCaptured'
        <4> SUFFICES ASSUME NEW m \in Logger
                     PROVE  entries'[m] \subseteq DOMAIN events'
          BY DEF EntriesCaptured
        <4>1. entries'[m] \subseteq 1..i
          <5>1. entries'[m] \subseteq entries[m] \cup {i}
            BY <3>3, <1>2
          <5> QED BY <5>1, <3>2, <3>4
        <4> QED BY <4>1, <3>1
      <3>6. ASSUME NEW j \in DOMAIN events', events'[j].via = "hook"
            PROVE  \E k \in Logger : j \in entries'[k] /\ \A m \in Logger \ {k} : j \notin entries'[m]
        <4>1. CASE j = i
          <5>1. j \in entries'[l] /\ \A m \in Logger \ {l} : j \notin entries'[m]
            BY <4>1, <3>2, <3>3, <3>4, <1>2
          <5> QED BY <5>1
        <4>2. CASE j # i
          <5>1. j \in DOMAIN events /\ events[j].via = "hook"
            BY <4>2, <3>1, <3>6 DEF i
          <5>2. PICK k \in Logger : j \in entries[k] /\ \A m \in Logger \ {k} : j \notin entries[m]
            BY <5>1 DEF LogInv, CapturedOnce
          <5>3. \A m \in Logger : j \in entries'[m] <=> j \in entries[m]
            BY <4>2, <3>3, <1>2
          <5> QED BY <5>2, <5>3
        <4> QED BY <4>1, <4>2
      <3> QED BY <3>5, <3>6 DEF CapturedOnce
    <2> QED BY <1>1, <2>1, <2>2
  <1>8. NothingDropped'
    <2> SUFFICES ASSUME NEW m \in 1..tally'.loggers \ ghosts'.gone, entries'[m] # {}
                 PROVE  \/ \E t \in Session : sessions'[t] = m
                        \/ \E n \in Name : pendingAnchors'[n] = m
                        \/ <<m, anchor'[m].key>> \in blobs'
      BY DEF NothingDropped
    <2>1. CASE m = l
      BY <2>1, <1>2
    <2>2. CASE m # l
      <3>1. m \in 1..tally.loggers \ ghosts.gone
        BY <2>2, <1>1
      <3>2. m \in Logger /\ m # 0 /\ entries[m] # {}
        BY <3>1, <2>2, <1>2
      <3>3. \A t \in Session : sessions[t] = m => sessions'[t] = m
        BY <1>1, <1>2, <2>2, <3>2
      <3> QED BY <3>1, <3>2, <3>3, <1>1 DEF LogInv, NothingDropped
    <2> QED BY <2>1, <2>2
  <1> QED BY <1>4, <1>5, <1>6, <1>7, <1>8 DEF LogInv

(* The transcript adds tool calls only, to a logger of a session.          *)
LEMMA InjectAdds ==
    ASSUME IInv, LogInv, NEW s \in Session, NEW ws, NEW added \in Appended(s, ws),
           sessions[s] # None, Inject(s, added), UNCHANGED events
    PROVE  /\ EntriesCaptured' /\ CapturedOnce'
           /\ \A m \in Logger \ {sessions[s]} : entries'[m] = entries[m]
           /\ entries[sessions[s]] \subseteq entries'[sessions[s]]
PROOF
  <1> USE LogTypes DEF IInv, None
  <1> DEFINE l == sessions[s]
  <1>1. l \in Logger
    OBVIOUS
  <1>2. entries' = [entries EXCEPT ![l] = @ \cup added]
    BY DEF Inject
  <1>3. added \subseteq {i \in DOMAIN events : events[i].via = "transcript"}
    BY AppendsInjected DEF Injected, Transcript
  <1> HIDE DEF l
  <1>4. /\ entries'[l] = entries[l] \cup added
        /\ \A m \in Logger \ {l} : entries'[m] = entries[m]
    BY <1>1, <1>2
  <1>5. EntriesCaptured'
    <2> SUFFICES ASSUME NEW m \in Logger
                 PROVE  entries'[m] \subseteq DOMAIN events
      BY DEF EntriesCaptured
    <2>1. entries[m] \subseteq DOMAIN events
      BY DEF LogInv, EntriesCaptured
    <2>2. entries'[m] \subseteq entries[m] \cup added
      BY <1>4
    <2> QED BY <2>1, <2>2, <1>3
  <1>6. CapturedOnce'
    <2> SUFFICES ASSUME NEW i \in DOMAIN events, events[i].via = "hook"
                 PROVE  \E k \in Logger : i \in entries'[k] /\ \A m \in Logger \ {k} : i \notin entries'[m]
      BY DEF CapturedOnce
    <2>1. i \notin added
      BY <1>3
    <2>2. \A m \in Logger : i \in entries'[m] <=> i \in entries[m]
      BY <2>1, <1>4
    <2> QED BY <2>2 DEF LogInv, CapturedOnce
  <1> QED BY <1>4, <1>5, <1>6 DEF l

(* setPending threw: the logger stays with its session, the transcript may *)
(* be in it already.                                                       *)
LEMMA KeyFailsKeeps ==
    ASSUME IInv, LogInv, NEW s \in Session, sessions[s] # None,
           EntriesCaptured', CapturedOnce',
           \A m \in Logger \ {sessions[s]} : entries'[m] = entries[m],
           tally'.loggers = tally.loggers, tally'.runs = tally.runs + 1,
           UNCHANGED <<sessions, pendingAnchors, seal, anchor, blobs, events, ghosts>>
    PROVE  LogInv'
PROOF
  <1> USE LogTypes DEF IInv, None
  <1>1. sessions[s] \in Logger /\ sessions[s] <= tally.loggers
    BY DEF LogInv, LoggersCounted
  <1>2. LoggersCounted'
    BY <1>1 DEF LogInv, LoggersCounted
  <1>3. BoundIdle' /\ BlobsAnchored'
    BY DEF LogInv, BoundIdle, BlobsAnchored
  <1>4. RegistryNamed'
    <2>1. \A l \in Logger : anchor[l].pc # "idle" => anchor[l].name[2] \in Nat
      BY DEF KeyInv, AnchorsNamed, Name, Run
    <2> QED BY <2>1 DEF LogInv, RegistryNamed
  <1>5. NothingDropped'
    <2> SUFFICES ASSUME NEW m \in 1..tally.loggers \ ghosts.gone, entries'[m] # {}
                 PROVE  \/ \E t \in Session : sessions[t] = m
                        \/ \E n \in Name : pendingAnchors[n] = m
                        \/ <<m, anchor[m].key>> \in blobs
      BY DEF NothingDropped
    <2>1. CASE m = sessions[s]
      BY <2>1
    <2>2. CASE m # sessions[s]
      BY <2>2 DEF LogInv, NothingDropped
    <2> QED BY <2>1, <2>2
  <1> QED BY <1>2, <1>3, <1>4, <1>5 DEF LogInv

(* A session lets go of a logger with nothing in it.                       *)
LEMMA EmptyKeeps ==
    ASSUME IInv, LogInv, NEW s \in Session, sessions[s] # None, entries[sessions[s]] = {},
           sessions' = [sessions EXCEPT ![s] = None],
           UNCHANGED <<pendingAnchors, entries, seal, anchor, blobs, events, tally, ghosts>>
    PROVE  LogInv'
PROOF
  <1> USE LogTypes DEF IInv, None
  <1>1. sessions'[s] = 0 /\ \A t \in Session \ {s} : sessions'[t] = sessions[t]
    OBVIOUS
  <1>2. LoggersCounted' /\ BoundIdle'
    BY <1>1 DEF LogInv, LoggersCounted, BoundIdle
  <1>3. RegistryNamed' /\ BlobsAnchored' /\ EntriesCaptured' /\ CapturedOnce'
    BY DEF LogInv, RegistryNamed, BlobsAnchored, EntriesCaptured, CapturedOnce
  <1>4. NothingDropped'
    BY <1>1 DEF LogInv, NothingDropped
  <1> QED BY <1>2, <1>3, <1>4 DEF LogInv

(* takeAndRelease, pendingAnchors.set and flush: the logger goes from its  *)
(* session to the registry, under a name nobody has.                       *)
LEMMA TakeKeeps ==
    ASSUME IInv, LogInv, NEW s \in Session, NEW r \in Run, NEW prefix \in Prefix,
           sessions[s] # None, TakeAndAnchor(s, r, prefix),
           EntriesCaptured', CapturedOnce',
           \A m \in Logger \ {sessions[s]} : entries'[m] = entries[m],
           UNCHANGED <<events, ghosts>>
    PROVE  LogInv'
PROOF
  <1> USE LogTypes DEF IInv, None
  <1> DEFINE l == sessions[s]
             n == <<s, r>>
  <1>1. /\ l \in Logger /\ l <= tally.loggers /\ anchor[l].pc = "idle"
        /\ n \in Name /\ n # NoName /\ n[2] = r
    BY DEF LogInv, LoggersCounted, BoundIdle, Name, NoName
  <1>2. /\ r = tally.runs + 1
        /\ tally'.loggers = tally.loggers /\ tally'.runs = r
    BY DEF TakeAndAnchor, FreshRun, Tally
  <1>3. /\ sessions' = [sessions EXCEPT ![s] = 0]
        /\ pendingAnchors' = [pendingAnchors EXCEPT ![n] = l]
        /\ seal' = [seal EXCEPT ![l] = "flushing"]
        /\ anchor' = [anchor EXCEPT ![l] = [pc |-> "uploading", name |-> n, key |-> r,
                          prefix |-> prefix, by |-> "hook", token |-> None]]
        /\ UNCHANGED blobs
    BY DEF TakeAndAnchor
  <1> HIDE DEF l, n
  <1>4. /\ sessions'[s] = 0 /\ \A t \in Session \ {s} : sessions'[t] = sessions[t]
        /\ \A t \in Session \ {s} : sessions[t] # l
        /\ pendingAnchors'[n] = l
        /\ \A o \in Name \ {n} : pendingAnchors'[o] = pendingAnchors[o]
        /\ anchor'[l].pc = "uploading" /\ anchor'[l].name = n
        /\ \A m \in Logger \ {l} : anchor'[m] = anchor[m] /\ seal'[m] = seal[m]
    <2>1. \A t \in Session \ {s} : sessions[t] # l
      BY DEF LogInv, BoundIdle, l
    <2> QED BY <1>1, <1>3, <2>1
  <1>5. \A m \in Logger \ {l} : entries'[m] = entries[m]
    BY DEF l
  <1>6. \A m \in Logger : anchor[m].pc # "idle" =>
            anchor[m].name[2] \in Nat /\ anchor[m].name[2] <= tally.runs
    BY DEF KeyInv, AnchorsNamed, Name, Run, LogInv, RegistryNamed
  <1>7. LoggersCounted'
    <2>1. \A t \in Session : sessions'[t] <= tally'.loggers
      BY <1>2, <1>4 DEF LogInv, LoggersCounted
    <2>2. \A m \in Logger : anchor'[m].pc # "idle" \/ entries'[m] # {} => m <= tally'.loggers
      BY <1>1, <1>2, <1>4, <1>5 DEF LogInv, LoggersCounted
    <2> QED BY <2>1, <2>2 DEF LoggersCounted
  <1>8. BoundIdle'
    <2>1. \A t \in Session : sessions'[t] # 0 => t # s /\ sessions'[t] \in Logger \ {l} /\ sessions'[t] = sessions[t]
      BY <1>4
    <2>2. \A t \in Session : sessions'[t] # 0 => anchor'[sessions'[t]].pc = "idle"
      BY <2>1, <1>4 DEF LogInv, BoundIdle
    <2>3. \A t, u \in Session : sessions'[t] = sessions'[u] => t = u \/ sessions'[t] = 0
      BY <2>1 DEF LogInv, BoundIdle
    <2>4. \A m \in Logger : anchor'[m].pc = "idle" => seal'[m] = "open"
      BY <1>4 DEF LogInv, BoundIdle
    <2> QED BY <2>2, <2>3, <2>4 DEF BoundIdle
  <1>9. RegistryNamed'
    <2>1. ASSUME NEW o \in Name, pendingAnchors'[o] # 0
          PROVE  anchor'[pendingAnchors'[o]].pc # "idle" /\ anchor'[pendingAnchors'[o]].name = o
      <3>1. CASE o = n
        BY <3>1, <1>4
      <3>2. CASE o # n
        <4>1. /\ pendingAnchors'[o] = pendingAnchors[o]
              /\ anchor[pendingAnchors[o]].pc # "idle" /\ anchor[pendingAnchors[o]].name = o
          BY <3>2, <2>1, <1>4 DEF LogInv, RegistryNamed
        <4>2. pendingAnchors[o] \in Logger \ {l}
          BY <4>1, <2>1, <1>1
        <4> QED BY <4>1, <4>2, <1>4
      <3> QED BY <3>1, <3>2
    <2>2. \A m \in Logger : anchor'[m].pc # "idle" => anchor'[m].name[2] <= tally'.runs
      BY <1>1, <1>2, <1>4, <1>6
    <2>3. \A m \in Logger \ {l} : anchor'[m].pc # "idle" => anchor'[m].name # n
      BY <1>1, <1>2, <1>4, <1>6
    <2>4. ASSUME NEW k \in Logger, NEW m \in Logger,
                 anchor'[k].pc # "idle", anchor'[m].pc # "idle", anchor'[k].name = anchor'[m].name
          PROVE  k = m
      <3>1. CASE k = l \/ m = l
        BY <3>1, <2>3, <2>4, <1>4
      <3>2. CASE k # l /\ m # l
        BY <3>2, <2>4, <1>4 DEF LogInv, RegistryNamed
      <3> QED BY <3>1, <3>2
    <2> QED BY <2>1, <2>2, <2>4 DEF RegistryNamed
  <1>10. BlobsAnchored'
    BY <1>3, <1>4 DEF LogInv, BlobsAnchored
  <1>11. NothingDropped'
    <2> SUFFICES ASSUME NEW m \in 1..tally.loggers \ ghosts.gone, entries'[m] # {}
                 PROVE  \/ \E t \in Session : sessions'[t] = m
                        \/ \E o \in Name : pendingAnchors'[o] = m
                        \/ <<m, anchor'[m].key>> \in blobs
      BY <1>2, <1>3 DEF NothingDropped
    <2>1. CASE m = l
      BY <2>1, <1>1, <1>4
    <2>2. CASE m # l
      <3>1. m \in Logger \ {l} /\ entries[m] # {}
        BY <2>2, <1>5
      <3>2. \/ \E t \in Session : sessions[t] = m
            \/ \E o \in Name : pendingAnchors[o] = m
            \/ <<m, anchor[m].key>> \in blobs
        BY <3>1 DEF LogInv, NothingDropped
      <3>3. \A t \in Session : sessions[t] = m => sessions'[t] = m
        BY <2>2, <1>4 DEF l
      <3>4. pendingAnchors[n] = 0
        <4> SUFFICES ASSUME pendingAnchors[n] # 0
                     PROVE  FALSE
          OBVIOUS
        <4>1. /\ pendingAnchors[n] \in Logger /\ anchor[pendingAnchors[n]].pc # "idle"
              /\ anchor[pendingAnchors[n]].name = n
          BY <1>1 DEF LogInv, RegistryNamed
        <4>2. n[2] <= tally.runs
          BY <4>1, <1>6
        <4> QED BY <4>2, <1>1, <1>2
      <3>5. \A o \in Name : pendingAnchors[o] = m => pendingAnchors'[o] = m
        BY <3>1, <3>4, <1>4
      <3> QED BY <3>1, <3>2, <3>3, <3>5, <1>4
    <2> QED BY <2>1, <2>2
  <1> QED BY <1>7, <1>8, <1>9, <1>10, <1>11 DEF LogInv

LEMMA EndingKeeps ==
    ASSUME IInv, LogInv, NEW s \in Session, Ending(s)
    PROVE  LogInv'
PROOF
  <1> USE DEF None
  <1>1. CASE AgentEndSkips(s)
    BY <1>1, LogFrame DEF AgentEndSkips, RunEnds, memVars, diskVars, netVars
  <1>2. CASE \E added : AgentEndEmpty(s, added)
    BY <1>2, EmptyKeeps DEF AgentEndEmpty, RunEnds, netVars
  <1>3. ASSUME NEW r \in Run, NEW ws, NEW added \in Appended(s, ws), AgentEndKeyFails(s, r, added)
        PROVE  LogInv'
    <2>1. /\ sessions[s] # None /\ Inject(s, added) /\ UNCHANGED events
          /\ UNCHANGED <<sessions, pendingAnchors, seal, anchor, blobs, ghosts>>
          /\ tally' = [tally EXCEPT !.runs = r] /\ r = tally.runs + 1
      BY <1>3 DEF AgentEndKeyFails, RunEnds, FreshRun, netVars
    <2>2. tally'.loggers = tally.loggers /\ tally'.runs = tally.runs + 1
      BY <2>1, LogTypes DEF IInv, Tally
    <2> QED BY <2>1, <2>2, InjectAdds, KeyFailsKeeps
  <1>4. ASSUME NEW r \in Run, NEW ws, NEW added \in Appended(s, ws), AgentEnd(s, r, added)
        PROVE  LogInv'
    <2>1. /\ sessions[s] # None /\ Inject(s, added) /\ UNCHANGED <<events, ghosts>>
          /\ TakeAndAnchor(s, r, "exec-log")
      BY <1>4 DEF AgentEnd, RunEnds
    <2>2. "exec-log" \in Prefix
      BY DEF Prefix
    <2> QED BY <2>1, <2>2, InjectAdds, TakeKeeps
  <1>5. CASE SessionEndEmpty(s)
    BY <1>5, EmptyKeeps DEF SessionEndEmpty, netVars, envVars
  <1>6. ASSUME NEW r \in Run, SessionEndKeyFails(s, r)
        PROVE  LogInv'
    <2>1. /\ sessions[s] # None /\ UNCHANGED <<events, entries>>
          /\ UNCHANGED <<sessions, pendingAnchors, seal, anchor, blobs, ghosts>>
          /\ tally' = [tally EXCEPT !.runs = r] /\ r = tally.runs + 1
      BY <1>6 DEF SessionEndKeyFails, FreshRun, memVars, netVars, envVars
    <2>2. tally'.loggers = tally.loggers /\ tally'.runs = tally.runs + 1
      BY <2>1, LogTypes DEF IInv, Tally
    <2>3. EntriesCaptured' /\ CapturedOnce'
      BY <2>1 DEF LogInv, EntriesCaptured, CapturedOnce
    <2> QED BY <2>1, <2>2, <2>3, KeyFailsKeeps
  <1>7. ASSUME NEW r \in Run, SessionEnd(s, r)
        PROVE  LogInv'
    <2>1. /\ sessions[s] # None /\ UNCHANGED <<events, entries, ghosts>>
          /\ TakeAndAnchor(s, r, "exec-log-orphan")
      BY <1>7 DEF SessionEnd, envVars
    <2>2. EntriesCaptured' /\ CapturedOnce'
      BY <2>1 DEF LogInv, EntriesCaptured, CapturedOnce
    <2>3. "exec-log-orphan" \in Prefix
      BY DEF Prefix
    <2> QED BY <2>1, <2>2, <2>3, TakeKeeps
  <1> QED BY <1>1, <1>2, <1>3, <1>4, <1>5, <1>6, <1>7 DEF Ending

-----------------------------------------------------------------------------
(* From the upload on, an anchor changes its own logger only, and takes it *)
(* from the registry only when its envelope is in storage.                 *)
LEMMA AnchoredKeeps ==
    ASSUME IInv, LogInv, NEW l \in Logger, anchor[l].pc # "idle",
           \A m \in Logger \ {l} : anchor'[m] = anchor[m] /\ seal'[m] = seal[m],
           anchor'[l].pc # "idle", anchor'[l].name = anchor[l].name,
           anchor'[l].key = anchor[l].key,
           \/ UNCHANGED pendingAnchors
           \/ /\ pendingAnchors' = [pendingAnchors EXCEPT ![anchor[l].name] = None]
              /\ <<l, anchor[l].key>> \in blobs,
           blobs \subseteq blobs', blobs' \subseteq blobs \cup {<<l, anchor[l].key>>},
           tally'.loggers = tally.loggers, tally'.runs = tally.runs,
           UNCHANGED <<sessions, entries, events, ghosts>>
    PROVE  LogInv'
PROOF
  <1> USE LogTypes DEF IInv, None
  <1>1. anchor[l].name \in Name /\ l # 0
    BY DEF KeyInv, AnchorsNamed
  <1>2. \A m \in Logger : /\ anchor'[m].pc # "idle" <=> anchor[m].pc # "idle"
                          /\ anchor'[m].name = anchor[m].name
                          /\ anchor'[m].key = anchor[m].key
    OBVIOUS
  <1>3. \A n \in Name : pendingAnchors'[n] \in {pendingAnchors[n], 0}
    BY <1>1
  <1>4. LoggersCounted'
    BY <1>2 DEF LogInv, LoggersCounted
  <1>5. BoundIdle'
    <2>1. \A s \in Session : sessions'[s] # 0 => anchor'[sessions'[s]].pc = "idle"
      BY <1>2 DEF LogInv, BoundIdle
    <2>2. \A s, t \in Session : sessions'[s] = sessions'[t] => s = t \/ sessions'[s] = 0
      BY DEF LogInv, BoundIdle
    <2>3. ASSUME NEW m \in Logger, anchor'[m].pc = "idle"
          PROVE  seal'[m] = "open"
      <3>1. m # l /\ anchor[m].pc = "idle"
        BY <2>3, <1>2
      <3> QED BY <3>1 DEF LogInv, BoundIdle
    <2> QED BY <2>1, <2>2, <2>3 DEF BoundIdle
  <1>6. RegistryNamed'
    <2>1. \A n \in Name : pendingAnchors'[n] # 0 =>
              /\ pendingAnchors'[n] = pendingAnchors[n] /\ pendingAnchors[n] \in Logger
              /\ anchor[pendingAnchors[n]].pc # "idle" /\ anchor[pendingAnchors[n]].name = n
      BY <1>3 DEF LogInv, RegistryNamed
    <2>2. \A n \in Name : pendingAnchors'[n] # 0 =>
              anchor'[pendingAnchors'[n]].pc # "idle" /\ anchor'[pendingAnchors'[n]].name = n
      BY <1>2, <2>1
    <2> QED BY <1>2, <2>2 DEF LogInv, RegistryNamed
  <1>7. BlobsAnchored'
    BY <1>2 DEF LogInv, BlobsAnchored
  <1>8. EntriesCaptured' /\ CapturedOnce'
    BY DEF LogInv, EntriesCaptured, CapturedOnce
  <1>9. NothingDropped'
    <2> SUFFICES ASSUME NEW m \in 1..tally.loggers \ ghosts.gone, entries[m] # {}
                 PROVE  \/ \E t \in Session : sessions[t] = m
                        \/ \E n \in Name : pendingAnchors'[n] = m
                        \/ <<m, anchor'[m].key>> \in blobs'
      BY DEF NothingDropped
    <2>1. m \in Logger
      OBVIOUS
    <2>2. \/ \E t \in Session : sessions[t] = m
          \/ \E n \in Name : pendingAnchors[n] = m
          \/ <<m, anchor'[m].key>> \in blobs'
      BY <1>2, <2>1 DEF LogInv, NothingDropped
    <2>3. ASSUME NEW n \in Name, pendingAnchors[n] = m, pendingAnchors'[n] # m
          PROVE  <<m, anchor'[m].key>> \in blobs'
      <3>1. n = anchor[l].name /\ <<l, anchor[l].key>> \in blobs
        BY <2>3, <1>1
      <3>2. anchor[m].pc # "idle" /\ anchor[m].name = n
        BY <2>3, <2>1 DEF LogInv, RegistryNamed
      <3>3. m = l
        BY <3>1, <3>2, <2>1 DEF LogInv, RegistryNamed
      <3> QED BY <3>1, <3>3
    <2> QED BY <2>2, <2>3
  <1> QED BY <1>4, <1>5, <1>6, <1>7, <1>8, <1>9 DEF LogInv

LEMMA UploadingKeeps ==
    ASSUME IInv, LogInv, NEW l \in Logger, Uploading(l)
    PROVE  LogInv'
PROOF
  <1> USE LogTypes DEF IInv
  <1>1. anchor[l].pc = "uploading"
    BY DEF Uploading, UploadSucceeds, UploadFails
  <1>2. PICK pc \in {"minting", "unflushed"} : anchor' = [anchor EXCEPT ![l].pc = pc]
    BY DEF Uploading, UploadSucceeds, UploadFails
  <1>3. \A m \in Logger \ {l} : seal'[m] = seal[m]
    BY DEF Uploading, UploadSucceeds, UploadFails
  <1>4. /\ anchor'[l].pc = pc /\ anchor'[l].name = anchor[l].name /\ anchor'[l].key = anchor[l].key
        /\ \A m \in Logger \ {l} : anchor'[m] = anchor[m]
    BY <1>2 DEF Anchor
  <1>5. UNCHANGED <<sessions, pendingAnchors, entries, blobs, events, tally, ghosts>>
    BY DEF Uploading, UploadSucceeds, UploadFails, netVars, envVars
  <1> QED BY <1>1, <1>3, <1>4, <1>5, AnchoredKeeps

LEMMA MintingKeeps ==
    ASSUME IInv, LogInv, NEW l \in Logger, Minting(l)
    PROVE  LogInv'
PROOF
  <1> USE LogTypes DEF IInv
  <1>1. anchor[l].pc = "minting" /\ <<l, anchor[l].key>> \in blobs
    BY DEF Minting, MintSucceeds, MintFails, KeyInv, BlobsBacked
  <1>2. PICK pc \in {"minted", "unminted"} : anchor' = [anchor EXCEPT ![l].pc = pc]
    BY DEF Minting, MintSucceeds, MintFails
  <1>3. /\ anchor'[l].pc = pc /\ anchor'[l].name = anchor[l].name /\ anchor'[l].key = anchor[l].key
        /\ \A m \in Logger \ {l} : anchor'[m] = anchor[m]
    BY <1>2 DEF Anchor
  <1>4. /\ UNCHANGED <<sessions, entries, seal, blobs, events, tally, ghosts>>
        /\ \/ UNCHANGED pendingAnchors
           \/ pendingAnchors' = [pendingAnchors EXCEPT ![anchor[l].name] = None]
    BY DEF Minting, MintSucceeds, MintFails, ForgetLogger, netVars, envVars
  <1> QED BY <1>1, <1>3, <1>4, AnchoredKeeps

LEMMA CommittingKeeps ==
    ASSUME IInv, LogInv, NEW l \in Logger, Committing(l)
    PROVE  LogInv'
PROOF
  <1> USE LogTypes DEF IInv
  <1>1. PICK pc \in {"done", "uncommitted"} : anchor[l].pc = "minted" /\ CommitReturns(l, pc)
    BY DEF Committing, CommitPending, CommitByPut, RetryFindsNothing, CommitThrows
  <1>2. <<l, anchor[l].key>> \in blobs
    BY <1>1 DEF KeyInv, BlobsBacked
  <1>3. anchor' = [anchor EXCEPT ![l].pc = pc]
    BY <1>1 DEF CommitReturns
  <1>4. /\ anchor'[l].pc = pc /\ anchor'[l].name = anchor[l].name /\ anchor'[l].key = anchor[l].key
        /\ \A m \in Logger \ {l} : anchor'[m] = anchor[m]
    BY <1>3 DEF Anchor
  <1>5. /\ UNCHANGED <<sessions, entries, seal, blobs, events, tally, ghosts>>
        /\ \/ UNCHANGED pendingAnchors
           \/ pendingAnchors' = [pendingAnchors EXCEPT ![anchor[l].name] = None]
    BY <1>1 DEF CommitReturns, netVars, envVars
  <1> QED BY <1>1, <1>2, <1>4, <1>5, AnchoredKeeps

LEMMA NetworkKeeps ==
    ASSUME IInv, LogInv, NEW l \in Logger, Network(l)
    PROVE  LogInv'
PROOF
  <1> USE LogTypes DEF IInv
  <1>1. anchor[l].pc # "idle"
    BY DEF Network, UploadLands, MintLands, KeyInv, AnchorsNamed
  <1>2. /\ \A m \in Logger \ {l} : anchor'[m] = anchor[m]
        /\ anchor'[l].pc = anchor[l].pc /\ anchor'[l].name = anchor[l].name
        /\ anchor'[l].key = anchor[l].key
    BY DEF Network, UploadLands, MintLands, memVars, Anchor
  <1>3. /\ UNCHANGED <<sessions, pendingAnchors, entries, seal, events, tally, ghosts>>
        /\ blobs' \in {blobs, blobs \cup {<<l, anchor[l].key>>}}
    BY DEF Network, UploadLands, MintLands, memVars, envVars
  <1> QED BY <1>1, <1>2, <1>3, AnchoredKeeps

LEMMA OperatingKeeps ==
    ASSUME IInv, LogInv, NEW l \in Logger, Operating(l)
    PROVE  LogInv'
PROOF
  <1> USE LogTypes DEF IInv
  <1>1. PICK pc \in {"uploading", "minting", "minted"} : OperatorStarts(l, pc)
    BY DEF Operating, RetryFlush, RetryMint, RetryCommit
  <1>2. anchor[l].pc # "idle" /\ \A m \in Logger \ {l} : seal'[m] = seal[m]
    BY DEF Operating, RetryFlush, RetryMint, RetryCommit
  <1>3. anchor' = [anchor EXCEPT ![l].pc = pc, ![l].by = "operator"]
    BY <1>1 DEF OperatorStarts
  <1>4. /\ anchor'[l].pc = pc /\ anchor'[l].name = anchor[l].name /\ anchor'[l].key = anchor[l].key
        /\ \A m \in Logger \ {l} : anchor'[m] = anchor[m]
    BY <1>3 DEF Anchor
  <1>5. /\ UNCHANGED <<sessions, pendingAnchors, entries, blobs, events, ghosts>>
        /\ tally'.loggers = tally.loggers /\ tally'.runs = tally.runs
    BY <1>1 DEF OperatorStarts, envVars, Tally
  <1> QED BY <1>2, <1>4, <1>5, AnchoredKeeps

-----------------------------------------------------------------------------
(* A crash takes every logger with it; what was anchored keeps its name.   *)
LEMMA CrashKeeps ==
    ASSUME IInv, LogInv, Crash
    PROVE  LogInv'
PROOF
  <1> USE LogTypes DEF IInv, None
  <1>1. \A l \in Logger : /\ anchor'[l].pc # "idle" <=> anchor[l].pc # "idle"
                          /\ anchor'[l].name = anchor[l].name
    BY DEF Crash, Anchor, InFlight
  <1>2. /\ tally'.loggers = tally.loggers /\ tally'.runs = tally.runs
        /\ ghosts'.gone = 1..tally.loggers
    BY DEF Crash, Tally, TypeOK, EnvTypeOK, Ghosts
  <1>3. /\ \A s \in Session : sessions'[s] = 0
        /\ \A n \in Name : pendingAnchors'[n] = 0
        /\ UNCHANGED <<entries, seal, blobs, events>>
    BY DEF Crash, netVars
  <1>4. LoggersCounted' /\ BoundIdle' /\ RegistryNamed' /\ BlobsAnchored'
    <2>1. LoggersCounted'
      BY <1>1, <1>2, <1>3 DEF LogInv, LoggersCounted
    <2>2. BoundIdle'
      BY <1>1, <1>3 DEF LogInv, BoundIdle
    <2>3. RegistryNamed'
      BY <1>1, <1>2, <1>3 DEF LogInv, RegistryNamed
    <2>4. BlobsAnchored'
      BY <1>1, <1>3 DEF LogInv, BlobsAnchored
    <2> QED BY <2>1, <2>2, <2>3, <2>4
  <1>5. EntriesCaptured' /\ CapturedOnce'
    BY <1>3 DEF LogInv, EntriesCaptured, CapturedOnce
  <1>6. NothingDropped'
    BY <1>2 DEF NothingDropped
  <1> QED BY <1>4, <1>5, <1>6 DEF LogInv

LEMMA CapturingKeeps ==
    ASSUME IInv, LogInv, NEW s \in Session, Capturing(s)
    PROVE  LogInv'
PROOF
  <1>1. CASE Capture(s)
    BY <1>1, CaptureKeeps
  <1>2. CASE BeforeAgentFinalize(s)
    BY <1>2, LogFrame DEF BeforeAgentFinalize, diskVars, netVars, envVars
  <1>3. CASE CliToolCall(s)
    <2> USE LogTypes DEF IInv
    <2>1. /\ events' = Append(events, [session |-> s, at |-> clock, via |-> "transcript"])
          /\ UNCHANGED <<sessions, pendingAnchors, entries, seal, anchor, blobs, tally, ghosts>>
      BY <1>3 DEF CliToolCall, memVars, netVars
    <2>2. /\ DOMAIN events = 1..Len(events) /\ DOMAIN events' = 1..(Len(events) + 1)
          /\ Len(events) \in Nat
          /\ \A j \in DOMAIN events : events'[j] = events[j]
          /\ events'[Len(events) + 1].via = "transcript"
      BY <2>1
    <2>3. DOMAIN events \subseteq DOMAIN events'
      BY <2>2
    <2>4. \A j \in DOMAIN events' : events'[j].via = "hook" => j \in DOMAIN events /\ events[j].via = "hook"
      BY <2>2
    <2>5. EntriesCaptured' /\ CapturedOnce'
      BY <2>1, <2>3, <2>4 DEF LogInv, EntriesCaptured, CapturedOnce
    <2>6. LoggersCounted' /\ BoundIdle' /\ RegistryNamed' /\ BlobsAnchored' /\ NothingDropped'
      BY <2>1 DEF LogInv, LoggersCounted, BoundIdle, RegistryNamed, BlobsAnchored, NothingDropped
    <2> QED BY <2>5, <2>6 DEF LogInv
  <1> QED BY <1>1, <1>2, <1>3 DEF Capturing, MessageReceived, BeforePromptBuild, AfterToolCall,
                                  LlmOutput

LEMMA LogNext == IInv /\ LogInv /\ [Next]_vars => LogInv'
PROOF
  <1> SUFFICES ASSUME IInv, LogInv, [Next]_vars
               PROVE  LogInv'
    OBVIOUS
  <1>1. CASE Tick
    BY <1>1, LogFrame DEF Tick, memVars, netVars
  <1>2. CASE UNCHANGED vars
    BY <1>2, LogFrame DEF vars, memVars, netVars, envVars
  <1>3. ASSUME NEW n \in Name, WipePending(n)
        PROVE  LogInv'
    <2>1. ghosts'.gone = ghosts.gone
      BY <1>3 DEF WipePending, IInv, TypeOK, EnvTypeOK, Ghosts
    <2> QED BY <1>3, <2>1, LogFrame DEF WipePending, memVars, netVars, envVars
  <1> QED BY <1>1, <1>2, <1>3, CapturingKeeps, EndingKeeps, UploadingKeeps, MintingKeeps,
             CommittingKeeps, NetworkKeeps, OperatingKeeps, CrashKeeps DEF Next

LEMMA LogInvariance == Spec => [](IInv /\ LogInv)
PROOF
  <1>1. Init => IInv /\ LogInv
    BY InitIInv, LogInit
  <1>2. IInv /\ LogInv /\ [Next]_vars => (IInv /\ LogInv)'
    BY NextIInv, LogNext
  <1> QED BY <1>1, <1>2, PTL DEF Spec

(* No failure of setPending, upload, mint or commit, in whatever order,    *)
(* drops the only copy of a log while the process lives.                   *)
THEOREM NoLogIsDropped == Spec => []NothingDropped
PROOF
  <1>1. LogInv => NothingDropped
    BY DEF LogInv
  <1> QED BY <1>1, LogInvariance, PTL

(* Whatever hooks fire during agent_end and session_end, what one captured *)
(* is in one log and in no other.                                          *)
THEOREM EventsAreCapturedOnce == Spec => []CapturedOnce
PROOF
  <1>1. LogInv => CapturedOnce
    BY DEF LogInv
  <1> QED BY <1>1, LogInvariance, PTL

-----------------------------------------------------------------------------
(* Only a logger that is bound to a session or new is ever written to, and *)
(* neither was anchored.                                                   *)
LEMMA OnlyIdleGrow ==
    ASSUME IInv, LogInv, [Next]_vars, NEW l \in Logger, anchor[l].pc # "idle"
    PROVE  entries'[l] = entries[l]
PROOF
  <1> USE LogTypes DEF IInv, None
  <1>1. ASSUME NEW s \in Session, Capture(s)
        PROVE  entries'[l] = entries[l]
    BY <1>1, CaptureFinds
  <1>2. ASSUME NEW s \in Session, NEW added, sessions[s] # None, Inject(s, added)
        PROVE  entries'[l] = entries[l]
    <2>1. sessions[s] # l
      BY <1>2 DEF LogInv, BoundIdle
    <2> QED BY <1>2, <2>1 DEF Inject
  <1>4. ASSUME NEW s \in Session, Capturing(s)
        PROVE  entries'[l] = entries[l]
    BY <1>1, <1>4 DEF Capturing, MessageReceived, BeforePromptBuild, AfterToolCall, LlmOutput,
                      BeforeAgentFinalize, CliToolCall, memVars
  <1>5. ASSUME NEW s \in Session, Ending(s)
        PROVE  entries'[l] = entries[l]
    BY <1>2, <1>5 DEF Ending, AgentEndSkips, AgentEndEmpty, AgentEndKeyFails, AgentEnd,
                            SessionEndEmpty, SessionEndKeyFails, SessionEnd, memVars
  <1>6. ASSUME NEW m \in Logger, Uploading(m) \/ Minting(m) \/ Committing(m) \/ Network(m) \/ Operating(m)
        PROVE  entries'[l] = entries[l]
    BY <1>6 DEF Uploading, UploadSucceeds, UploadFails, Minting, MintSucceeds, MintFails,
                Committing, CommitPending, CommitByPut, RetryFindsNothing, CommitThrows,
                CommitReturns, Network, UploadLands, MintLands, Operating, RetryFlush, RetryMint,
                RetryCommit, OperatorStarts, memVars
  <1>7. CASE Crash \/ Tick \/ UNCHANGED vars \/ \E n \in Name : WipePending(n)
    BY <1>7 DEF Crash, Tick, WipePending, vars, memVars
  <1> QED BY <1>4, <1>5, <1>6, <1>7 DEF Next

(* An upload that lands after its deadline, a crash or a retry: the log    *)
(* its envelope describes does not change any more.                        *)
THEOREM StoredLogsAreFrozen == Spec => StoredLogFrozen
PROOF
  <1>1. IInv /\ LogInv /\ [Next]_vars => [\A b \in blobs : entries'[b[1]] = entries[b[1]]]_vars
    <2> SUFFICES ASSUME IInv, LogInv, [Next]_vars, NEW b \in blobs
                 PROVE  entries'[b[1]] = entries[b[1]]
      OBVIOUS
    <2>1. b \in Logger \X Key
      BY DEF IInv, TypeOK, NetTypeOK
    <2>2. b[1] \in Logger /\ anchor[b[1]].pc # "idle"
      BY <2>1 DEF LogInv, BlobsAnchored
    <2> QED BY <2>2, OnlyIdleGrow
  <1> QED BY <1>1, LogInvariance, PTL DEF Spec, StoredLogFrozen

-----------------------------------------------------------------------------
(***************************************************************************)
(* One mint per log, as long as nobody recovers by hand.                   *)
(***************************************************************************)

(* A mint is requested after the flush succeeded, and not again.           *)
Minted(l) == \E t \in DOMAIN chain : chain[t].log = l
MintedOnce ==
    /\ \A l \in Logger : Minted(l) \/ wire[l] = "mint" =>
          anchor[l].pc \in {"minting", "unminted", "minted", "uncommitted", "done", "lost"}
    /\ \A l \in Logger : wire[l] = "mint" => ~Minted(l)
    /\ OneReceiptPerLog

LEMMA MintedInit == Init => MintedOnce
BY DEF Init, MintedOnce, Minted, OneReceiptPerLog

(* Steps that ask for no mint and move no anchor back before its upload.   *)
LEMMA MintedFrame ==
    ASSUME MintedOnce, UNCHANGED chain,
           \A l \in Logger : wire'[l] = "mint" => wire[l] = "mint",
           \A l \in Logger :
               anchor[l].pc \in {"minting", "unminted", "minted", "uncommitted", "done", "lost"}
                 => anchor'[l].pc \in {"minting", "unminted", "minted", "uncommitted", "done", "lost"}
    PROVE  MintedOnce'
BY DEF MintedOnce, Minted, OneReceiptPerLog

LEMMA MintLandsOnce ==
    ASSUME IInv, MintedOnce, NEW l \in Logger, MintLands(l)
    PROVE  MintedOnce'
PROOF
  <1> USE LogTypes DEF IInv
  <1> DEFINE receipt == [log |-> l, key |-> anchor[l].key, prefix |-> anchor[l].prefix]
  <1>1. /\ wire[l] = "mint" /\ wire' = [wire EXCEPT ![l] = "none"]
        /\ chain' = Append(chain, receipt)
        /\ \A m \in Logger : anchor'[m].pc = anchor[m].pc
    BY DEF MintLands, Anchor
  <1>2. /\ wire \in [Logger -> {"none", "upload", "mint"}] /\ chain \in Seq(Receipt)
    BY DEF TypeOK, NetTypeOK
  <1>3. receipt \in Receipt /\ receipt.log = l
    BY DEF Receipt, KeyInv, AnchorsNamed, TypeOK, NetTypeOK, MemTypeOK, Anchor, MintLands
  <1>4. ~Minted(l)
    BY <1>1 DEF MintedOnce
  <1> HIDE DEF receipt
  <1>5. /\ DOMAIN chain = 1..Len(chain) /\ DOMAIN chain' = 1..(Len(chain) + 1) /\ Len(chain) \in Nat
        /\ \A t \in DOMAIN chain : chain'[t] = chain[t]
        /\ chain'[Len(chain) + 1] = receipt
    BY <1>1, <1>2, <1>3
  <1>6. \A t \in DOMAIN chain' : chain'[t].log = l => t = Len(chain) + 1
    BY <1>4, <1>5 DEF Minted
  <1>7. \A m \in Logger \ {l} : Minted(m)' => Minted(m)
    BY <1>3, <1>5 DEF Minted
  <1>8. OneReceiptPerLog'
    <2> SUFFICES ASSUME NEW t \in DOMAIN chain', NEW u \in DOMAIN chain', chain'[t].log = chain'[u].log
                 PROVE  t = u
      BY DEF OneReceiptPerLog
    <2>1. CASE chain'[t].log = l
      BY <2>1, <1>6
    <2>2. CASE chain'[t].log # l
      <3>1. t \in DOMAIN chain /\ u \in DOMAIN chain
        BY <2>2, <1>3, <1>5
      <3> QED BY <3>1, <1>5 DEF MintedOnce, OneReceiptPerLog
    <2> QED BY <2>1, <2>2
  <1>9. \A m \in Logger : wire'[m] = "mint" => m # l /\ wire[m] = "mint"
    BY <1>1, <1>2
  <1>10. \A m \in Logger : Minted(m)' \/ wire'[m] = "mint" =>
            anchor'[m].pc \in {"minting", "unminted", "minted", "uncommitted", "done", "lost"}
    BY <1>1, <1>7, <1>9 DEF MintedOnce
  <1>11. \A m \in Logger : wire'[m] = "mint" => ~Minted(m)'
    BY <1>7, <1>9 DEF MintedOnce
  <1> QED BY <1>8, <1>10, <1>11 DEF MintedOnce

LEMMA UploadSucceedsOnce ==
    ASSUME IInv, MintedOnce, NEW l \in Logger, UploadSucceeds(l)
    PROVE  MintedOnce'
PROOF
  <1> USE LogTypes DEF IInv
  <1>1. /\ anchor[l].pc = "uploading" /\ UNCHANGED chain
        /\ wire' = [wire EXCEPT ![l] = "mint"]
        /\ anchor'[l].pc = "minting" /\ \A m \in Logger \ {l} : anchor'[m] = anchor[m]
    BY DEF UploadSucceeds, Anchor
  <1>2. wire \in [Logger -> {"none", "upload", "mint"}]
    BY DEF TypeOK, NetTypeOK
  <1>3. ~Minted(l)
    BY <1>1 DEF MintedOnce
  <1> QED BY <1>1, <1>2, <1>3 DEF MintedOnce, Minted, OneReceiptPerLog

LEMMA MintedNext ==
    ASSUME MaxRetries = 0, IInv, LogInv, MintedOnce, [Next]_vars
    PROVE  MintedOnce'
PROOF
  <1> USE LogTypes DEF IInv
  <1> DEFINE Late == {"minting", "unminted", "minted", "uncommitted", "done", "lost"}
  <1>0. wire \in [Logger -> {"none", "upload", "mint"}]
    BY DEF TypeOK, NetTypeOK
  <1>1. ASSUME NEW s \in Session, NEW r \in Run, NEW prefix \in Prefix, sessions[s] # None,
               TakeAndAnchor(s, r, prefix)
        PROVE  MintedOnce'
    <2>1. sessions[s] \in Logger /\ anchor[sessions[s]].pc = "idle"
      BY <1>1 DEF LogInv, BoundIdle, None
    <2>2. /\ UNCHANGED chain /\ wire' = [wire EXCEPT ![sessions[s]] = "upload"]
          /\ \A l \in Logger \ {sessions[s]} : anchor'[l] = anchor[l]
      BY <1>1 DEF TakeAndAnchor
    <2>3. \A l \in Logger : wire'[l] = "mint" => wire[l] = "mint"
      BY <2>1, <2>2, <1>0
    <2>4. \A l \in Logger : anchor[l].pc \in Late => anchor'[l].pc \in Late
      BY <2>1, <2>2
    <2> QED BY <2>2, <2>3, <2>4, MintedFrame
  <1>2. ASSUME UNCHANGED <<anchor, wire, chain>>
        PROVE  MintedOnce'
    BY <1>2, MintedFrame
  <1>3. ASSUME NEW s \in Session, Capturing(s)
        PROVE  MintedOnce'
    BY <1>2, <1>3 DEF Capturing, MessageReceived, BeforePromptBuild, AfterToolCall, LlmOutput,
                      BeforeAgentFinalize, CliToolCall, Capture, memVars, netVars
  <1>4. ASSUME NEW s \in Session, Ending(s)
        PROVE  MintedOnce'
    <2>1. CASE \/ AgentEndSkips(s) \/ SessionEndEmpty(s)
               \/ \E added : AgentEndEmpty(s, added)
               \/ \E added : \E r \in Run : AgentEndKeyFails(s, r, added)
               \/ \E r \in Run : SessionEndKeyFails(s, r)
      BY <1>2, <2>1 DEF AgentEndSkips, AgentEndEmpty, AgentEndKeyFails, SessionEndEmpty,
                        SessionEndKeyFails, memVars, netVars
    <2>2. CASE \/ \E added : \E r \in Run : AgentEnd(s, r, added)
               \/ \E r \in Run : SessionEnd(s, r)
      BY <1>1, <2>2 DEF AgentEnd, SessionEnd, Prefix
    <2> QED BY <1>4, <2>1, <2>2 DEF Ending
  <1>5. ASSUME NEW l \in Logger, Uploading(l)
        PROVE  MintedOnce'
    <2>1. CASE UploadFails(l)
      <3>1. anchor[l].pc = "uploading" /\ UNCHANGED netVars
        BY <2>1 DEF UploadFails
      <3>2. \A m \in Logger \ {l} : anchor'[m] = anchor[m]
        BY <2>1 DEF UploadFails
      <3>3. \A m \in Logger : anchor[m].pc \in Late => anchor'[m].pc \in Late
        BY <3>1, <3>2
      <3> QED BY <3>1, <3>3, MintedFrame DEF netVars
    <2> QED BY <2>1, <1>5, UploadSucceedsOnce DEF Uploading
  <1>6. ASSUME NEW l \in Logger, Minting(l) \/ Committing(l)
        PROVE  MintedOnce'
    <2>1. UNCHANGED netVars
      BY <1>6 DEF Minting, MintSucceeds, MintFails, Committing, CommitPending, CommitByPut,
                  RetryFindsNothing, CommitThrows, CommitReturns
    <2>2. PICK pc \in Late : anchor' = [anchor EXCEPT ![l].pc = pc]
      BY <1>6 DEF Minting, MintSucceeds, MintFails, Committing, CommitPending, CommitByPut,
                  RetryFindsNothing, CommitThrows, CommitReturns
    <2>3. \A m \in Logger : anchor[m].pc \in Late => anchor'[m].pc \in Late
      BY <2>2 DEF Anchor
    <2> QED BY <2>1, <2>3, MintedFrame DEF netVars
  <1>7. ASSUME NEW l \in Logger, Network(l)
        PROVE  MintedOnce'
    <2>1. CASE UploadLands(l)
      <3>1. /\ UNCHANGED <<anchor, chain>> /\ wire' = [wire EXCEPT ![l] = "none"]
        BY <2>1 DEF UploadLands, memVars
      <3>2. \A m \in Logger : wire'[m] = "mint" => wire[m] = "mint"
        BY <3>1, <1>0
      <3> QED BY <3>1, <3>2, MintedFrame
    <2> QED BY <2>1, <1>7, MintLandsOnce DEF Network
  <1>8. ASSUME NEW l \in Logger, Operating(l)
        PROVE  FALSE
    <2>1. tally.retries < MaxRetries
      BY <1>8 DEF Operating, RetryFlush, RetryMint, RetryCommit, OperatorStarts
    <2>2. tally.retries \in 0..MaxRetries
      BY DEF Tally
    <2> QED BY <2>1, <2>2
  <1>9. CASE Crash
    <2>1. UNCHANGED netVars
      BY <1>9 DEF Crash
    <2>2. \A l \in Logger : anchor[l].pc \in Late => anchor'[l].pc \in Late
      BY <1>9 DEF Crash, Anchor
    <2> QED BY <2>1, <2>2, MintedFrame DEF netVars
  <1>10. CASE Tick \/ UNCHANGED vars \/ \E n \in Name : WipePending(n)
    BY <1>2, <1>10 DEF Tick, WipePending, vars, memVars, netVars
  <1> QED BY <1>3, <1>4, <1>5, <1>6, <1>7, <1>8, <1>9, <1>10 DEF Next

(* Without a recovery by hand no crash, late answer or failed commit makes *)
(* the plugin mint two tokens for one log.                                 *)
THEOREM OneReceiptWithoutRetries ==
    ASSUME MaxRetries = 0
    PROVE  Spec => []OneReceiptPerLog
PROOF
  <1>1. IInv /\ LogInv /\ MintedOnce /\ [Next]_vars => MintedOnce'
    BY MintedNext
  <1>2. MintedOnce => OneReceiptPerLog
    BY DEF MintedOnce
  <1> QED BY <1>1, <1>2, MintedInit, LogInvariance, PTL DEF Spec

-----------------------------------------------------------------------------
(***************************************************************************)
(* What of the transcript ends up in which log.                            *)
(***************************************************************************)

(* One session, whose user waits for each receipt, whose runs all begin    *)
(* with a message, and which is not closed under a run.                    *)
OneQuietChat ==
    /\ \A s, t \in Session : s = t
    /\ Quirks \cap {"queue", "overlap", "heartbeat", "close"} = {}

(* A run of s is under way, or a message waits for it.                     *)
Expected(s) == runFrom[s] # NotRunning \/ inbox[s]

EventsPast ==
    /\ \A i \in DOMAIN events : events[i].at <= clock
    /\ \A s \in Session : runFrom[s] <= Len(events)

InboxIdle == \A s \in Session : inbox[s] => runFrom[s] = NotRunning

(* A run that is expected has its start, and no handler that will clear it *)
(* on return.                                                              *)
RunsStamped ==
    \A s \in Session : Expected(s) =>
        /\ runMetadata[s].start # NoMeta.start /\ runMetadata[s].start <= clock
        /\ \A l \in Logger : anchor[l].pc \in InFlight /\ anchor[l].by = "hook"
                                => anchor[l].name[1] # s

(* The start tells the tool calls of the run from those of earlier ones.   *)
EarlierExcluded ==
    \A s \in Session : Expected(s) => \A i \in Transcript(s) :
        runFrom[s] = NotRunning \/ i <= runFrom[s] =>
            events[i].at + Slack < runMetadata[s].start

ThisRunUnlogged ==
    \A s \in Session : runFrom[s] # NotRunning => \A i \in Transcript(s) :
        i > runFrom[s] =>
            /\ events[i].at >= runMetadata[s].start
            /\ \A l \in Logger : i \notin entries[l]

TranscriptInv ==
    /\ EventsPast
    /\ InboxIdle
    /\ RunsStamped
    /\ EarlierExcluded
    /\ ThisRunUnlogged
    /\ TranscriptOnce

LEMMA TranscriptInit == Init => TranscriptInv
BY DEF Init, TranscriptInv, EventsPast, InboxIdle, RunsStamped, EarlierExcluded, ThisRunUnlogged,
       TranscriptOnce, Expected, NotRunning

LEMMA TranscriptTypes ==
    ASSUME TypeOK
    PROVE  /\ runMetadata \in [Session -> [start : -1..MaxClock, pinned : BOOLEAN]]
           /\ runFrom \in [Session -> -1..MaxEvents] /\ inbox \in [Session -> BOOLEAN]
           /\ clock \in Nat /\ Slack \in Nat
           /\ \A s \in Session : runMetadata[s].start \in Int /\ runFrom[s] \in Int
           /\ \A i \in DOMAIN events : i \in Nat /\ events[i] \in EventRec /\ events[i].at \in Nat
           /\ Len(events) \in Nat /\ DOMAIN events = 1..Len(events)
           /\ \A s \in Session : Transcript(s) \subseteq DOMAIN events
PROOF
  <1>1. /\ runMetadata \in [Session -> [start : -1..MaxClock, pinned : BOOLEAN]]
        /\ runFrom \in [Session -> -1..MaxEvents] /\ inbox \in [Session -> BOOLEAN]
        /\ clock \in 0..MaxClock /\ events \in Seq(EventRec)
    BY DEF TypeOK, MemTypeOK, EnvTypeOK
  <1>2. Len(events) \in Nat /\ DOMAIN events = 1..Len(events)
    BY <1>1
  <1>3. \A i \in DOMAIN events : i \in Nat /\ events[i] \in EventRec
    BY <1>1, <1>2
  <1>4. \A e \in EventRec : e.at \in Nat
    BY DEF EventRec
  <1>5. \A s \in Session : runMetadata[s].start \in Int /\ runFrom[s] \in Int
    BY <1>1
  <1>6. \A s \in Session : Transcript(s) \subseteq DOMAIN events
    BY DEF Transcript
  <1> QED BY <1>1, <1>2, <1>3, <1>4, <1>5, <1>6, BoundsAssumption

(* Steps that capture nothing, and start or end no run.                    *)
LEMMA TranscriptFrame ==
    ASSUME TypeOK, TranscriptInv, UNCHANGED <<events, entries, runFrom, inbox>>,
           clock' \in Nat, clock <= clock',
           \A s \in Session : Expected(s) => runMetadata'[s] = runMetadata[s],
           \A l \in Logger : anchor'[l].pc \in InFlight /\ anchor'[l].by = "hook" =>
               anchor[l].pc \in InFlight /\ anchor[l].by = "hook" /\ anchor'[l].name = anchor[l].name
    PROVE  TranscriptInv'
PROOF
  <1> USE TranscriptTypes
  <1>1. EventsPast' /\ InboxIdle' /\ TranscriptOnce'
    BY DEF TranscriptInv, EventsPast, InboxIdle, TranscriptOnce
  <1>2. /\ \A s \in Session : Expected(s)' <=> Expected(s)
        /\ \A s \in Session : Transcript(s)' = Transcript(s)
        /\ \A s \in Session : runFrom[s] # NotRunning => Expected(s)
    BY DEF Expected, Transcript
  <1>3. RunsStamped'
    <2> SUFFICES ASSUME NEW s \in Session, Expected(s)
                 PROVE  /\ runMetadata'[s].start # NoMeta.start /\ runMetadata'[s].start <= clock'
                        /\ \A l \in Logger : anchor'[l].pc \in InFlight /\ anchor'[l].by = "hook"
                                                => anchor'[l].name[1] # s
      BY <1>2 DEF RunsStamped
    <2>1. runMetadata[s].start # NoMeta.start /\ runMetadata[s].start <= clock
      BY DEF TranscriptInv, RunsStamped
    <2>2. runMetadata'[s].start # NoMeta.start /\ runMetadata'[s].start <= clock'
      BY <2>1
    <2>3. \A l \in Logger : anchor[l].pc \in InFlight /\ anchor[l].by = "hook"
                             => anchor[l].name[1] # s
      BY DEF TranscriptInv, RunsStamped
    <2> QED BY <2>2, <2>3
  <1>4. EarlierExcluded'
    BY <1>2 DEF TranscriptInv, EarlierExcluded
  <1>5. ThisRunUnlogged'
    BY <1>2 DEF TranscriptInv, ThisRunUnlogged
  <1> QED BY <1>1, <1>3, <1>4, <1>5 DEF TranscriptInv

(* A hook appends no tool call of the transcript, and no log gets one.     *)
LEMMA CaptureLeavesTranscript ==
    ASSUME IInv, LogInv, TranscriptInv, NEW s \in Session, Capture(s)
    PROVE  /\ \A t \in Session : Transcript(t)' = Transcript(t)
           /\ \A i \in DOMAIN events : /\ i \in DOMAIN events' /\ events'[i] = events[i]
                                       /\ \A l \in Logger : i \in entries'[l] <=> i \in entries[l]
           /\ Len(events)' \in Nat /\ Len(events) <= Len(events)'
           /\ \A i \in DOMAIN events' : events'[i].at <= clock
           /\ TranscriptOnce'
           /\ UNCHANGED <<anchor, clock>>
PROOF
  <1> USE LogTypes, TranscriptTypes DEF IInv
  <1>1. UNCHANGED <<anchor, clock>>
    BY DEF Capture
  <1>2. CASE UNCHANGED <<events, entries>>
    BY <1>1, <1>2 DEF TranscriptInv, EventsPast, TranscriptOnce, Transcript
  <1>3. CASE ~UNCHANGED <<events, entries>>
    <2>1. PICK l \in Logger :
              /\ events' = Append(events, [session |-> s, at |-> clock, via |-> "hook"])
              /\ entries' = [entries EXCEPT ![l] = @ \cup {Len(events) + 1}]
      BY <1>3, CaptureFinds
    <2>2. /\ DOMAIN events' = 1..(Len(events) + 1) /\ Len(events)' = Len(events) + 1
          /\ \A i \in DOMAIN events : i \in DOMAIN events' /\ events'[i] = events[i]
          /\ events'[Len(events) + 1] = [session |-> s, at |-> clock, via |-> "hook"]
      BY <2>1
    <2>3. \A i \in DOMAIN events' : i \in DOMAIN events \/ events'[i] = [session |-> s, at |-> clock, via |-> "hook"]
      BY <2>2
    <2>4. \A i \in DOMAIN events : i # Len(events) + 1
      OBVIOUS
    <2>5. \A m \in Logger : entries'[m] = entries[m] \/ entries'[m] = entries[m] \cup {Len(events) + 1}
      BY <2>1
    <2>6. \A i \in DOMAIN events : \A m \in Logger : i \in entries'[m] <=> i \in entries[m]
      BY <2>1, <2>4, <2>5
    <2>7. \A t \in Session : Transcript(t)' = Transcript(t)
      BY <2>2, <2>3 DEF Transcript
    <2>8. \A i \in DOMAIN events' : events'[i].at <= clock
      BY <2>2, <2>3 DEF TranscriptInv, EventsPast
    <2>9. TranscriptOnce'
      <3> SUFFICES ASSUME NEW i \in DOMAIN events', events'[i].via = "transcript",
                          NEW l1 \in Logger, NEW l2 \in Logger, i \in entries'[l1], i \in entries'[l2]
                   PROVE  l1 = l2
        BY DEF TranscriptOnce
      <3>1. i \in DOMAIN events /\ events[i].via = "transcript"
        BY <2>2, <2>3
      <3>2. i \in entries[l1] /\ i \in entries[l2]
        BY <3>1, <2>6
      <3> QED BY <3>1, <3>2 DEF TranscriptInv, TranscriptOnce
    <2> QED BY <1>1, <2>2, <2>6, <2>7, <2>8, <2>9
  <1> QED BY <1>2, <1>3

LEMMA MessageKeeps ==
    ASSUME OneQuietChat, IInv, LogInv, TranscriptInv, NEW s \in Session, MessageReceived(s)
    PROVE  TranscriptInv'
PROOF
  <1> USE LogTypes, TranscriptTypes, CaptureLeavesTranscript DEF IInv
  <1>1. Capture(s) /\ MayMessage(s) /\ UNCHANGED runFrom
    BY DEF MessageReceived
  <1>2. \A t \in Session : t = s
    BY DEF OneQuietChat
  <1>3. /\ runFrom[s] = NotRunning
        /\ \A l \in Logger : anchor[l].pc \in InFlight => anchor[l].name[1] # s
        /\ \A i \in Transcript(s) : events[i].at + Slack < clock
    BY DEF MessageReceived, MayMessage, OneQuietChat
  <1>4. runMetadata'[s].start = clock /\ inbox'[s]
    BY DEF MessageReceived
  <1>5. EventsPast'
    BY <1>1 DEF TranscriptInv, EventsPast
  <1>6. InboxIdle' /\ ThisRunUnlogged'
    BY <1>1, <1>2, <1>3 DEF InboxIdle, ThisRunUnlogged
  <1>7. RunsStamped'
    BY <1>1, <1>2, <1>3, <1>4 DEF RunsStamped, NoMeta
  <1>8. EarlierExcluded'
    BY <1>1, <1>2, <1>3, <1>4 DEF EarlierExcluded
  <1> QED BY <1>1, <1>5, <1>6, <1>7, <1>8 DEF TranscriptInv

LEMMA PromptKeeps ==
    ASSUME OneQuietChat, IInv, LogInv, TranscriptInv, NEW s \in Session, BeforePromptBuild(s)
    PROVE  TranscriptInv'
PROOF
  <1> USE LogTypes, TranscriptTypes, CaptureLeavesTranscript DEF IInv
  <1>1. Capture(s) /\ runFrom[s] = NotRunning /\ UNCHANGED runMetadata
    BY DEF BeforePromptBuild
  <1>2. \A t \in Session : t = s
    BY DEF OneQuietChat
  <1>3. inbox[s] /\ Expected(s)
    BY DEF BeforePromptBuild, OneQuietChat, Expected
  <1>4. runFrom'[s] = Len(events) /\ ~inbox'[s]
    BY DEF BeforePromptBuild
  <1>5. \A i \in Transcript(s)' : i \in DOMAIN events /\ i <= Len(events)
    BY <1>1
  <1>6. EventsPast'
    BY <1>1, <1>2, <1>4 DEF EventsPast
  <1>7. InboxIdle' /\ ThisRunUnlogged'
    BY <1>1, <1>2, <1>4, <1>5 DEF InboxIdle, ThisRunUnlogged
  <1>8. RunsStamped'
    BY <1>1, <1>2, <1>3 DEF RunsStamped, TranscriptInv
  <1>9. EarlierExcluded'
    BY <1>1, <1>2, <1>3, <1>5 DEF EarlierExcluded, TranscriptInv
  <1> QED BY <1>1, <1>6, <1>7, <1>8, <1>9 DEF TranscriptInv

LEMMA HookKeeps ==
    ASSUME IInv, LogInv, TranscriptInv, NEW s \in Session, AfterToolCall(s) \/ LlmOutput(s)
    PROVE  TranscriptInv'
PROOF
  <1> USE LogTypes, TranscriptTypes, CaptureLeavesTranscript DEF IInv
  <1>1. Capture(s) /\ UNCHANGED <<runMetadata, runFrom, inbox>>
    BY DEF AfterToolCall, LlmOutput
  <1>2. \A t \in Session : Expected(t)' <=> Expected(t)
    BY <1>1 DEF Expected
  <1>3. EventsPast' /\ InboxIdle'
    BY <1>1 DEF EventsPast, InboxIdle, TranscriptInv
  <1>4. RunsStamped'
    BY <1>1, <1>2 DEF RunsStamped, TranscriptInv
  <1>5. EarlierExcluded'
    BY <1>1, <1>2 DEF EarlierExcluded, TranscriptInv
  <1>6. ThisRunUnlogged'
    BY <1>1 DEF ThisRunUnlogged, TranscriptInv
  <1> QED BY <1>1, <1>3, <1>4, <1>5, <1>6 DEF TranscriptInv

(* The start of the run is there already, and stays.                       *)
LEMMA FinalizeKeeps ==
    ASSUME TypeOK, TranscriptInv, NEW s \in Session, BeforeAgentFinalize(s)
    PROVE  TranscriptInv'
PROOF
  <1> USE TranscriptTypes
  <1>1. /\ runFrom[s] # NotRunning /\ UNCHANGED <<events, entries, runFrom, inbox, clock, anchor>>
        /\ \A t \in Session \ {s} : runMetadata'[t] = runMetadata[t]
    BY DEF BeforeAgentFinalize, envVars
  <1>2. runMetadata[s].start # NoMeta.start
    BY <1>1 DEF TranscriptInv, RunsStamped, Expected
  <1>3. runMetadata'[s].start = runMetadata[s].start
    BY <1>2 DEF BeforeAgentFinalize
  <1>4. /\ \A t \in Session : runMetadata'[t].start = runMetadata[t].start
        /\ \A t \in Session : Expected(t)' <=> Expected(t)
        /\ \A t \in Session : Transcript(t)' = Transcript(t)
    BY <1>1, <1>3 DEF Expected, Transcript
  <1>5. EventsPast' /\ InboxIdle' /\ TranscriptOnce'
    BY <1>1 DEF TranscriptInv, EventsPast, InboxIdle, TranscriptOnce
  <1>6. RunsStamped'
    BY <1>1, <1>4 DEF TranscriptInv, RunsStamped
  <1>7. EarlierExcluded' /\ ThisRunUnlogged'
    BY <1>1, <1>4 DEF TranscriptInv, EarlierExcluded, ThisRunUnlogged
  <1> QED BY <1>5, <1>6, <1>7 DEF TranscriptInv

LEMMA CliToolCallKeeps ==
    ASSUME IInv, LogInv, TranscriptInv, NEW s \in Session, CliToolCall(s)
    PROVE  TranscriptInv'
PROOF
  <1> USE LogTypes, TranscriptTypes DEF IInv
  <1> DEFINE call == [session |-> s, at |-> clock, via |-> "transcript"]
             n == Len(events) + 1
  <1>1. /\ events' = Append(events, call) /\ runFrom[s] # NotRunning
        /\ UNCHANGED <<entries, runMetadata, runFrom, inbox, clock, anchor>>
    BY DEF CliToolCall, memVars
  <1>2. /\ DOMAIN events' = 1..n /\ Len(events)' = n /\ n \in Nat /\ Len(events) < n
        /\ \A i \in DOMAIN events : i \in DOMAIN events' /\ events'[i] = events[i]
        /\ events'[n] = call /\ call.at = clock /\ call.session = s
    BY <1>1
  <1>3. \A i \in DOMAIN events' : i \in DOMAIN events \/ i = n
    BY <1>2
  <1>4. \A l \in Logger : n \notin entries[l]
    BY DEF LogInv, EntriesCaptured
  <1> HIDE DEF call, n
  <1>5. \A t \in Session : \A i \in Transcript(t)' : i \in Transcript(t) \/ (i = n /\ t = s)
    BY <1>2, <1>3 DEF Transcript
  <1>6. \A t \in Session : Expected(t)' <=> Expected(t)
    BY <1>1 DEF Expected
  <1>7. EventsPast'
    <2>1. \A i \in DOMAIN events' : events'[i].at <= clock
      BY <1>2, <1>3 DEF TranscriptInv, EventsPast
    <2>2. \A t \in Session : runFrom[t] <= n
      BY <1>2 DEF TranscriptInv, EventsPast
    <2> QED BY <2>1, <2>2, <1>1, <1>2 DEF EventsPast
  <1>8. InboxIdle' /\ RunsStamped'
    BY <1>1, <1>6 DEF TranscriptInv, InboxIdle, RunsStamped
  <1>9. TranscriptOnce'
    BY <1>1, <1>2, <1>3, <1>4 DEF TranscriptInv, TranscriptOnce
  <1>10. EarlierExcluded'
    <2> SUFFICES ASSUME NEW t \in Session, Expected(t), NEW i \in Transcript(t)',
                        runFrom[t] = NotRunning \/ i <= runFrom[t]
                 PROVE  events'[i].at + Slack < runMetadata[t].start
      BY <1>1, <1>6 DEF EarlierExcluded
    <2>1. i # n \/ t # s
      BY <1>1, <1>2 DEF TranscriptInv, EventsPast
    <2>2. i \in Transcript(t)
      BY <2>1, <1>5
    <2> QED BY <2>2, <1>2 DEF TranscriptInv, EarlierExcluded
  <1>11. ThisRunUnlogged'
    <2> SUFFICES ASSUME NEW t \in Session, runFrom[t] # NotRunning, NEW i \in Transcript(t)',
                        i > runFrom[t]
                 PROVE  events'[i].at >= runMetadata[t].start /\ \A l \in Logger : i \notin entries[l]
      BY <1>1 DEF ThisRunUnlogged
    <2>1. CASE i \in Transcript(t)
      BY <2>1, <1>2 DEF TranscriptInv, ThisRunUnlogged
    <2>2. CASE i = n /\ t = s
      BY <2>2, <1>2, <1>4 DEF TranscriptInv, RunsStamped, Expected
    <2> QED BY <2>1, <2>2, <1>5
  <1> QED BY <1>7, <1>8, <1>9, <1>10, <1>11 DEF TranscriptInv

(* What the transcript gives to the log is of this run.                    *)
LEMMA InjectsThisRun ==
    ASSUME OneQuietChat, TypeOK, TranscriptInv, NEW s \in Session, NEW ws,
           runFrom[s] # NotRunning
    PROVE  \A i \in Injected(s, ws) :
               /\ i \in Transcript(s) /\ i > runFrom[s]
               /\ \A l \in Logger : i \notin entries[l]
PROOF
  <1> USE TranscriptTypes
  <1>1. SUFFICES ASSUME NEW i \in Injected(s, ws)
                 PROVE  i \in Transcript(s) /\ i > runFrom[s] /\ \A l \in Logger : i \notin entries[l]
    OBVIOUS
  <1>2. /\ i \in DOMAIN events /\ events[i].via = "transcript"
        /\ events[i].at >= RunStartTime(s) - Slack
    BY DEF Injected, Transcript
  <1>3. events[i].session = s
    BY <1>2 DEF OneQuietChat, EventRec
  <1>4. i \in Transcript(s)
    BY <1>2, <1>3 DEF Transcript
  <1>5. RunStartTime(s) = runMetadata[s].start
    BY DEF RunStartTime, TranscriptInv, RunsStamped, Expected
  <1>6. ~(events[i].at + Slack < runMetadata[s].start)
    BY <1>2, <1>5
  <1>7. i > runFrom[s]
    <2>1. runFrom[s] = NotRunning \/ i <= runFrom[s] => events[i].at + Slack < runMetadata[s].start
      BY <1>4 DEF TranscriptInv, EarlierExcluded, Expected
    <2>2. ~(i <= runFrom[s])
      BY <1>6, <2>1
    <2> QED BY <1>2, <2>2
  <1> QED BY <1>4, <1>7 DEF TranscriptInv, ThisRunUnlogged

(* Where a run ends no other is expected.                                  *)
LEMMA RunEndsKeeps ==
    ASSUME OneQuietChat, TypeOK, TranscriptInv, NEW s \in Session, RunEnds(s), TranscriptOnce'
    PROVE  TranscriptInv'
PROOF
  <1> USE TranscriptTypes
  <1>1. /\ runFrom[s] # NotRunning /\ runFrom'[s] = NotRunning
        /\ UNCHANGED <<events, inbox, clock>>
    BY DEF RunEnds
  <1>2. \A t \in Session : t = s
    BY DEF OneQuietChat
  <1>3. ~inbox'[s]
    BY <1>1 DEF TranscriptInv, InboxIdle
  <1>4. \A t \in Session : ~Expected(t)' /\ runFrom'[t] = NotRunning
    BY <1>1, <1>2, <1>3 DEF Expected
  <1>5. EventsPast'
    BY <1>1, <1>4 DEF TranscriptInv, EventsPast, NotRunning
  <1> QED BY <1>4, <1>5 DEF TranscriptInv, InboxIdle, RunsStamped, EarlierExcluded, ThisRunUnlogged

LEMMA InjectsOnce ==
    ASSUME OneQuietChat, IInv, TranscriptInv, NEW s \in Session, NEW ws,
           NEW added \in Appended(s, ws), RunEnds(s), sessions[s] # None, Inject(s, added)
    PROVE  TranscriptOnce'
PROOF
  <1> USE LogTypes, TranscriptTypes DEF IInv, None
  <1> DEFINE l == sessions[s]
  <1>1. l \in Logger /\ entries' = [entries EXCEPT ![l] = @ \cup added]
    BY DEF Inject
  <1>2. UNCHANGED events /\ runFrom[s] # NotRunning
    BY DEF RunEnds
  <1>3. \A i \in added : \A m \in Logger : i \notin entries[m]
    BY <1>2, InjectsThisRun, AppendsInjected
  <1> HIDE DEF l
  <1>4. entries'[l] = entries[l] \cup added /\ \A m \in Logger \ {l} : entries'[m] = entries[m]
    BY <1>1
  <1> QED BY <1>1, <1>2, <1>3, <1>4 DEF TranscriptInv, TranscriptOnce

LEMMA EndingKeepsTranscript ==
    ASSUME OneQuietChat, IInv, TranscriptInv, NEW s \in Session, Ending(s)
    PROVE  TranscriptInv'
PROOF
  <1>1. CASE AgentEndSkips(s) \/ \E added : AgentEndEmpty(s, added)
    <2>1. RunEnds(s) /\ UNCHANGED entries
      BY <1>1 DEF AgentEndSkips, AgentEndEmpty, memVars
    <2>2. TranscriptOnce'
      BY <2>1 DEF RunEnds, TranscriptInv, TranscriptOnce
    <2> QED BY <2>1, <2>2, RunEndsKeeps DEF IInv
  <1>2. ASSUME NEW ws, NEW added \in Appended(s, ws),
               \E r \in Run : AgentEndKeyFails(s, r, added) \/ AgentEnd(s, r, added)
        PROVE  TranscriptInv'
    <2>1. RunEnds(s) /\ sessions[s] # None /\ Inject(s, added)
      BY <1>2 DEF AgentEndKeyFails, AgentEnd
    <2>2. TranscriptOnce'
      BY <2>1, InjectsOnce
    <2> QED BY <2>1, <2>2, RunEndsKeeps DEF IInv
  <1>3. "close" \notin Quirks
    BY DEF OneQuietChat
  <1> QED BY <1>1, <1>2, <1>3 DEF Ending, SessionEndEmpty, SessionEndKeyFails, SessionEnd

(* The handler that waits for an anchor clears the metadata of a session   *)
(* nothing is expected of.                                                 *)
LEMMA ReturnKeeps ==
    ASSUME IInv, TranscriptInv, NEW l \in Logger, anchor[l].pc \in InFlight, HandlerReturns(l),
           UNCHANGED <<events, entries, runFrom, inbox, clock>>,
           NEW pc, anchor' = [anchor EXCEPT ![l].pc = pc]
    PROVE  TranscriptInv'
PROOF
  <1> USE LogTypes, TranscriptTypes DEF IInv
  <1>1. \A s \in Session : Expected(s) => runMetadata'[s] = runMetadata[s]
    <2> SUFFICES ASSUME NEW s \in Session, Expected(s), anchor[l].by = "hook"
                 PROVE  runMetadata'[s] = runMetadata[s]
      BY DEF HandlerReturns
    <2>1. anchor[l].name[1] # s
      BY DEF TranscriptInv, RunsStamped
    <2> QED BY <2>1 DEF HandlerReturns
  <1>2. \A m \in Logger : anchor'[m].pc \in InFlight /\ anchor'[m].by = "hook" =>
            anchor[m].pc \in InFlight /\ anchor[m].by = "hook" /\ anchor'[m].name = anchor[m].name
    BY DEF Anchor
  <1> QED BY <1>1, <1>2, TranscriptFrame

(* Steps of an anchor that nobody returns from, and an operator's.         *)
LEMMA AnchorKeeps ==
    ASSUME IInv, TranscriptInv, NEW l \in Logger,
           UNCHANGED <<events, entries, runMetadata, runFrom, inbox, clock>>,
           \A m \in Logger \ {l} : anchor'[m] = anchor[m],
           anchor'[l].by = "operator" \/ (anchor'[l].by = anchor[l].by /\ anchor'[l].name = anchor[l].name
                                          /\ (anchor'[l].pc \in InFlight => anchor[l].pc \in InFlight))
    PROVE  TranscriptInv'
PROOF
  <1> USE LogTypes, TranscriptTypes DEF IInv
  <1>1. \A m \in Logger : anchor'[m].pc \in InFlight /\ anchor'[m].by = "hook" =>
            anchor[m].pc \in InFlight /\ anchor[m].by = "hook" /\ anchor'[m].name = anchor[m].name
    <2> SUFFICES ASSUME NEW m \in Logger, anchor'[m].pc \in InFlight, anchor'[m].by = "hook"
                 PROVE  anchor[m].pc \in InFlight /\ anchor[m].by = "hook" /\ anchor'[m].name = anchor[m].name
      OBVIOUS
    <2>1. CASE m = l
      BY <2>1
    <2>2. CASE m # l
      BY <2>2
    <2> QED BY <2>1, <2>2
  <1>2. clock' \in Nat /\ clock <= clock' /\ \A s \in Session : runMetadata'[s] = runMetadata[s]
    OBVIOUS
  <1> HIDE DEF IInv
  <1> QED BY <1>1, <1>2, TranscriptFrame DEF IInv

LEMMA TranscriptNext ==
    ASSUME OneQuietChat, IInv, LogInv, TranscriptInv, [Next]_vars
    PROVE  TranscriptInv'
PROOF
  <1> USE LogTypes, TranscriptTypes DEF IInv
  <1>1. ASSUME NEW s \in Session, Capturing(s)
        PROVE  TranscriptInv'
    BY <1>1, MessageKeeps, PromptKeeps, HookKeeps, FinalizeKeeps, CliToolCallKeeps DEF Capturing
  <1>2. ASSUME NEW s \in Session, Ending(s)
        PROVE  TranscriptInv'
    BY <1>2, EndingKeepsTranscript
  <1>3. ASSUME NEW l \in Logger, Uploading(l) \/ Minting(l)
        PROVE  TranscriptInv'
    <2>1. CASE UploadFails(l) \/ MintFails(l)
      BY <2>1, ReturnKeeps DEF UploadFails, MintFails, InFlight, envVars
    <2>2. CASE UploadSucceeds(l) \/ MintSucceeds(l)
      <3>1. /\ UNCHANGED <<events, entries, runMetadata, runFrom, inbox, clock>>
            /\ anchor[l].pc \in InFlight
            /\ \A m \in Logger \ {l} : anchor'[m] = anchor[m]
        BY <2>2 DEF UploadSucceeds, MintSucceeds, InFlight, envVars
      <3>2. anchor'[l].by = anchor[l].by /\ anchor'[l].name = anchor[l].name
        BY <2>2 DEF UploadSucceeds, MintSucceeds, Anchor
      <3> QED BY <3>1, <3>2, AnchorKeeps
    <2> QED BY <1>3, <2>1, <2>2 DEF Uploading, Minting
  <1>4. ASSUME NEW l \in Logger, Committing(l)
        PROVE  TranscriptInv'
    BY <1>4, ReturnKeeps DEF Committing, CommitPending, CommitByPut, RetryFindsNothing,
                             CommitThrows, CommitReturns, InFlight, envVars
  <1>5. ASSUME NEW l \in Logger, Network(l)
        PROVE  TranscriptInv'
    <2>1. CASE UploadLands(l)
      BY <2>1, AnchorKeeps DEF UploadLands, memVars, envVars
    <2>2. CASE MintLands(l)
      <3>1. /\ UNCHANGED <<events, entries, runMetadata, runFrom, inbox, clock>>
            /\ \A m \in Logger \ {l} : anchor'[m] = anchor[m]
        BY <2>2 DEF MintLands, envVars
      <3>2. anchor'[l].by = anchor[l].by /\ anchor'[l].name = anchor[l].name
            /\ anchor'[l].pc = anchor[l].pc
        BY <2>2 DEF MintLands, Anchor
      <3> QED BY <3>1, <3>2, AnchorKeeps
    <2> QED BY <1>5, <2>1, <2>2 DEF Network
  <1>6. ASSUME NEW l \in Logger, Operating(l)
        PROVE  TranscriptInv'
    <2>1. PICK pc \in PC : OperatorStarts(l, pc)
      BY <1>6 DEF Operating, RetryFlush, RetryMint, RetryCommit, PC, InFlight
    <2> QED BY <2>1, AnchorKeeps DEF OperatorStarts, envVars, Anchor
  <1>7. CASE Crash
    <2>1. /\ \A s \in Session : ~Expected(s)' /\ runFrom'[s] = NotRunning /\ ~inbox'[s]
          /\ UNCHANGED <<events, entries, clock>>
      BY <1>7 DEF Crash, Expected
    <2>2. EventsPast' /\ TranscriptOnce'
      BY <2>1 DEF TranscriptInv, EventsPast, TranscriptOnce, NotRunning
    <2> QED BY <2>1, <2>2 DEF TranscriptInv, InboxIdle, RunsStamped, EarlierExcluded, ThisRunUnlogged
  <1>8. CASE Tick
    BY <1>8, TranscriptFrame DEF Tick, memVars
  <1>9. CASE UNCHANGED vars \/ \E n \in Name : WipePending(n)
    BY <1>9, TranscriptFrame DEF WipePending, vars, memVars, envVars
  <1> QED BY <1>1, <1>2, <1>3, <1>4, <1>5, <1>6, <1>7, <1>8, <1>9 DEF Next

LEMMA TranscriptInvariance ==
    ASSUME OneQuietChat
    PROVE  Spec => [](IInv /\ LogInv /\ TranscriptInv)
PROOF
  <1>1. IInv /\ LogInv /\ TranscriptInv /\ [Next]_vars => TranscriptInv'
    BY TranscriptNext
  <1> QED BY <1>1, TranscriptInit, LogInvariance, PTL DEF Spec

(* A user who waits for the receipt never sees a tool call of an earlier   *)
(* run in a later one, whatever crashes, faults, late hooks and retries    *)
(* come between, and however long the lookback and the slack are.          *)
THEOREM ToolCallsAreAnchoredOnce ==
    ASSUME OneQuietChat
    PROVE  Spec => []TranscriptOnce
PROOF
  <1>1. TranscriptInv => TranscriptOnce
    BY DEF TranscriptInv
  <1> QED BY <1>1, TranscriptInvariance, PTL

-----------------------------------------------------------------------------
LEMMA LargestIndex ==
    ASSUME NEW n \in Nat, NEW S \in SUBSET (1..n), S # {}
    PROVE  \E j \in S : \A k \in S : k <= j
PROOF
  <1> DEFINE D == {n - k : k \in S}
             Less == {x \in Nat \X Nat : x[1] < x[2]}
  <1>1. \A k \in S : k \in Int /\ n - k \in Nat
    OBVIOUS
  <1>2. D \subseteq Nat /\ D # {}
    BY <1>1
  <1>3. IsWellFoundedOn(OpToRel(<, Nat), Nat)
    BY NatLessThanWellFounded, Zenon
  <1>4. PICK d \in D : \A e \in D : ~(<<e, d>> \in OpToRel(<, Nat))
    <2> HIDE DEF D
    <2> QED BY <1>2, <1>3, WFMin, Zenon
  <1>5. \A e \in D : d <= e
    <2>1. OpToRel(<, Nat) = {ss \in Nat \X Nat : ss[1] < ss[2]}
      BY Zenon DEF OpToRel
    <2>2. \A e \in D : <<e, d>> \notin {ss \in Nat \X Nat : ss[1] < ss[2]}
      BY <1>4, <2>1, Zenon
    <2>3. d \in D
      BY <1>4, Zenon
    <2> HIDE DEF D
    <2>4. \A e \in D : e \in Nat /\ ~(e < d)
      BY <1>2, <2>2, <2>3
    <2> QED BY <1>2, <2>3, <2>4
  <1>6. PICK j \in S : d = n - j
    BY <1>4
  <1>7. \A k \in S : n - j <= n - k
    BY <1>5, <1>6
  <1> QED BY <1>1, <1>7

(* The jsonl that was written last is that of the only session.            *)
LEMMA ReadsOwnTranscript ==
    ASSUME OneQuietChat, "nodir" \notin Quirks, TypeOK, TranscriptInv,
           NEW s \in Session, NEW ws \in WorkspaceDir, runFrom[s] # NotRunning
    PROVE  {i \in Transcript(s) : i > runFrom[s]} \subseteq Injected(s, ws)
PROOF
  <1> USE TranscriptTypes
  <1> SUFFICES ASSUME NEW i \in Transcript(s), i > runFrom[s]
               PROVE  i \in Injected(s, ws)
    OBVIOUS
  <1> DEFINE written == {j \in DOMAIN events : events[j].via = "transcript"}
  <1>1. i \in written /\ written \in SUBSET (1..Len(events))
    BY DEF Transcript
  <1>2. PICK j \in written : \A k \in written : k <= j
    BY <1>1, LargestIndex
  <1>3. events[j].session = s
    BY <1>2 DEF OneQuietChat, EventRec
  <1>4. ws
    BY DEF WorkspaceDir
  <1>5. s \in TranscriptPath(s, ws)
    BY <1>2, <1>3, <1>4 DEF TranscriptPath
  <1>6. RunStartTime(s) = runMetadata[s].start
    BY DEF RunStartTime, TranscriptInv, RunsStamped, Expected
  <1>7. events[i].at >= runMetadata[s].start
    BY DEF TranscriptInv, ThisRunUnlogged
  <1>8. events[i].at >= RunStartTime(s) - Slack
    BY <1>6, <1>7
  <1> QED BY <1>5, <1>8 DEF Injected

(* Only agent_end rotates a log out, and it injects first.                 *)
LEMMA RotatesWhole ==
    ASSUME OneQuietChat, Quirks \cap {"nodir", "faults"} = {}, IInv, LogInv, TranscriptInv, [Next]_vars,
           NEW s \in Session, NEW l \in Logger, sessions[s] = l,
           anchor[l].pc = "idle", anchor'[l].pc = "uploading"
    PROVE  {i \in Transcript(s) : i > runFrom[s]} \subseteq entries'[l]
PROOF
  <1> USE LogTypes, TranscriptTypes DEF IInv
  <1>1. ASSUME NEW t \in Session, NEW r \in Run, NEW ws \in WorkspaceDir,
               NEW added \in Appended(t, ws), AgentEnd(t, r, added)
        PROVE  {i \in Transcript(s) : i > runFrom[s]} \subseteq entries'[l]
    <2>1. t = s
      BY DEF OneQuietChat
    <2>2. runFrom[s] # NotRunning /\ entries' = [entries EXCEPT ![l] = @ \cup Injected(s, ws)]
      BY <1>1, <2>1, AppendsInjected DEF AgentEnd, RunEnds, Inject
    <2> QED BY <2>2, ReadsOwnTranscript
  <1>2. ASSUME NEW t \in Session, Capturing(t)
        PROVE  UNCHANGED anchor
    BY <1>2 DEF Capturing, MessageReceived, BeforePromptBuild, AfterToolCall, LlmOutput,
                BeforeAgentFinalize, CliToolCall, Capture, memVars
  <1>3. ASSUME NEW t \in Session, Ending(t), ~UNCHANGED anchor
        PROVE  \E ws \in WorkspaceDir : \E added \in Appended(t, ws) : \E r \in Run : AgentEnd(t, r, added)
    BY <1>3 DEF Ending, AgentEndSkips, AgentEndEmpty, AgentEndKeyFails, SessionEndEmpty,
                SessionEndKeyFails, SessionEnd, memVars, OneQuietChat
  <1>4. ASSUME NEW m \in Logger, Uploading(m) \/ Minting(m) \/ Committing(m) \/ Network(m) \/ Operating(m)
        PROVE  FALSE
    <2>1. anchor'[m].pc # "uploading" \/ anchor[m].pc # "idle"
      BY <1>4 DEF Uploading, UploadSucceeds, UploadFails, Minting, MintSucceeds, MintFails,
                Committing, CommitPending, CommitByPut, RetryFindsNothing, CommitThrows,
                CommitReturns, Network, UploadLands, MintLands, Operating, RetryFlush, RetryMint,
                RetryCommit, OperatorStarts, memVars, Anchor
    <2>2. \A k \in Logger \ {m} : anchor'[k] = anchor[k]
      BY <1>4 DEF Uploading, UploadSucceeds, UploadFails, Minting, MintSucceeds, MintFails,
                Committing, CommitPending, CommitByPut, RetryFindsNothing, CommitThrows,
                CommitReturns, Network, UploadLands, MintLands, Operating, RetryFlush, RetryMint,
                RetryCommit, OperatorStarts, memVars, Anchor
    <2> QED BY <2>1, <2>2
  <1>5. ~Crash
    <2> SUFFICES ASSUME Crash PROVE FALSE
      OBVIOUS
    <2>1. anchor'[l] = anchor[l]
      BY DEF Crash, InFlight
    <2> QED BY <2>1
  <1>6. CASE Tick \/ UNCHANGED vars \/ \E n \in Name : WipePending(n)
    BY <1>6 DEF Tick, WipePending, vars, memVars
  <1> QED BY <1>1, <1>2, <1>3, <1>4, <1>5, <1>6 DEF Next

(* agent_end in such a chat rotates out a log with every tool call the cli *)
(* made in the run, however long ago, as long as it is told the workspace  *)
(* and nothing fails: a transcript that cannot be read or parsed, or a call*)
(* that cannot be signed, leaves its entries out of a log that is anchored *)
(* all the same (injectTranscriptToolEntries).                             *)
THEOREM RotatedLogsAreComplete ==
    ASSUME OneQuietChat, Quirks \cap {"nodir", "faults"} = {}
    PROVE  Spec => TranscriptComplete
PROOF
  <1>1. IInv /\ LogInv /\ TranscriptInv /\ [Next]_vars =>
          [\A s \in Session, l \in Logger :
              sessions[s] = l /\ anchor[l].pc = "idle" /\ anchor'[l].pc = "uploading"
                             /\ anchor'[l].prefix = "exec-log"
              => {i \in Transcript(s) : i > runFrom[s]} \subseteq entries'[l]]_vars
    BY RotatesWhole
  <1> QED BY <1>1, TranscriptInvariance, PTL DEF Spec, TranscriptComplete

=============================================================================
