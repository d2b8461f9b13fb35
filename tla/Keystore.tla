------------------------------ MODULE Keystore ------------------------------
(***************************************************************************)
(* The keystore directory, one file operation at a time: the key of a run  *)
(* is written under pending/ with a sidecar, moved to <tokenId>.key once   *)
(* its token is known, and last-receipt.json then names that token for     *)
(* /share.  The calls are synchronous, so none interleaves with another of *)
(* the process; a throw or a crash may come between any two file steps.    *)
(*                                                                         *)
(* A key is named by the run it was generated for.  A write goes to a .tmp *)
(* file that is then renamed, so its target changes in one step or not at  *)
(* all, and a .tmp file a crash leaves is read by nobody.                  *)
(***************************************************************************)
EXTENDS Integers, Sequences

CONSTANTS
    Run,        \* the runs to anchor, one compound pendingKeyName each
    Chain,      \* the networks the plugin may be configured for
    MaxTokens,  \* bound: tokens minted on a network
    Last,       \* the argument "last" of /share
    Junk,       \* an argument that is no decimal number
    None        \* no key, no token, no argument

ASSUME KeystoreAssumption ==
    /\ MaxTokens \in Nat
    /\ {Last, Junk, None} \cap (Run \cup Nat) = {} /\ Last # Junk

VARIABLES
    pendingKey,     \* pending/<file>.key
    pendingMeta,    \* the files that have a sidecar pending/<file>.meta.json
    tokenKey,       \* <tokenId>.key
    last,           \* the token last-receipt.json names
    call,           \* the call under way: its next step, and its run
    phase,          \* per run: where its anchor stands
    home,           \* per run: the network it is anchored on
    minted,         \* per network: the run behind each of its tokens
    net,            \* the network configured now
    taken           \* keys the operator removed

disk == <<pendingKey, pendingMeta, tokenKey, last>>
vars == <<disk, call, phase, home, minted, net, taken>>

(* As if the separators in a name were all replaced by "_".                *)
encodeLossily(name) == <<"base64url", CHOOSE other \in Run : TRUE>>

encodeFilename(name) == <<"base64url", name>>
decodeFilename(file) == file[2]

File  == {encodeFilename(r) : r \in Run}
Token == 0..(MaxTokens - 1)
Step  == {"none", "write meta", "unlink meta", "write pointer"}
Phase == {"new", "saving", "aborted", "saved", "committing", "uncommitted", "lost", "done"}
Idle  == [step |-> "none", run |-> None]

(* As if the newest token were taken for the run's own. *)
NewestToken(r) == Len(minted[home[r]]) - 1

IsMinted(r) == \E t \in Token : t + 1 \in DOMAIN minted[home[r]] /\ minted[home[r]][t + 1] = r
TokenOf(r)  == CHOOSE t \in Token : t + 1 \in DOMAIN minted[home[r]] /\ minted[home[r]][t + 1] = r

(* Every file holds what a call may write, and every run is somewhere.     *)
TypeOK ==
    /\ pendingKey \in [File -> Run \cup {None}]
    /\ pendingMeta \subseteq File
    /\ tokenKey \in [Token -> Run \cup {None}]
    /\ last \in Token \cup {None}
    /\ call \in [step : Step, run : Run \cup {None}]
    /\ phase \in [Run -> Phase]
    /\ home \in [Run -> Chain]
    /\ minted \in [Chain -> Seq(Run)]
    /\ net \in Chain
    /\ taken \subseteq Run

Init ==
    /\ pendingKey = [f \in File |-> None]
    /\ pendingMeta = {}
    /\ tokenKey = [t \in Token |-> None]
    /\ last = None
    /\ call = Idle
    /\ phase = [r \in Run |-> "new"]
    /\ net \in Chain
    /\ home = [r \in Run |-> net]
    /\ minted = [c \in Chain |-> <<>>]
    /\ taken = {}

-----------------------------------------------------------------------------
(* setPending: the key, then its sidecar. *)

SetPending(r) ==
    /\ call = Idle
    /\ phase[r] = "new"
    /\ pendingKey' = [pendingKey EXCEPT ![encodeFilename(r)] = r]
    /\ call' = [step |-> "write meta", run |-> r]
    /\ phase' = [phase EXCEPT ![r] = "saving"]
    /\ home' = [home EXCEPT ![r] = net]
    /\ UNCHANGED <<pendingMeta, tokenKey, last, minted, net, taken>>

WriteMeta ==
    /\ call.step = "write meta"
    /\ pendingMeta' = pendingMeta \cup {encodeFilename(call.run)}
    /\ call' = Idle
    /\ phase' = [phase EXCEPT ![call.run] = "saved"]
    /\ UNCHANGED <<pendingKey, tokenKey, last, home, minted, net, taken>>

(* The anchor uploads the envelope once setPending returned, and mints; a  *)
(* mint of a dead process may still land, or the operator sends it again.  *)
Mint(r) ==
    /\ phase[r] \in {"saved", "lost"}
    /\ ~IsMinted(r)
    /\ Len(minted[home[r]]) < MaxTokens
    /\ minted' = [minted EXCEPT ![home[r]] = Append(@, r)]
    /\ UNCHANGED <<disk, call, phase, home, net, taken>>

-----------------------------------------------------------------------------
(* commitPending, by anchorRun or by the operator; put, when anchorRun is  *)
(* told that there was no pending file.  Told the same, the operator stops *)
(* there: nothing changes.                                                 *)

CommitStarts(r, step) ==
    /\ call' = [step |-> step, run |-> r]
    /\ phase' = [phase EXCEPT ![r] = "committing"]
    /\ UNCHANGED <<home, minted, net, taken>>

(* As if the sidecar were removed before the key is moved.                 *)
CommitPendingMetaFirst(r) ==
    /\ call = Idle
    /\ phase[r] \in {"saved", "lost", "uncommitted"} /\ IsMinted(r)
    /\ pendingKey[encodeFilename(r)] # None
    /\ \/ /\ encodeFilename(r) \in pendingMeta
          /\ pendingMeta' = pendingMeta \ {encodeFilename(r)}
          /\ UNCHANGED <<pendingKey, tokenKey, last, call, phase, home, minted, net, taken>>
       \/ /\ encodeFilename(r) \notin pendingMeta
          /\ tokenKey' = [tokenKey EXCEPT ![TokenOf(r)] = pendingKey[encodeFilename(r)]]
          /\ pendingKey' = [pendingKey EXCEPT ![encodeFilename(r)] = None]
          /\ CommitStarts(r, "write pointer")
          /\ UNCHANGED <<pendingMeta, last>>

(* As if the pointer were written before the key is moved.                 *)
CommitPendingPointerFirst(r) ==
    /\ call = Idle
    /\ phase[r] \in {"saved", "lost", "uncommitted"} /\ IsMinted(r)
    /\ pendingKey[encodeFilename(r)] # None
    /\ \/ /\ last # TokenOf(r)
          /\ last' = TokenOf(r)
          /\ UNCHANGED <<pendingKey, pendingMeta, tokenKey, call, phase, home, minted, net, taken>>
       \/ /\ last = TokenOf(r)
          /\ tokenKey' = [tokenKey EXCEPT ![TokenOf(r)] = pendingKey[encodeFilename(r)]]
          /\ pendingKey' = [pendingKey EXCEPT ![encodeFilename(r)] = None]
          /\ CommitStarts(r, "unlink meta")
          /\ UNCHANGED <<pendingMeta, last>>

CommitPending(r) ==
    /\ call = Idle
    /\ phase[r] \in {"saved", "lost", "uncommitted"} /\ IsMinted(r)
    /\ pendingKey[encodeFilename(r)] # None
    /\ tokenKey' = [tokenKey EXCEPT ![TokenOf(r)] = pendingKey[encodeFilename(r)]]
    /\ pendingKey' = [pendingKey EXCEPT ![encodeFilename(r)] = None]
    /\ CommitStarts(r, "unlink meta")
    /\ UNCHANGED <<pendingMeta, last>>

Put(r) ==
    /\ call = Idle
    /\ phase[r] = "saved" /\ IsMinted(r)
    /\ pendingKey[encodeFilename(r)] = None
    /\ tokenKey' = [tokenKey EXCEPT ![TokenOf(r)] = r]
    /\ CommitStarts(r, "write pointer")
    /\ UNCHANGED <<pendingKey, pendingMeta, last>>

(* Best effort: a failure is swallowed. *)
UnlinkMeta ==
    /\ call.step = "unlink meta"
    /\ pendingMeta' \in {pendingMeta, pendingMeta \ {encodeFilename(call.run)}}
    /\ call' = [call EXCEPT !.step = "write pointer"]
    /\ UNCHANGED <<pendingKey, tokenKey, last, phase, home, minted, net, taken>>

(* As if the pointer named the run. *)
WritePointerOfRun ==
    /\ call.step = "write pointer"
    /\ last' = call.run
    /\ call' = Idle
    /\ phase' = [phase EXCEPT ![call.run] = "done"]
    /\ UNCHANGED <<pendingKey, pendingMeta, tokenKey, home, minted, net, taken>>

WritePointer ==
    /\ call.step = "write pointer"
    /\ last' = TokenOf(call.run)
    /\ call' = Idle
    /\ phase' = [phase EXCEPT ![call.run] = "done"]
    /\ UNCHANGED <<pendingKey, pendingMeta, tokenKey, home, minted, net, taken>>

-----------------------------------------------------------------------------
(* A file step that throws: the caller gives the anchor up, or reports it. *)

Refuses(r) ==
    /\ call = Idle
    /\ \/ phase[r] = "new" /\ phase' = [phase EXCEPT ![r] = "aborted"]
       \/ phase[r] = "saved" /\ IsMinted(r) /\ phase' = [phase EXCEPT ![r] = "uncommitted"]
    /\ UNCHANGED <<disk, call, home, minted, net, taken>>

Throws ==
    /\ call.step \in {"write meta", "write pointer"}
    /\ call' = Idle
    /\ phase' = [phase EXCEPT ![call.run] = IF @ = "saving" THEN "aborted" ELSE "uncommitted"]
    /\ UNCHANGED <<disk, home, minted, net, taken>>

(* The process dies, and starts again with the network its configuration   *)
(* names by then.                                                          *)
Crash ==
    /\ call' = Idle
    /\ phase' = [r \in Run |-> IF phase[r] = "saving" THEN "aborted"
                               ELSE IF phase[r] \in {"saved", "committing"} THEN "lost"
                               ELSE phase[r]]
    /\ net' \in Chain
    /\ UNCHANGED <<disk, home, minted, taken>>

(* The operator deletes a pending file, or removes a token's key. *)
Wipe(r) ==
    /\ pendingKey[encodeFilename(r)] # None
    /\ pendingKey' = [pendingKey EXCEPT ![encodeFilename(r)] = None]
    /\ taken' = taken \cup {pendingKey[encodeFilename(r)]}
    /\ UNCHANGED <<pendingMeta, tokenKey, last, call, phase, home, minted, net>>

remove(t) ==
    /\ call = Idle
    /\ tokenKey[t] # None
    /\ tokenKey' = [tokenKey EXCEPT ![t] = None]
    /\ taken' = taken \cup {tokenKey[t]}
    /\ UNCHANGED <<pendingKey, pendingMeta, last, call, phase, home, minted, net>>

Next ==
    \/ \E r \in Run : SetPending(r) \/ Mint(r) \/ CommitPending(r) \/ Put(r)
    \/ WriteMeta \/ UnlinkMeta \/ WritePointer
    \/ \E r \in Run : Refuses(r) \/ Wipe(r)
    \/ \E t \in Token : remove(t)
    \/ Throws \/ Crash

Spec == Init /\ [][Next]_vars

-----------------------------------------------------------------------------
(* /share.  An inbound message is an event: whether the harness authorized *)
(* its sender, whether its text begins with the command, the word after    *)
(* that, and the first of the arguments the channel split off by itself.   *)

Argument == Token \cup {Last, Junk, None}
Event    == [authorized : BOOLEAN, isShare : BOOLEAN, word : Argument, arg : Argument]

NotHandled        == [handled |-> FALSE, token |-> None, key |-> None]
Reply(token, key) == [handled |-> TRUE, token |-> token, key |-> key]

getLast == last
get(t)  == IF t \in Token THEN tokenKey[t] ELSE None

(* None: the caller takes the last receipt. *)
parseTokenIdArg(e) ==
    IF e.arg \notin {None, Last} THEN e.arg
    ELSE IF e.word # Last THEN e.word ELSE None

Gate(e) == e.authorized /\ e.isShare

handleShareCommand(e) ==
    LET asked == parseTokenIdArg(e)
        token == IF asked = None THEN getLast ELSE asked
    IN  IF ~Gate(e) THEN NotHandled
        ELSE Reply(token, IF token = None THEN None ELSE get(token))

(* As if the listener left the gate to the harness and answered whatever   *)
(* it was sent with the last receipt.                                      *)
inboundClaimUngated(e) ==
    IF Gate(e) THEN handleShareCommand(e) ELSE Reply(getLast, IF getLast = None THEN None ELSE get(getLast))

inboundClaim(e) == IF Gate(e) THEN handleShareCommand(e) ELSE NotHandled

(* The native command: the harness authorized the sender before it calls,  *)
(* the arguments are one string, and where there is no command body the    *)
(* plugin puts the bare command in its place.                              *)
nativeShare(args, body) ==
    handleShareCommand([authorized |-> TRUE, arg |-> args,
                        isShare |-> body.isShare, word |-> body.word])

NoBody == [isShare |-> TRUE, word |-> None]
Body   == {NoBody} \cup [isShare : BOOLEAN, word : Argument]

(* What listPending shows of a pending file.                               *)
listPending ==
    {[name |-> decodeFilename(f), split |-> f \in pendingMeta] :
        f \in {f \in File : pendingKey[f] # None}}

-----------------------------------------------------------------------------
(* A key whose setPending returned, so that its envelope may be stored, is *)
(* on this host for good: no crash and no throw between two file steps     *)
(* loses it, though some leave it filed and the commit reported as failed. *)
KeyKept ==
    \A r \in Run :
        phase[r] \in {"saved", "committing", "uncommitted", "lost", "done"} =>
            \/ \E f \in File : pendingKey[f] = r
            \/ \E t \in Token : tokenKey[t] = r
            \/ r \in taken

(* Whoever sends whatever to either entry point gets a key only in answer  *)
(* to an authorized /share, the key of the receipt the reply names, and    *)
(* that is the one asked for: an argument that names no receipt with a key *)
(* here does not fall back to the last one.                                *)
Opens(e, reply) ==
    reply.key # None =>
        /\ Gate(e)
        /\ reply.key = minted[net][reply.token + 1]
        /\ LET named == {e.arg, e.word} \ {None, Last}
           IN  reply.token \in named \/ (named = {} /\ reply.token = last)

ShareOpens ==
    /\ \A e \in Event : Opens(e, inboundClaim(e))
    /\ \A arg \in Argument, b \in Body :
          Opens([authorized |-> TRUE, arg |-> arg, isShare |-> b.isShare, word |-> b.word],
                nativeShare(arg, b))

(* /share with no argument, on every channel, finds a key once there was a *)
(* receipt, unless the operator removed it.                                *)
ShareLastFindsKey ==
    \A reply \in {nativeShare(None, NoBody), nativeShare(Last, NoBody)}
                 \cup {inboundClaim([authorized |-> TRUE, isShare |-> TRUE, word |-> w, arg |-> None]) :
                          w \in {Last, None}} :
        /\ reply.handled
        /\ last # None => reply.key # None \/ minted[net][last + 1] \in taken

(* Whatever a crash interrupted, recovery is told session and run of every *)
(* key an envelope may need, not only the compound name.                   *)
PendingListed ==
    \A r \in Run :
        phase[r] \in {"saved", "uncommitted", "lost"} /\ pendingKey[encodeFilename(r)] # None
            => [name |-> r, split |-> TRUE] \in listPending

(* The files of one network implement the vault: every file step, throw    *)
(* and crash moves at most one key, as a vault may, and leaves no second   *)
(* copy behind.                                                            *)
FiledAt(r) == {t \in Token : tokenKey[t] = r}
Place(r) ==
    IF FiledAt(r) # {} THEN [at |-> "filed", token |-> CHOOSE t \in FiledAt(r) : TRUE]
    ELSE [at |-> IF pendingKey[encodeFilename(r)] = r THEN "pending"
                 ELSE IF r \in taken THEN "removed" ELSE "nowhere",
          token |-> None]

Vault == INSTANCE KeyVault WITH place <- [r \in Run |-> Place(r)], receipts <- minted[net]

ImplementsVault == Vault!Spec

(* The path of a token's key is free of collisions: what is filed there is *)
(* never replaced by another receipt's key.                                *)
PathsCollisionFree ==
    [][\A t \in Token : tokenKey[t] # None => tokenKey'[t] \in {tokenKey[t], None}]_vars

=============================================================================
