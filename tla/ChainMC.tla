------------------------------- MODULE ChainMC -------------------------------
(***************************************************************************)
(* The contract with the two that use it, the minting client and the feed. *)
(* Four instances in one run, told apart by scene: "rights" has grants,    *)
(* transfers and clones of the host's empty tokens; "clones" has data,     *)
(* clones and what the receivers of tokens call; "mints" has data,         *)
(* administration and the client; "feed" has the scans while tokens with   *)
(* and without a receipt are minted and transferred.  A scene leaves out   *)
(* the calls that write a variable it holds still.                         *)
(***************************************************************************)
EXTENDS MintClient, Feed, TLC

CONSTANTS host, guest, c1, c2, route, visitor, p1, p2

VARIABLE scene

vars == <<contractVars, clientVars, feedVars, scene>>

Accounts     == {host, guest}
Contracts    == {guest}
HostForGuest == {<<guest, host>>}
Arrays       == {<<>>, <<"log">>, <<"bad", "log">>}
Fees         == {0, 1}
Batches      == {<<0, 1>>, <<1, 1>>}
Calls        == {c1, c2}
AskedFor     == [c \in Calls |-> IF c = c1 THEN <<"log">> ELSE <<>>]
Scanners     == {route, visitor}
OfGuest      == [s \in Scanners |-> IF s = route THEN None ELSE guest]
Rows2        == [s \in Scanners |-> IF s = route THEN 2 ELSE 1]
Depths       == [s \in Scanners |-> IF s = route THEN 1 ELSE 2]
Polls        == {p1, p2}

TypeOK == ContractTypeOK /\ ClientTypeOK /\ FeedTypeOK

Init == ContractInit /\ ClientInit /\ FeedInit /\ scene \in {"rights", "clones", "mints", "feed"}

FeedScene == scene = "feed" /\ UNCHANGED <<clientVars, scene>>

Next ==
    \/ /\ scene = "rights"
       /\ ContractNext
       /\ nextTokenId' <= 2 /\ \A t \in Token : tokenCreator'[t] # guest
       /\ UNCHANGED <<intelligentData, early, terms, clientVars, feedVars, scene>>
    \/ /\ scene = "clones"
       /\ ContractNext
       /\ UNCHANGED <<terms, rights, moved, clientVars, feedVars, scene>>
    \/ /\ scene = "mints"
       /\ \/ ContractNext /\ UNCHANGED clientVars
          \/ ClientNext
       /\ \A t \in Minted : owner'[t] = owner[t]
       /\ UNCHANGED <<calls, clones, rights, moved, feedVars, scene>>
    \/ /\ FeedScene
       /\ ChainMoves
       /\ \A t \in 0..(nextTokenId' - 1) :
             intelligentData'[t] = IF t = 1 THEN <<"bad", "log">> ELSE <<"log">>
       /\ UNCHANGED <<terms, rights, moved, cloneSource, clones, early>>
    \/ /\ FeedScene
       /\ FeedNext
       /\ UNCHANGED contractVars

Symmetry == Permutations(Polls)

Spec == Init /\ [][Next]_vars

=============================================================================
