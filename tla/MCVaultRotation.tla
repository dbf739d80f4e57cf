-------------------------- MODULE MCVaultRotation --------------------------
(* Small instances of the modules about keys: rotations in a line of three  *)
(* devices, so that the ends hear of each other's by gossip only, with one  *)
(* process on each; or devices that pair; or a circle (`focus').            *)
EXTENDS VaultKeys, TLC

CONSTANTS a, b, c

VARIABLE focus

all == <<focus, vars, pvars, cvars>>

Line == {a, b, c}
LinePeers == a :> {b} @@ b :> {a, c} @@ c :> {b}
OnePerDevice == a :> a @@ b :> b @@ c :> c
NoSkew == [d \in Device |-> 0]

\* Where the presses are not in turn: one of each user, and one act by hand or
\* one death; device c takes by hand what lies there for others.
PairNext ==
    /\ P!Next
    /\ ~calm => byhand' + deaths' <= 1 /\ \A d \in Device : presses'[d] <= 1
    /\ \A d \in Presser : ppc[d] = "idle" => ppc'[d] \in {"idle", "list"}
    /\ folder' # folder => P!Offer(c) \notin folder'[c]

\* Device a makes the circle, anew when it has left, and lets b in; c is never
\* let in, and writes nothing.
CircleNext ==
    /\ C!Next
    /\ ckey'[b] \notin {0, ckey[b]} => cpc[b] = "grant"
    /\ \A d \in {a, c} : grants'[d] = C!NoGrant
    /\ ckey'[c] = 0
    /\ row'[c] # row[c] => cpc[c] = "apply"

MCInit ==
    /\ focus \in {"rotation", "pairing", "circle"}
    /\ Init /\ P!Init /\ C!Init
    /\ (focus # "pairing" => ~calm) /\ (focus # "circle" => ~stay)
OnRotation == focus = "rotation" /\ UNCHANGED <<focus, pvars, cvars>>
OnPairing == focus = "pairing" /\ UNCHANGED <<focus, vars, cvars>>
OnCircle == focus = "circle" /\ UNCHANGED <<focus, vars, pvars>>
MCNext ==
    \/ OnRotation /\ Next
    \/ OnPairing /\ PairNext
    \/ OnCircle /\ CircleNext

\* The fairness of the module in focus.
MCFairness ==
    /\ \A p \in Process : WF_all(OnRotation /\ Work(p))
    /\ \A d \in Presser : WF_all(OnPairing /\ (P!Press(d) \/ P!Pressed(d)))
    /\ \A d \in Device : WF_all(OnCircle /\ C!Sync(d))
MCSpec == MCInit /\ [][MCNext]_all /\ MCFairness

\* The newest key, a peer's key and the memories of a circle reach all that
\* they are meant for.
EverybodyIsReached == <>[](
    /\ focus = "rotation" => AllNewest
    /\ focus = "pairing" => P!TwoFinish
    /\ focus = "circle" => C!MembersRead)

\* Users press "pair" in turn, in one folder.
TurnSpec ==
    /\ MCInit /\ focus = "pairing" /\ calm = TRUE
    /\ [][OnPairing /\ P!Next]_all
PairsShareVault == P!PairsShareVault
===========================================================================
