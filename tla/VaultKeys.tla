----------------------------- MODULE VaultKeys -----------------------------
(* The keys of one set of devices: the vault key and its rotation            *)
(* (VaultRotation), the pairing that hands it on (Pairing) and the keys of   *)
(* circles (Circles).                                                        *)
EXTENDS VaultRotation

\* The pairing of the devices ...
CONSTANTS Presser, MaxPresses, MaxByHand, MaxDeaths
VARIABLES calm, folder, peers, vault, ppc, known, ptodo, cur, met, presses, byhand, deaths

pvars == <<calm, folder, peers, vault, ppc, known, ptodo, cur, met, presses,
           byhand, deaths>>

P == INSTANCE Pairing WITH pc <- ppc, todo <- ptodo

\* ... and their circles.
CONSTANTS Nobody, MaxKeys, MaxEdits, MaxGrants, MaxLeaves
VARIABLES stay, keys, ckey, listed, had, row, mirror, cremote, grants, clock, gclock,
    leaves, leaving, cpc, got, out

cvars == <<stay, keys, ckey, listed, had, row, mirror, cremote, grants, clock,
           gclock, leaves, leaving, cpc, got, out>>

C == INSTANCE Circles WITH key <- ckey, remote <- cremote, pc <- cpc

\* A key goes only to whom the user has decided to trust, and two devices that
\* have paired share one (pairing.rs, rotate.rs).
PairingIsSafe == P!PairingIsSafe

\* What is written under the tag of a circle stays with those that were let in
\* (circle.rs, crypto.rs, engine.rs).
CircleIsKept == C!CircleIsKept
===========================================================================
