------------------------------ MODULE Pairing -------------------------------
(***************************************************************************)
(* Devices that become peers with one vault key (pai-sync/pair.rs,         *)
(* crypto.rs), by files that the user carries or by pressing "pair" where  *)
(* a folder is shared (pai_pair_folder).                                   *)
(*                                                                         *)
(* A device makes at most one vault, so a key is the device that made it.  *)
(* Signatures and wrapping work: a file says who wrote it, and only the    *)
(* device an accept is for can open it.                                    *)
(***************************************************************************)
EXTENDS Naturals, FiniteSets

CONSTANTS
    Device,
    Presser,       \* those whose users press "pair"; the others act by hand
    NoKey,
    MaxPresses,    \* presses of "pair" per device
    MaxByHand,     \* accepts and completes by hand, and removals
    MaxDeaths

VARIABLES
    calm,      \* one folder, presses are in turn, nobody dies, nothing is done
               \* by hand; otherwise each device has a copy of the folder
    folder,    \* the pairing files a device sees
    peers,     \* sync_peers
    vault,     \* the vault key
    pc,        \* how far a device is with its press
    known,     \* the peers when the press began
    todo,      \* the files it found
    cur,       \* the file in work
    met,       \* <<d, e>>: d has had e as a peer
    presses, byhand, deaths

work == <<pc, known, todo, cur>>
bounds == <<presses, byhand, deaths>>
vars == <<calm, folder, peers, vault, work, met, bounds>>

Offer(d) == [kind |-> "offer", by |-> d, to |-> d, key |-> NoKey]
Accept(d, e, k) == [kind |-> "accept", by |-> d, to |-> e, key |-> k]
Nothing == [kind |-> "none"]
Files == {Offer(d) : d \in Device} \cup
         {Accept(d, e, k) : d \in Device, e \in Device, k \in Device}

Init ==
    /\ calm \in BOOLEAN
    /\ folder = [d \in Device |-> {}] /\ peers = [d \in Device |-> {}]
    /\ vault = [d \in Device |-> NoKey]
    /\ pc = [d \in Device |-> "idle"] /\ known = [d \in Device |-> {}]
    /\ todo = [d \in Device |-> {}] /\ cur = [d \in Device |-> Nothing]
    /\ met = {}
    /\ presses = [d \in Device |-> 0] /\ byhand = 0 /\ deaths = 0

At(d, s) == pc' = [pc EXCEPT ![d] = s]

\* write_message, into the folder.
Write(d, f) ==
    folder' = [e \in Device |-> IF e = d \/ calm THEN folder[e] \cup {f} ELSE folder[e]]

\* A replicated folder brings the files one by one.
Deliver(d, e, f) ==
    /\ ~calm /\ f \in folder[d] \ folder[e]
    /\ folder' = [folder EXCEPT ![e] = @ \cup {f}]
    /\ UNCHANGED <<calm, peers, vault, work, met, bounds>>

AddPeer(d, e) ==
    /\ peers' = [peers EXCEPT ![d] = @ \cup {e}]
    /\ met' = met \cup {<<d, e>>}

-----------------------------------------------------------------------------
(* Pressing "pair": pai_pair_folder *)

\* The peers are read once, then the device's own offer is published.
Press(d) ==
    /\ pc[d] = "idle" /\ presses[d] < MaxPresses
    /\ calm => \A e \in Presser : pc[e] = "idle" /\ presses[d] <= presses[e]
    /\ known' = [known EXCEPT ![d] = peers[d]]
    /\ Write(d, Offer(d))
    /\ At(d, "list")
    /\ presses' = [presses EXCEPT ![d] = @ + 1]
    /\ UNCHANGED <<calm, peers, vault, todo, cur, met, byhand, deaths>>

\* read_dir: accepts for this device, and every offer.
List(d) ==
    /\ pc[d] = "list"
    /\ todo' = [todo EXCEPT ![d] = {f \in folder[d] : f.kind = "offer" \/ f.to = d}]
    /\ At(d, "files")
    /\ UNCHANGED <<calm, folder, peers, vault, known, cur, met, bounds>>

\* Sensitivity variant of MayTake: offers and accepts in the directory's order.
MayTakeAny(d, f) == TRUE

\* "Two passes: accepts first, then offers."
MayTake(d, f) == f.kind = "offer" => \A g \in todo[d] : g.kind = "offer"

\* Nothing is done for who was a peer when the press began.
Skips(d, f) == f.by \in known[d] \cup {d}

\* complete_pairing and accept_offer begin alike: the sender becomes a peer.
Take(d) ==
    /\ pc[d] = "files"
    /\ \E f \in todo[d] :
          /\ MayTake(d, f)
          /\ todo' = [todo EXCEPT ![d] = @ \ {f}]
          /\ IF Skips(d, f)
             THEN UNCHANGED <<peers, met, cur, pc>>
             ELSE /\ AddPeer(d, f.by)
                  /\ cur' = [cur EXCEPT ![d] = f]
                  /\ At(d, f.kind)
    /\ UNCHANGED <<calm, folder, vault, known, bounds>>

\* vault_key
NoVault(d) == vault[d] = NoKey

\* Sensitivity variant of Opens: an accept for somebody else can be opened.
OpensAny(d, f) == TRUE

\* The key an accept carries is sealed to one device.
Opens(d, f) == f.to = d

\* The rest of complete_pairing: the key is adopted where there is none; a
\* different one is an error, after the peer was recorded.
Adopt(d) ==
    /\ pc[d] = "accept"
    /\ vault' = IF Opens(d, cur[d]) /\ NoVault(d)
                THEN [vault EXCEPT ![d] = cur[d].key] ELSE vault
    /\ cur' = [cur EXCEPT ![d] = Nothing]
    /\ At(d, "files")
    /\ UNCHANGED <<calm, folder, peers, known, todo, met, bounds>>

\* The rest of accept_offer: the vault key, made if there is none ...
Mint(d) ==
    /\ pc[d] = "offer"
    /\ vault' = IF NoVault(d) THEN [vault EXCEPT ![d] = d] ELSE vault
    /\ At(d, "answer")
    /\ UNCHANGED <<calm, folder, peers, known, todo, cur, met, bounds>>

\* ... goes into the accept that is written.
Answer(d) ==
    /\ pc[d] = "answer"
    /\ Write(d, Accept(d, cur[d].by, vault[d]))
    /\ cur' = [cur EXCEPT ![d] = Nothing]
    /\ At(d, "files")
    /\ UNCHANGED <<calm, peers, vault, known, todo, met, bounds>>

Finish(d) ==
    /\ pc[d] = "files" /\ todo[d] = {}
    /\ At(d, "idle")
    /\ known' = [known EXCEPT ![d] = {}]
    /\ UNCHANGED <<calm, folder, peers, vault, todo, cur, met, bounds>>

-----------------------------------------------------------------------------
(* By hand: pai pair, pai_pair_offer, _accept, _complete and _qr *)

ByHand == ~calm /\ byhand < MaxByHand /\ byhand' = byhand + 1

\* pai pair offer
MakeOffer(d) ==
    /\ pc[d] = "idle" /\ ByHand
    /\ Write(d, Offer(d))
    /\ UNCHANGED <<calm, peers, vault, work, met, presses, deaths>>

\* The files, and the codes on a screen, that the user can get at.  A device
\* refuses its own offer.
Carried(d, kind) == {f \in folder[d] : f.kind = kind /\ f.by # d}

TakeByHand(d, kind) ==
    /\ pc[d] = "idle" /\ ByHand
    /\ \E f \in Carried(d, kind) :
          /\ AddPeer(d, f.by)
          /\ cur' = [cur EXCEPT ![d] = f]
          /\ At(d, f.kind)
    /\ UNCHANGED <<calm, folder, vault, known, todo, presses, deaths>>

\* pai pair accept, pai_pair_accept: of whoever's offer it is.
AcceptByHand(d) == TakeByHand(d, "offer")

\* pai pair complete, pai_pair_complete: of an accept for anybody.
CompleteByHand(d) == TakeByHand(d, "accept")

\* pai pair remove: the vault key stays.
Remove(d) ==
    /\ pc[d] = "idle" /\ ByHand
    /\ \E e \in peers[d] : peers' = [peers EXCEPT ![d] = @ \ {e}]
    /\ UNCHANGED <<calm, folder, vault, work, met, presses, deaths>>

Die(d) ==
    /\ ~calm /\ deaths < MaxDeaths /\ pc[d] # "idle"
    /\ At(d, "idle")
    /\ known' = [known EXCEPT ![d] = {}] /\ todo' = [todo EXCEPT ![d] = {}]
    /\ cur' = [cur EXCEPT ![d] = Nothing]
    /\ deaths' = deaths + 1
    /\ UNCHANGED <<calm, folder, peers, vault, met, presses, byhand>>

Pressed(d) == List(d) \/ Take(d) \/ Adopt(d) \/ Mint(d) \/ Answer(d) \/ Finish(d)
Next ==
    \/ \E d \in Presser : Press(d)
    \/ \E d \in Device : Pressed(d)
    \/ \E d \in Device :
          MakeOffer(d) \/ AcceptByHand(d) \/ CompleteByHand(d) \/ Remove(d) \/ Die(d)
    \/ \E d, e \in Device : \E f \in folder[d] : Deliver(d, e, f)

\* The user presses until it is done (the bound is what "until" means here).
Fairness == \A d \in Presser : WF_vars(Press(d)) /\ WF_vars(Pressed(d))
Spec == Init /\ [][Next]_vars
-----------------------------------------------------------------------------
TypeOK ==
    /\ folder \in [Device -> SUBSET Files]
    /\ peers \in [Device -> SUBSET Device]
    /\ vault \in [Device -> Device \cup {NoKey}]
    /\ pc \in [Device -> {"idle", "list", "files", "accept", "offer", "answer"}]
    /\ \A d \in Device : cur[d] \in Files \cup {Nothing} /\ todo[d] \subseteq Files
    /\ met \subseteq Device \X Device

\* "A sync_peers row is an explicit trust decision": a device has the key of
\* another's vault only from a device that trusted it and that it trusted,
\* whatever files lie about, and are completed or accepted by hand.
KeysFollowTrust == \A d \in Device :
    vault[d] \notin {NoKey, d} =>
        \E e \in Device : vault[e] = vault[d] /\ {<<d, e>>, <<e, d>>} \subseteq met

\* "Both sides end up in the same vault": devices that have each other as peers
\* and are not at it any more have one vault key.
PairsShareVault == \A d, e \in Device :
    (pc[d] = "idle" /\ pc[e] = "idle" /\ e \in peers[d] /\ d \in peers[e]
        /\ vault[d] # NoKey /\ vault[e] # NoKey) => vault[d] = vault[e]

\* Two devices whose users press in turn come to share a vault
\* (TwoFinish, in the end), and at no time have two.
InTurn == calm /\ Cardinality(Presser) = 2
TwoShare == InTurn => PairsShareVault
Paired == \A d, e \in Presser :
    e \in peers[d] \cup {d} /\ vault[d] = vault[e] /\ vault[d] # NoKey
TwoFinish == InTurn => Paired

PairingIsSafe == TypeOK /\ KeysFollowTrust /\ TwoShare
=============================================================================
