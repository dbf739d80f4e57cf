---------------------------- MODULE VaultRotation ----------------------------
(***************************************************************************)
(* Rotation of the shared vault key: crates/pai-sync/src/rotate.rs with    *)
(* reset_vault_key and adopt_vault_key of crypto.rs.                       *)
(*                                                                         *)
(* `pai sync rotate' mints a key, leaves it on the transport for every     *)
(* peer of the device (vrot/<to>/<from>) and adopts it; every other        *)
(* `pai sync' command adopts what it finds there and passes it on to the   *)
(* peers of its own device.  The epoch of a rotation is the rotator's      *)
(* clock; a device keeps the key and the epoch in two places.  Several     *)
(* processes may run on a device; any may die, or see the transport fail,  *)
(* between two steps.  Sealing and signing always succeed here: a message  *)
(* from a device that is no peer is not looked at.                         *)
(***************************************************************************)
EXTENDS Integers, FiniteSets

CONSTANTS
    Device,       \* the devices of the vault
    Peers,        \* Peers[d]: the rows of sync_peers on d
    Process,      \* processes that run `pai sync' commands
    Host,         \* Host[p]: the device p runs on
    Skew,         \* Skew[d]: how far d's clock is ahead
    Advance,      \* how far time moves from one rotation to the next
    DiesAt,       \* steps at which a command may die or fail
    NoKey,        \* no key in the keystore
    MaxRotations, \* bound: rotations
    MaxFailures   \* bound: commands that die

ASSUME RotationAssumption ==
    /\ Peers \in [Device -> SUBSET Device]
    /\ Host \in [Process -> Device]
    /\ Skew \in [Device -> Nat]
    /\ Advance \subseteq Nat
    /\ NoKey \notin Nat
    /\ MaxRotations \in Nat /\ MaxFailures \in Nat

VARIABLES
    key,       \* key[d]: the vault key of d
    epoch,     \* epoch[d]: the file sync-vault.epoch of d, 0 when there is none
    remote,    \* remote[to][from]: the object vrot/<to>/<from>
    at,        \* at[p]: the step p is at
    cmd,       \* cmd[p]: what p does, "rotate" or "adopt"
    msg,       \* msg[p]: the rotation p carries out or passes on
    todo,      \* todo[p]: peers p has to push to
    list,      \* list[p]: senders p has listed and not looked at
    time,      \* the wall clock without skew
    born,      \* history: born[k] is the epoch key k was minted for
    rotations, failures   \* counters of the bounded events

local == <<at, cmd, msg, todo, list>>
vars == <<key, epoch, remote, at, cmd, msg, todo, list, time, born, rotations,
          failures>>

\* Key 0 is the one pairing left on every device; the n-th rotation mints key n.
Keys == 0 .. MaxRotations

\* RotationMsg.  Epoch 0 stands for an object that is not there.
Msg(e, k) == [epoch |-> e, key |-> k]
NoMsg == Msg(0, 0)

Steps == {"idle", "send", "reset", "adopt", "store", "look", "gossip"}

Init ==
    /\ key = [d \in Device |-> 0]
    /\ epoch = [d \in Device |-> 0]
    /\ remote = [d \in Device |-> [e \in Device |-> NoMsg]]
    /\ at = [p \in Process |-> "idle"]
    /\ cmd = [p \in Process |-> "adopt"]
    /\ msg = [p \in Process |-> NoMsg]
    /\ todo = [p \in Process |-> {}]
    /\ list = [p \in Process |-> {}]
    /\ time = 1
    /\ born = [k \in Keys |-> 0]
    /\ rotations = 0 /\ failures = 0

Go(p, s) == at' = [at EXCEPT ![p] = s]

\* A command ends: nothing of it is left but what it wrote.
Return(p) ==
    /\ Go(p, "idle")
    /\ cmd' = [cmd EXCEPT ![p] = "adopt"]
    /\ msg' = [msg EXCEPT ![p] = NoMsg]
    /\ todo' = [todo EXCEPT ![p] = {}]
    /\ list' = [list EXCEPT ![p] = {}]

-----------------------------------------------------------------------------
(* push_rotation *)

\* Sensitivity variant of Mint: the epoch counts rotations, not time.
MintCounter(p, e) ==
    /\ msg' = [msg EXCEPT ![p] = Msg(epoch[Host[p]] + 1, rotations + 1)]
    /\ born' = [born EXCEPT ![rotations + 1] = epoch[Host[p]] + 1]

\* Sensitivity variant of Mint: a clock before the origin is not clamped.
MintUnclamped(p, e) ==
    /\ msg' = [msg EXCEPT ![p] = Msg(e - 3, rotations + 1)]
    /\ born' = [born EXCEPT ![rotations + 1] = e - 3]

Mint(p, e) ==
    /\ msg' = [msg EXCEPT ![p] = Msg(e, rotations + 1)]
    /\ born' = [born EXCEPT ![rotations + 1] = e]

\* Sensitivity variant of Rotate: the key is adopted before it is pushed.
RotateFirst(p) ==
    /\ at[p] = "idle" /\ rotations < MaxRotations
    /\ rotations' = rotations + 1
    /\ \E a \in Advance : time' = time + a
    /\ Mint(p, time' + Skew[Host[p]])
    /\ cmd' = [cmd EXCEPT ![p] = "adopt"]
    /\ Go(p, "reset")
    /\ UNCHANGED <<key, epoch, remote, todo, list, failures>>

\* A fresh key, an epoch from the clock, the peers of the device.
Rotate(p) ==
    /\ at[p] = "idle" /\ rotations < MaxRotations
    /\ rotations' = rotations + 1
    /\ \E a \in Advance : time' = time + a
    /\ Mint(p, time' + Skew[Host[p]])
    /\ todo' = [todo EXCEPT ![p] = Peers[Host[p]]]
    /\ cmd' = [cmd EXCEPT ![p] = "rotate"]
    /\ Go(p, "send")
    /\ UNCHANGED <<key, epoch, remote, list, failures>>

\* transport.push: replaces what this device left for that peer before.
Push(p) ==
    \E to \in todo[p] :
        /\ remote' = [remote EXCEPT ![to][Host[p]] = msg[p]]
        /\ todo' = [todo EXCEPT ![p] = todo[p] \ {to}]

Send(p) ==
    /\ at[p] = "send" /\ todo[p] # {}
    /\ Push(p)
    /\ UNCHANGED <<key, epoch, at, cmd, msg, list, time, born, rotations,
                   failures>>

Sent(p) ==
    /\ at[p] = "send" /\ todo[p] = {}
    /\ Go(p, "reset")
    /\ UNCHANGED <<key, epoch, remote, cmd, msg, todo, list, time, born,
                   rotations, failures>>

-----------------------------------------------------------------------------
(* rotate_vault_key: reset_vault_key, adopt_vault_key, store_epoch *)

\* Sensitivity variant of Reset: the epoch is cleared with the key.
ResetEpoch(p) ==
    /\ at[p] = "reset"
    /\ key' = [key EXCEPT ![Host[p]] = NoKey]
    /\ epoch' = [epoch EXCEPT ![Host[p]] = 0]
    /\ Go(p, "adopt")
    /\ UNCHANGED <<remote, cmd, msg, todo, list, time, born, rotations,
                   failures>>

Reset(p) ==
    /\ at[p] = "reset"
    /\ key' = [key EXCEPT ![Host[p]] = NoKey]
    /\ Go(p, "adopt")
    /\ UNCHANGED <<epoch, remote, cmd, msg, todo, list, time, born, rotations,
                   failures>>

\* adopt_vault_key refuses when another key is there by now: the command fails.
AdoptKey(p) ==
    /\ at[p] = "adopt"
    /\ IF key[Host[p]] \in {NoKey, msg[p].key}
       THEN /\ key' = [key EXCEPT ![Host[p]] = msg[p].key]
            /\ Go(p, "store")
            /\ UNCHANGED <<cmd, msg, todo, list>>
       ELSE Return(p) /\ UNCHANGED key
    /\ UNCHANGED <<epoch, remote, time, born, rotations, failures>>

\* Sensitivity variant of StoreEpoch: an adopted rotation is not passed on.
StoreQuietly(p) ==
    /\ at[p] = "store"
    /\ epoch' = [epoch EXCEPT ![Host[p]] = msg[p].epoch]
    /\ Return(p)
    /\ UNCHANGED <<key, remote, time, born, rotations, failures>>

\* After a rotation the command ends; an adopted one is passed on.
StoreEpoch(p) ==
    /\ at[p] = "store"
    /\ epoch' = [epoch EXCEPT ![Host[p]] = msg[p].epoch]
    /\ IF cmd[p] = "rotate"
       THEN Return(p)
       ELSE /\ Go(p, "gossip")
            /\ todo' = [todo EXCEPT ![p] = Peers[Host[p]]]
            /\ UNCHANGED <<cmd, msg, list>>
    /\ UNCHANGED <<key, remote, time, born, rotations, failures>>

-----------------------------------------------------------------------------
(* adopt_rotations *)

\* transport.list: what peers left for this device.
Adopt(p) ==
    LET left == {q \in Peers[Host[p]] : remote[Host[p]][q].epoch > 0}
    IN  /\ at[p] = "idle" /\ left # {}
        /\ list' = [list EXCEPT ![p] = left]
        /\ Go(p, "look")
        /\ UNCHANGED <<key, epoch, remote, cmd, msg, todo, time, born,
                       rotations, failures>>

\* Sensitivity variant of Fresh: equal and older epochs are adopted too.
FreshAny(m, d) == m.key # key[d]

\* `m.epoch <= vault_epoch' is a stale or replayed rotation.
Fresh(m, d) == m.epoch > epoch[d]

\* The object is pulled, verified, and carried out when it is fresh.
Look(p) ==
    /\ at[p] = "look"
    /\ \E q \in list[p] :
          LET m == remote[Host[p]][q]
          IN  /\ list' = [list EXCEPT ![p] = list[p] \ {q}]
              /\ IF Fresh(m, Host[p])
                 THEN /\ msg' = [msg EXCEPT ![p] = m]
                      /\ Go(p, "reset")
                 ELSE UNCHANGED <<msg, at>>
    /\ UNCHANGED <<key, epoch, remote, cmd, todo, time, born, rotations,
                   failures>>

Looked(p) ==
    /\ at[p] = "look" /\ list[p] = {}
    /\ Return(p)
    /\ UNCHANGED <<key, epoch, remote, time, born, rotations, failures>>

\* rebroadcast: the same epoch and key, signed by this device.
Gossip(p) ==
    /\ at[p] = "gossip" /\ todo[p] # {}
    /\ Push(p)
    /\ UNCHANGED <<key, epoch, at, cmd, msg, list, time, born, rotations,
                   failures>>

Gossiped(p) ==
    /\ at[p] = "gossip" /\ todo[p] = {}
    /\ msg' = [msg EXCEPT ![p] = NoMsg]
    /\ Go(p, "look")
    /\ UNCHANGED <<key, epoch, remote, cmd, todo, list, time, born, rotations,
                   failures>>

-----------------------------------------------------------------------------

\* The process dies, or the transport fails, before the step.
Die(p) ==
    /\ at[p] \in DiesAt \ {"idle"} /\ failures < MaxFailures
    /\ failures' = failures + 1
    /\ Return(p)
    /\ UNCHANGED <<key, epoch, remote, time, born, rotations>>

\* The commands without the decision to rotate.
Work(p) ==
    \/ Send(p) \/ Sent(p) \/ Reset(p) \/ AdoptKey(p) \/ StoreEpoch(p)
    \/ Adopt(p) \/ Look(p) \/ Looked(p) \/ Gossip(p) \/ Gossiped(p)

Next == \E p \in Process : Rotate(p) \/ Work(p) \/ Die(p)

\* Every process keeps running `pai sync' commands, and a command goes on.
Fairness == \A p \in Process : WF_vars(Work(p))

Spec == Init /\ [][Next]_vars
FairSpec == Spec /\ Fairness
-----------------------------------------------------------------------------
MsgType == [epoch : Nat, key : Keys]

TypeOK ==
    /\ key \in [Device -> Keys \cup {NoKey}]
    /\ epoch \in [Device -> Nat]
    /\ remote \in [Device -> [Device -> MsgType]]
    /\ at \in [Process -> Steps]
    /\ cmd \in [Process -> {"rotate", "adopt"}]
    /\ msg \in [Process -> MsgType]
    /\ todo \in [Process -> SUBSET Device]
    /\ list \in [Process -> SUBSET Device]
    /\ time \in Nat /\ born \in [Keys -> Nat]
    /\ rotations \in 0 .. MaxRotations /\ failures \in 0 .. MaxFailures

Quiet(d) == \A p \in Process : Host[p] = d => at[p] = "idle"

\* Devices at the same epoch hold the same key, or they could not read each
\* other's objects and the epoch guard would keep it so ("strictly increasing
\* adoption guard").  A command that died may have left the key without its
\* epoch: of that state KeyNotStale and NoVaultLost speak.
OneKeyPerEpoch ==
    \A d, e \in Device :
        Quiet(d) /\ Quiet(e) /\ epoch[d] = epoch[e] /\ failures = 0
            => key[d] = key[e]

\* Wherever a command dies, the key a device is left with is at least as new as
\* the epoch it is left with: a stale key under a fresh epoch would never be
\* replaced, because the rotation that has the right key counts as adopted.
KeyNotStale ==
    \A d \in Device : key[d] # NoKey => born[key[d]] >= epoch[d]

\* A device that is left without a key will find one: the rotation it was
\* carrying out, or a newer one, has been pushed.  After a second failure that
\* is not so: a rotation whose sender died may be overwritten, in the slots it
\* had pushed to, by an older one which that sender adopts and passes on.
NoVaultLost ==
    \A d \in Device :
        Quiet(d) /\ key[d] = NoKey /\ failures <= 1 =>
            \E to, from \in Device : remote[to][from].epoch > epoch[d]

\* The vault survives its rotations: one key for each epoch, and a device that
\* has lost its key finds one waiting for it (sync_adopt_rotation).
VaultKept == OneKeyPerEpoch /\ NoVaultLost

\* The epoch is the highest one adopted on this device.
EpochNeverGoesBack == [][\A d \in Device : epoch'[d] >= epoch[d]]_vars

\* The newest rotation that was pushed to anyone.
Newest ==
    CHOOSE m \in {remote[to][from] : to \in Device, from \in Device} :
        \A to, from \in Device : remote[to][from].epoch <= m.epoch

\* "A rotation started by one member reaches the whole vault even when the mesh
\* isn't fully connected", and the gossip terminates.
AllNewest == \A d \in Device : epoch[d] = Newest.epoch /\ key[d] = Newest.key
ReachesAll == <>[]AllNewest
=============================================================================
