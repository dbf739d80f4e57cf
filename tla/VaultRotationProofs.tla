------------------------ MODULE VaultRotationProofs ------------------------
(***************************************************************************)
(* For any number of devices, any peer relation (one-sided ones included)  *)
(* and commands that die at any step: with one process on each device and  *)
(* clocks that agree, no device is left with a key older than its epoch.   *)
(* The same proof gives that epochs never go back.  The other keys follow: *)
(* nobody loses the vault key, a pairing gives it only to whom it is meant *)
(* for, and what is written under a circle's tag stays in the circle.      *)
(***************************************************************************)
EXTENDS VaultKeys, FiniteSetTheorems, TLAPS

\* One process at a time works on a device, and the clocks agree.
OneProcess == \A p, q \in Process : Host[p] = Host[q] => p = q
SameClock == \A d \in Device : Skew[d] = 0

\* A message is a rotation that was minted, with the epoch it was minted for.
Genuine(m) ==
    /\ m.key <= rotations /\ born[m.key] = m.epoch
    /\ m.epoch <= time

Honest ==
    /\ Genuine(NoMsg)
    /\ \A to, from \in Device : Genuine(remote[to][from])
    /\ \A p \in Process : Genuine(msg[p])
    /\ \A d \in Device : epoch[d] <= time
    /\ \A d \in Device : key[d] # NoKey => key[d] <= rotations

\* A rotation that is carried out is not behind its device.
Carried ==
    /\ \A p \in Process :
          at[p] \in {"send", "reset", "adopt", "store"} =>
              msg[p].epoch >= epoch[Host[p]]
    /\ \A p \in Process : at[p] = "store" => key[Host[p]] = msg[p].key

IInv == TypeOK /\ Honest /\ Carried /\ KeyNotStale
-----------------------------------------------------------------------------
(* Types                                                                   *)

\* The constants as the other proofs use them.
LEMMA ConstantsTyped ==
    /\ \A p \in Process : Host[p] \in Device
    /\ \A d \in Device : Peers[d] \subseteq Device /\ Skew[d] \in Nat
    /\ MaxRotations \in Nat /\ MaxFailures \in Nat /\ 0 \in Keys
  BY RotationAssumption DEF Keys

\* A step or the end of a command keeps the types of the local state.
LEMMA LocalTyped ==
    ASSUME TypeOK, NEW p \in Process
    PROVE  /\ \A s \in Steps : Go(p, s) => at' \in [Process -> Steps]
           /\ Return(p) => /\ at' \in [Process -> Steps]
                           /\ cmd' \in [Process -> {"rotate", "adopt"}]
                           /\ msg' \in [Process -> MsgType]
                           /\ todo' \in [Process -> SUBSET Device]
                           /\ list' \in [Process -> SUBSET Device]
  <1>1. NoMsg \in MsgType
    BY ConstantsTyped DEF NoMsg, Msg, MsgType
  <1>2. \A s \in Steps : Go(p, s) => at' \in [Process -> Steps]
    BY DEF Go, TypeOK
  <1>3. Return(p) => at' \in [Process -> Steps]
    BY <1>2 DEF Return, Steps
  <1>4. Return(p) => msg' \in [Process -> MsgType]
    BY <1>1 DEF Return, TypeOK
  <1>5. Return(p) => /\ cmd' \in [Process -> {"rotate", "adopt"}]
                     /\ todo' \in [Process -> SUBSET Device]
                     /\ list' \in [Process -> SUBSET Device]
    BY DEF Return, TypeOK
  <1> QED  BY <1>2, <1>3, <1>4, <1>5

\* A push writes what the process carries, for one of its device's peers.
LEMMA PushTyped ==
    ASSUME TypeOK, NEW p \in Process, Push(p)
    PROVE  /\ remote' \in [Device -> [Device -> MsgType]]
           /\ todo' \in [Process -> SUBSET Device]
           /\ \A to, from \in Device : remote'[to][from] \in {remote[to][from], msg[p]}
  <1>1. PICK to \in todo[p] :
            /\ remote' = [remote EXCEPT ![to][Host[p]] = msg[p]]
            /\ todo' = [todo EXCEPT ![p] = todo[p] \ {to}]
    BY DEF Push
  <1>2. to \in Device /\ Host[p] \in Device /\ msg[p] \in MsgType
    BY ConstantsTyped DEF TypeOK
  <1>3. remote' \in [Device -> [Device -> MsgType]]
    BY <1>1, <1>2 DEF TypeOK
  <1>4. todo' \in [Process -> SUBSET Device]
    BY <1>1 DEF TypeOK
  <1>5. \A t, f \in Device : remote'[t][f] \in {remote[t][f], msg[p]}
    BY <1>1, <1>2 DEF TypeOK
  <1> QED  BY <1>3, <1>4, <1>5

\* What minting a key does to the state.
LEMMA MintTyped ==
    ASSUME TypeOK, NEW p \in Process, Rotate(p)
    PROVE  /\ rotations + 1 \in Keys /\ rotations' = rotations + 1
           /\ rotations' \in 0 .. MaxRotations
           /\ time' \in Nat /\ time' >= time
           /\ time' + Skew[Host[p]] \in Nat
           /\ msg' = [msg EXCEPT ![p] = Msg(time' + Skew[Host[p]], rotations + 1)]
           /\ born' = [born EXCEPT ![rotations + 1] = time' + Skew[Host[p]]]
           /\ Msg(time' + Skew[Host[p]], rotations + 1) \in MsgType
  <1>1. rotations \in Nat /\ rotations < MaxRotations
    BY ConstantsTyped DEF TypeOK, Rotate
  <1>2. rotations + 1 \in Keys /\ rotations' = rotations + 1
        /\ rotations' \in 0 .. MaxRotations
    BY <1>1, ConstantsTyped DEF Rotate, Keys
  <1>3. PICK a \in Advance : time' = time + a
    BY DEF Rotate
  <1>4. time' \in Nat /\ time' >= time
    BY <1>3, RotationAssumption DEF TypeOK
  <1>5. time' + Skew[Host[p]] \in Nat
    BY <1>4, ConstantsTyped
  <1>6. /\ msg' = [msg EXCEPT ![p] = Msg(time' + Skew[Host[p]], rotations + 1)]
        /\ born' = [born EXCEPT ![rotations + 1] = time' + Skew[Host[p]]]
    BY DEF Rotate, Mint
  <1>7. Msg(time' + Skew[Host[p]], rotations + 1) \in MsgType
    BY <1>2, <1>5 DEF Msg, MsgType
  <1> QED  BY <1>2, <1>4, <1>5, <1>6, <1>7

LEMMA InitTyped == Init => TypeOK
  <1> SUFFICES ASSUME Init PROVE TypeOK
    OBVIOUS
  <1>1. NoMsg \in MsgType
    BY ConstantsTyped DEF NoMsg, Msg, MsgType
  <1>2. remote \in [Device -> [Device -> MsgType]] /\ msg \in [Process -> MsgType]
    BY <1>1 DEF Init
  <1>3. key \in [Device -> Keys \cup {NoKey}]
    BY ConstantsTyped DEF Init
  <1>4. rotations \in 0 .. MaxRotations /\ failures \in 0 .. MaxFailures
    BY ConstantsTyped DEF Init
  <1>5. /\ epoch \in [Device -> Nat] /\ at \in [Process -> Steps]
        /\ cmd \in [Process -> {"rotate", "adopt"}]
        /\ todo \in [Process -> SUBSET Device] /\ list \in [Process -> SUBSET Device]
        /\ time \in Nat /\ born \in [Keys -> Nat]
    BY DEF Init, Steps
  <1> QED  BY <1>2, <1>3, <1>4, <1>5 DEF TypeOK

LEMMA StepTyped == TypeOK /\ [Next]_vars => TypeOK'
  <1> SUFFICES ASSUME TypeOK, [Next]_vars PROVE TypeOK'
    OBVIOUS
  <1>1. CASE UNCHANGED vars
    BY <1>1 DEF vars, TypeOK, MsgType
  <1>2. ASSUME NEW p \in Process, Rotate(p) \/ Work(p) \/ Die(p) PROVE TypeOK'
    <2> USE <1>2
    <2>h. Host[p] \in Device /\ Peers[Host[p]] \subseteq Device
      BY ConstantsTyped
    <2>m. msg[p] \in MsgType /\ msg[p].key \in Keys /\ msg[p].epoch \in Nat
      BY DEF TypeOK, MsgType
    <2>1. CASE Rotate(p)
      <3>1. msg' \in [Process -> MsgType]
        BY <2>1, MintTyped DEF TypeOK
      <3>2. born' \in [Keys -> Nat]
        BY <2>1, MintTyped DEF TypeOK
      <3>3. at' \in [Process -> Steps]
        BY <2>1, LocalTyped DEF Rotate, Steps
      <3>4. todo' \in [Process -> SUBSET Device]
        BY <2>1, <2>h DEF Rotate, TypeOK
      <3>5. cmd' \in [Process -> {"rotate", "adopt"}]
        BY <2>1 DEF Rotate, TypeOK
      <3>6. rotations' \in 0 .. MaxRotations /\ time' \in Nat
        BY <2>1, MintTyped
      <3> QED
        BY <2>1, <3>1, <3>2, <3>3, <3>4, <3>5, <3>6 DEF Rotate, TypeOK
    <2>2. CASE Send(p)
      BY <2>2, PushTyped DEF Send, TypeOK
    <2>3. CASE Sent(p)
      BY <2>3, LocalTyped DEF Sent, Steps, TypeOK
    <2>4. CASE Reset(p)
      <3>1. key' \in [Device -> Keys \cup {NoKey}]
        BY <2>4 DEF Reset, TypeOK
      <3>2. at' \in [Process -> Steps]
        BY <2>4, LocalTyped DEF Reset, Steps
      <3> QED  BY <2>4, <3>1, <3>2 DEF Reset, TypeOK
    <2>5. CASE AdoptKey(p)
      <3>1. CASE key[Host[p]] \in {NoKey, msg[p].key}
        <4>1. key' \in [Device -> Keys \cup {NoKey}]
          BY <2>5, <2>m, <3>1 DEF AdoptKey, TypeOK
        <4>2. at' \in [Process -> Steps]
          BY <2>5, <3>1, LocalTyped DEF AdoptKey, Steps
        <4> QED  BY <2>5, <3>1, <4>1, <4>2 DEF AdoptKey, TypeOK
      <3>2. CASE key[Host[p]] \notin {NoKey, msg[p].key}
        BY <2>5, <3>2, LocalTyped DEF AdoptKey, TypeOK
      <3> QED  BY <3>1, <3>2
    <2>6. CASE StoreEpoch(p)
      <3>1. epoch' \in [Device -> Nat]
        BY <2>6, <2>m DEF StoreEpoch, TypeOK
      <3>2. CASE cmd[p] = "rotate"
        BY <2>6, <3>1, <3>2, LocalTyped DEF StoreEpoch, TypeOK
      <3>3. CASE cmd[p] # "rotate"
        <4>1. at' \in [Process -> Steps]
          BY <2>6, <3>3, LocalTyped DEF StoreEpoch, Steps
        <4>2. todo' \in [Process -> SUBSET Device]
          BY <2>6, <2>h, <3>3 DEF StoreEpoch, TypeOK
        <4> QED  BY <2>6, <3>1, <3>3, <4>1, <4>2 DEF StoreEpoch, TypeOK
      <3> QED  BY <3>2, <3>3
    <2>7. CASE Adopt(p)
      <3>1. list' \in [Process -> SUBSET Device]
        BY <2>7, <2>h DEF Adopt, TypeOK
      <3>2. at' \in [Process -> Steps]
        BY <2>7, LocalTyped DEF Adopt, Steps
      <3> QED  BY <2>7, <3>1, <3>2 DEF Adopt, TypeOK
    <2>8. CASE Look(p)
      <3>1. PICK q \in list[p] :
                /\ list' = [list EXCEPT ![p] = list[p] \ {q}]
                /\ IF Fresh(remote[Host[p]][q], Host[p])
                   THEN /\ msg' = [msg EXCEPT ![p] = remote[Host[p]][q]]
                        /\ Go(p, "reset")
                   ELSE UNCHANGED <<msg, at>>
        BY <2>8 DEF Look
      <3>2. q \in Device /\ remote[Host[p]][q] \in MsgType
        BY <2>h DEF TypeOK
      <3>3. list' \in [Process -> SUBSET Device]
        BY <3>1 DEF TypeOK
      <3>4. msg' \in [Process -> MsgType]
        BY <3>1, <3>2 DEF TypeOK
      <3>5. at' \in [Process -> Steps]
        BY <3>1, LocalTyped DEF Steps, TypeOK
      <3> QED  BY <2>8, <3>3, <3>4, <3>5 DEF Look, TypeOK
    <2>9. CASE Looked(p)
      BY <2>9, LocalTyped DEF Looked, TypeOK
    <2>10. CASE Gossip(p)
      BY <2>10, PushTyped DEF Gossip, TypeOK
    <2>11. CASE Gossiped(p)
      <3>1. NoMsg \in MsgType
        BY ConstantsTyped DEF NoMsg, Msg, MsgType
      <3>2. msg' \in [Process -> MsgType]
        BY <2>11, <3>1 DEF Gossiped, TypeOK
      <3>3. at' \in [Process -> Steps]
        BY <2>11, LocalTyped DEF Gossiped, Steps
      <3> QED  BY <2>11, <3>2, <3>3 DEF Gossiped, TypeOK
    <2>12. CASE Die(p)
      <3>1. failures' \in 0 .. MaxFailures
        BY <2>12, ConstantsTyped DEF Die, TypeOK
      <3> QED  BY <2>12, <3>1, LocalTyped DEF Die, TypeOK
    <2> QED
      BY <2>1, <2>2, <2>3, <2>4, <2>5, <2>6, <2>7, <2>8, <2>9, <2>10, <2>11, <2>12
      DEF Work
  <1> QED  BY <1>1, <1>2 DEF Next

\* Every reachable state is well typed: keys are minted ones, epochs natural
\* numbers, and every object on the transport is a message.
THEOREM TypeCorrect == Spec => []TypeOK
  <1>1. Init => TypeOK
    BY InitTyped
  <1>2. TypeOK /\ [Next]_vars => TypeOK'
    BY StepTyped
  <1> QED  BY <1>1, <1>2, PTL DEF Spec
-----------------------------------------------------------------------------
(* No stale key                                                            *)

\* What a step does to the minted rotations and to the clock: nothing, or one
\* more rotation is minted for an epoch of now.
LEMMA Minted ==
    ASSUME [Next]_vars
    PROVE  \/ UNCHANGED <<born, time, rotations>>
           \/ \E p \in Process : Rotate(p)
  BY DEF Next, Work, vars, Send, Sent, Reset, AdoptKey, StoreEpoch, Adopt, Look,
         Looked, Gossip, Gossiped, Die

\* A genuine message stays genuine.
LEMMA GenuineKept ==
    ASSUME TypeOK, [Next]_vars, NEW m \in MsgType, Genuine(m)
    PROVE  m.key <= rotations' /\ born'[m.key] = m.epoch /\ m.epoch <= time'
  <1>1. m.key \in Keys /\ m.key \in Nat /\ m.epoch \in Nat
    BY DEF MsgType, Keys
  <1>2. CASE UNCHANGED <<born, time, rotations>>
    BY <1>2 DEF Genuine
  <1>3. ASSUME NEW p \in Process, Rotate(p)
        PROVE  m.key <= rotations' /\ born'[m.key] = m.epoch /\ m.epoch <= time'
    <2>1. /\ rotations' = rotations + 1 /\ time' >= time /\ time' \in Nat
          /\ born' = [born EXCEPT ![rotations + 1] = time' + Skew[Host[p]]]
      BY <1>3, MintTyped
    <2>2. rotations \in Nat /\ time \in Nat /\ born \in [Keys -> Nat]
      BY DEF TypeOK
    <2>3. m.key # rotations + 1
      BY <1>1, <2>2 DEF Genuine
    <2>4. born'[m.key] = born[m.key]
      BY <1>1, <2>1, <2>2, <2>3
    <2> QED  BY <1>1, <2>1, <2>2, <2>4 DEF Genuine
  <1> QED  BY <1>2, <1>3, Minted

\* Where the values of the next state come from when p takes a step.
LEMMA Sources ==
    ASSUME TypeOK, NEW p \in Process, Rotate(p) \/ Work(p) \/ Die(p)
    PROVE  /\ \A to, from \in Device : remote'[to][from] \in {remote[to][from], msg[p]}
           /\ \/ msg'[p] \in {msg[p], NoMsg}
              \/ \E q \in Device : msg'[p] = remote[Host[p]][q]
              \/ Rotate(p)
           /\ epoch'[Host[p]] \in {epoch[Host[p]], msg[p].epoch}
           /\ key'[Host[p]] \in {key[Host[p]], NoKey, msg[p].key}
           /\ \A q \in Process \ {p} : at'[q] = at[q] /\ msg'[q] = msg[q]
           /\ \A d \in Device \ {Host[p]} : epoch'[d] = epoch[d] /\ key'[d] = key[d]
  <1> USE DEF TypeOK
  <1>h. Host[p] \in Device
    BY ConstantsTyped
  <1>1. CASE Rotate(p)
    <2>1. msg' = [msg EXCEPT ![p] = Msg(time' + Skew[Host[p]], rotations + 1)]
      BY <1>1, MintTyped
    <2> QED  BY <1>1, <1>h, <2>1 DEF Rotate, Go
  <1>2. CASE Send(p)
    BY <1>2, PushTyped DEF Send
  <1>3. CASE Sent(p)
    BY <1>3 DEF Sent, Go
  <1>4. CASE Reset(p)
    BY <1>4, <1>h DEF Reset, Go
  <1>5. CASE AdoptKey(p)
    <2>1. CASE key[Host[p]] \in {NoKey, msg[p].key}
      BY <1>5, <1>h, <2>1 DEF AdoptKey, Go
    <2>2. CASE key[Host[p]] \notin {NoKey, msg[p].key}
      BY <1>5, <2>2 DEF AdoptKey, Return, Go
    <2> QED  BY <2>1, <2>2
  <1>6. CASE StoreEpoch(p)
    <2>1. CASE cmd[p] = "rotate"
      BY <1>6, <1>h, <2>1 DEF StoreEpoch, Return, Go
    <2>2. CASE cmd[p] # "rotate"
      BY <1>6, <1>h, <2>2 DEF StoreEpoch, Go
    <2> QED  BY <2>1, <2>2
  <1>7. CASE Adopt(p)
    BY <1>7 DEF Adopt, Go
  <1>8. CASE Look(p)
    <2>1. PICK q \in list[p] :
              IF Fresh(remote[Host[p]][q], Host[p])
              THEN msg' = [msg EXCEPT ![p] = remote[Host[p]][q]] /\ Go(p, "reset")
              ELSE UNCHANGED <<msg, at>>
      BY <1>8 DEF Look
    <2>2. q \in Device
      OBVIOUS
    <2>3. UNCHANGED <<key, epoch, remote>>
      BY <1>8 DEF Look
    <2> QED  BY <2>1, <2>2, <2>3 DEF Go
  <1>9. CASE Looked(p)
    BY <1>9 DEF Looked, Return, Go
  <1>10. CASE Gossip(p)
    BY <1>10, PushTyped DEF Gossip
  <1>11. CASE Gossiped(p)
    BY <1>11 DEF Gossiped, Go
  <1>12. CASE Die(p)
    BY <1>12 DEF Die, Return, Go
  <1> QED
    BY <1>1, <1>2, <1>3, <1>4, <1>5, <1>6, <1>7, <1>8, <1>9, <1>10, <1>11, <1>12
    DEF Work

LEMMA StepHonest ==
    ASSUME TypeOK, Honest, SameClock, [Next]_vars
    PROVE  Honest'
  <1>n. NoMsg \in MsgType
    BY ConstantsTyped DEF NoMsg, Msg, MsgType
  <1>0. Genuine(NoMsg)'
    BY <1>n, GenuineKept DEF Honest, Genuine
  <1>1. CASE UNCHANGED vars
    BY <1>1 DEF vars, Honest, Genuine
  <1>2. ASSUME NEW p \in Process, Rotate(p) \/ Work(p) \/ Die(p) PROVE Honest'
    <2>h. Host[p] \in Device
      BY ConstantsTyped
    <2>k. \A m \in MsgType : Genuine(m) =>
              m.key <= rotations' /\ born'[m.key] = m.epoch /\ m.epoch <= time'
      BY GenuineKept
    <2>t. \A q \in Process : msg[q] \in MsgType /\ Genuine(msg[q])
      BY DEF TypeOK, Honest
    <2>1. \A to, from \in Device : Genuine(remote[to][from])'
      <3> SUFFICES ASSUME NEW to \in Device, NEW from \in Device
                   PROVE  Genuine(remote[to][from])'
        OBVIOUS
      <3>1. remote'[to][from] \in {remote[to][from], msg[p]}
        BY <1>2, Sources
      <3>2. remote'[to][from] \in MsgType /\ Genuine(remote'[to][from])
        BY <2>t, <3>1 DEF TypeOK, Honest
      <3> QED  BY <2>k, <3>2 DEF Genuine
    <2>2. \A q \in Process : Genuine(msg[q])'
      <3> SUFFICES ASSUME NEW q \in Process PROVE Genuine(msg[q])'
        OBVIOUS
      <3>1. CASE q # p
        <4>1. msg'[q] = msg[q]
          BY <1>2, <3>1, Sources
        <4> QED  BY <2>k, <2>t, <4>1 DEF Genuine
      <3>2. CASE q = p /\ ~Rotate(p)
        <4>1. \/ msg'[p] \in {msg[p], NoMsg}
              \/ \E r \in Device : msg'[p] = remote[Host[p]][r]
          BY <1>2, <3>2, Sources
        <4>2. msg'[p] \in MsgType /\ Genuine(msg'[p])
          BY <1>n, <2>h, <2>t, <4>1 DEF TypeOK, Honest
        <4> QED  BY <2>k, <3>2, <4>2 DEF Genuine
      <3>3. CASE q = p /\ Rotate(p)
        <4>1. /\ rotations' = rotations + 1 /\ rotations + 1 \in Keys /\ time' \in Nat
              /\ msg' = [msg EXCEPT ![p] = Msg(time' + Skew[Host[p]], rotations + 1)]
              /\ born' = [born EXCEPT ![rotations + 1] = time' + Skew[Host[p]]]
          BY <3>3, MintTyped
        <4>2. time' + Skew[Host[p]] = time'
          BY <2>h, <4>1 DEF SameClock
        <4>3. msg'[p] = Msg(time', rotations + 1) /\ born'[rotations + 1] = time'
          BY <4>1, <4>2 DEF TypeOK
        <4>4. msg'[p].epoch = time' /\ msg'[p].key = rotations + 1
          BY <4>3 DEF Msg
        <4>5. rotations + 1 <= rotations'
          BY <4>1 DEF TypeOK
        <4>6. time' <= time'
          BY <4>1
        <4> QED  BY <3>3, <4>3, <4>4, <4>5, <4>6 DEF Genuine
      <3> QED  BY <3>1, <3>2, <3>3
    <2>3. \A d \in Device : epoch'[d] <= time'
      <3> SUFFICES ASSUME NEW d \in Device PROVE epoch'[d] <= time'
        OBVIOUS
      <3>1. time' >= time /\ time' \in Nat /\ time \in Nat
        BY StepTyped, Minted, MintTyped DEF TypeOK
      <3>2. epoch'[d] \in {epoch[d], msg[p].epoch}
        BY <1>2, Sources
      <3>3. epoch[d] \in Nat /\ epoch[d] <= time
        BY DEF TypeOK, Honest
      <3>4. msg[p].epoch \in Nat /\ msg[p].epoch <= time'
        BY <2>k, <2>t DEF MsgType
      <3> QED  BY <3>1, <3>2, <3>3, <3>4
    <2>4. \A d \in Device : key'[d] # NoKey => key'[d] <= rotations'
      <3> SUFFICES ASSUME NEW d \in Device, key'[d] # NoKey
                   PROVE  key'[d] <= rotations'
        OBVIOUS
      <3>1. key'[d] \in {key[d], msg[p].key}
        BY <1>2, Sources
      <3>2. CASE key'[d] = msg[p].key
        BY <2>k, <2>t, <3>2
      <3>3. CASE key'[d] = key[d]
        <4>1. key[d] <= rotations /\ key[d] \in Nat /\ rotations \in Nat
          BY <3>3 DEF TypeOK, Honest, Keys
        <4>2. rotations' = rotations \/ rotations' = rotations + 1
          BY Minted, MintTyped
        <4> QED  BY <3>3, <4>1, <4>2
      <3> QED  BY <3>1, <3>2, <3>3
    <2> QED  BY <1>0, <2>1, <2>2, <2>3, <2>4 DEF Honest
  <1> QED  BY <1>1, <1>2 DEF Next
\* Carried and KeyNotStale, for one process and its device.
CarriedBy(p) ==
    /\ at[p] \in {"send", "reset", "adopt", "store"} =>
          msg[p].epoch >= epoch[Host[p]]
    /\ at[p] = "store" => key[Host[p]] = msg[p].key
FreshAt(d) == key[d] # NoKey => born[key[d]] >= epoch[d]

\* A key that stays where it is stays as new as it was.
LEMMA FreshKept ==
    ASSUME TypeOK, Honest, [Next]_vars, NEW d \in Device, FreshAt(d),
           key'[d] = key[d], epoch'[d] = epoch[d]
    PROVE  FreshAt(d)'
  <1>1. CASE UNCHANGED <<born, time, rotations>>
    BY <1>1 DEF FreshAt
  <1>2. ASSUME NEW p \in Process, Rotate(p) PROVE FreshAt(d)'
    <2>1. /\ rotations + 1 \in Keys
          /\ born' = [born EXCEPT ![rotations + 1] = time' + Skew[Host[p]]]
      BY <1>2, MintTyped
    <2>2. SUFFICES ASSUME key[d] # NoKey PROVE born'[key[d]] >= epoch[d]
      BY DEF FreshAt
    <2>3. key[d] \in Keys /\ key[d] \in Nat /\ key[d] <= rotations /\ rotations \in Nat
      BY <2>2 DEF TypeOK, Honest, Keys
    <2>4. key[d] # rotations + 1
      BY <2>3
    <2>5. born'[key[d]] = born[key[d]]
      BY <2>1, <2>3, <2>4 DEF TypeOK
    <2> QED  BY <2>2, <2>5 DEF FreshAt
  <1> QED  BY <1>1, <1>2, Minted

\* The process that takes the step, and the device it works on.
LEMMA OwnStep ==
    ASSUME TypeOK, Honest, Honest', SameClock, NEW p \in Process, CarriedBy(p),
           FreshAt(Host[p]), Rotate(p) \/ Work(p) \/ Die(p)
    PROVE  /\ CarriedBy(p)' /\ FreshAt(Host[p])'
           /\ epoch'[Host[p]] >= epoch[Host[p]]
  <1> DEFINE d == Host[p]
  <1>h. d \in Device
    BY ConstantsTyped
  <1>n. [Next]_vars
    BY DEF Next
  <1>e. epoch[d] \in Nat /\ msg[p].epoch \in Nat /\ msg[p].key \in Keys /\ msg[p].key # NoKey
    BY <1>h, RotationAssumption DEF TypeOK, MsgType, Keys
  <1>g. born[msg[p].key] = msg[p].epoch
    BY DEF Honest, Genuine
  <1> HIDE DEF d
  <1> USE DEF CarriedBy
  <1>k. key'[d] = key[d] /\ epoch'[d] = epoch[d] => FreshAt(d)' /\ epoch'[d] >= epoch[d]
    BY <1>e, <1>h, <1>n, FreshKept DEF d
  <1>i. at'[p] \in {"idle", "look", "gossip"} => CarriedBy(p)'
    OBVIOUS
  <1>1. CASE Rotate(p)
    <2>1. /\ time' \in Nat /\ time' >= time
          /\ msg' = [msg EXCEPT ![p] = Msg(time' + Skew[Host[p]], rotations + 1)]
      BY <1>1, MintTyped
    <2>2. time' + Skew[Host[p]] = time' /\ epoch[d] <= time /\ time \in Nat
      BY <1>h, <2>1 DEF SameClock, d, Honest, TypeOK
    <2>3. msg'[p].epoch = time'
      BY <2>1, <2>2 DEF Msg, TypeOK
    <2>4. key' = key /\ epoch' = epoch /\ at'[p] = "send"
      BY <1>1 DEF Rotate, Go, TypeOK
    <2>5. msg'[p].epoch >= epoch'[d]
      BY <1>e, <2>1, <2>2, <2>3, <2>4
    <2> QED  BY <1>k, <2>4, <2>5 DEF d
  <1>2. CASE Send(p)
    BY <1>2, <1>k DEF Send, d
  <1>3. CASE Sent(p)
    <2>1. at'[p] = "reset" /\ at[p] = "send" /\ UNCHANGED <<key, epoch, msg>>
      BY <1>3 DEF Sent, Go, TypeOK
    <2> QED  BY <1>k, <2>1 DEF d
  <1>4. CASE Reset(p)
    <2>1. at'[p] = "adopt" /\ at[p] = "reset" /\ UNCHANGED <<epoch, msg>>
      BY <1>4 DEF Reset, Go, TypeOK
    <2>2. key'[d] = NoKey
      BY <1>4, <1>h DEF Reset, TypeOK, d
    <2> QED  BY <1>e, <2>1, <2>2 DEF FreshAt, d
  <1>5. CASE AdoptKey(p)
    <2>1. CASE key[d] \in {NoKey, msg[p].key}
      <3>1. at'[p] = "store" /\ at[p] = "adopt"
            /\ UNCHANGED <<epoch, msg, born>> /\ key'[d] = msg[p].key
        BY <1>5, <1>h, <2>1 DEF AdoptKey, Go, TypeOK, d
      <3> QED  BY <1>e, <1>g, <3>1 DEF FreshAt, d
    <2>2. CASE key[d] \notin {NoKey, msg[p].key}
      <3>1. at'[p] = "idle" /\ UNCHANGED <<key, epoch>>
        BY <1>5, <2>2 DEF AdoptKey, Return, Go, TypeOK, d
      <3> QED  BY <1>i, <1>k, <3>1 DEF d
    <2> QED  BY <2>1, <2>2
  <1>6. CASE StoreEpoch(p)
    <2>1. at[p] = "store" /\ UNCHANGED <<key, born>> /\ epoch'[d] = msg[p].epoch
      BY <1>6, <1>h DEF StoreEpoch, TypeOK, d
    <2>2. key[d] = msg[p].key /\ msg[p].epoch >= epoch[d]
      BY <2>1 DEF d
    <2>3. FreshAt(d)' /\ epoch'[d] >= epoch[d]
      BY <1>e, <1>g, <2>1, <2>2 DEF FreshAt
    <2>4. at'[p] \in {"idle", "gossip"}
      <3>1. CASE cmd[p] = "rotate"
        BY <1>6, <3>1 DEF StoreEpoch, Return, Go, TypeOK
      <3>2. CASE cmd[p] # "rotate"
        BY <1>6, <3>2 DEF StoreEpoch, Go, TypeOK
      <3> QED  BY <3>1, <3>2
    <2> QED  BY <1>i, <2>3, <2>4 DEF d
  <1>7. CASE Adopt(p)
    <2>1. at'[p] = "look" /\ UNCHANGED <<key, epoch>>
      BY <1>7 DEF Adopt, Go, TypeOK
    <2> QED  BY <1>i, <1>k, <2>1 DEF d
  <1>8. CASE Look(p)
    <2>1. at[p] = "look" /\ UNCHANGED <<key, epoch>>
      BY <1>8 DEF Look
    <2>2. PICK q \in list[p] :
              IF Fresh(remote[d][q], d)
              THEN msg' = [msg EXCEPT ![p] = remote[d][q]] /\ Go(p, "reset")
              ELSE UNCHANGED <<msg, at>>
      BY <1>8 DEF Look, d
    <2>3. CASE Fresh(remote[d][q], d)
      <3>1. at'[p] = "reset" /\ msg'[p] = remote[d][q]
        BY <2>2, <2>3 DEF Go, TypeOK
      <3>2. q \in Device /\ remote[d][q].epoch \in Nat
        BY <1>h DEF TypeOK, MsgType
      <3>3. msg'[p].epoch >= epoch'[d]
        BY <1>e, <2>1, <2>3, <3>1, <3>2 DEF Fresh
      <3> QED  BY <1>k, <2>1, <3>1, <3>3 DEF d
    <2>4. CASE ~Fresh(remote[d][q], d)
      <3>1. at'[p] = "look"
        BY <2>1, <2>2, <2>4
      <3> QED  BY <1>i, <1>k, <2>1, <3>1 DEF d
    <2> QED  BY <2>3, <2>4
  <1>9. CASE Looked(p)
    <2>1. at'[p] = "idle" /\ UNCHANGED <<key, epoch>>
      BY <1>9 DEF Looked, Return, Go, TypeOK
    <2> QED  BY <1>i, <1>k, <2>1 DEF d
  <1>10. CASE Gossip(p)
    BY <1>10, <1>i, <1>k DEF Gossip, d
  <1>11. CASE Gossiped(p)
    <2>1. at'[p] = "look" /\ UNCHANGED <<key, epoch>>
      BY <1>11 DEF Gossiped, Go, TypeOK
    <2> QED  BY <1>i, <1>k, <2>1 DEF d
  <1>12. CASE Die(p)
    <2>1. at'[p] = "idle" /\ UNCHANGED <<key, epoch>>
      BY <1>12 DEF Die, Return, Go, TypeOK
    <2> QED  BY <1>i, <1>k, <2>1 DEF d
  <1> QED
    BY <1>1, <1>2, <1>3, <1>4, <1>5, <1>6, <1>7, <1>8, <1>9, <1>10, <1>11, <1>12
    DEF Work

\* The inductive step, and with it that no epoch goes back: the other processes
\* work on other devices.
LEMMA StepIInv ==
    ASSUME IInv, OneProcess, SameClock, [Next]_vars
    PROVE  IInv' /\ \A d \in Device : epoch'[d] >= epoch[d]
  <1>1. TypeOK' /\ Honest'
    BY StepTyped, StepHonest DEF IInv
  <1>2. \A p \in Process : CarriedBy(p)
    BY DEF IInv, Carried, CarriedBy
  <1>3. \A d \in Device : FreshAt(d)
    BY DEF IInv, KeyNotStale, FreshAt
  <1>4. (\A p \in Process : CarriedBy(p)') /\ (\A d \in Device : FreshAt(d)')
        /\ \A d \in Device : epoch'[d] >= epoch[d]
    <2>1. CASE UNCHANGED vars
      <3>1. \A d \in Device : epoch[d] \in Nat
        BY DEF IInv, TypeOK
      <3> QED  BY <1>2, <1>3, <2>1, <3>1 DEF vars, CarriedBy, FreshAt
    <2>2. ASSUME NEW p \in Process, Rotate(p) \/ Work(p) \/ Die(p)
          PROVE  /\ \A q \in Process : CarriedBy(q)'
                 /\ \A d \in Device : FreshAt(d)' /\ epoch'[d] >= epoch[d]
      <3>1. Host[p] \in Device /\ TypeOK /\ Honest
        BY ConstantsTyped DEF IInv
      <3>2. CarriedBy(p)' /\ FreshAt(Host[p])' /\ epoch'[Host[p]] >= epoch[Host[p]]
        BY <1>1, <1>2, <1>3, <2>2, <3>1, OwnStep
      <3>3. ASSUME NEW d \in Device, d # Host[p]
            PROVE  FreshAt(d)' /\ epoch'[d] >= epoch[d]
        <4>1. epoch'[d] = epoch[d] /\ key'[d] = key[d] /\ epoch[d] \in Nat
          BY <2>2, <3>1, <3>3, Sources DEF TypeOK
        <4> QED  BY <1>3, <3>1, <4>1, FreshKept
      <3>4. ASSUME NEW q \in Process, q # p PROVE CarriedBy(q)'
        <4>1. Host[q] # Host[p] /\ Host[q] \in Device
          BY <3>4, ConstantsTyped DEF OneProcess
        <4>2. /\ epoch'[Host[q]] = epoch[Host[q]] /\ key'[Host[q]] = key[Host[q]]
              /\ at'[q] = at[q] /\ msg'[q] = msg[q]
          BY <2>2, <3>1, <3>4, <4>1, Sources
        <4> QED  BY <1>2, <4>2 DEF CarriedBy
      <3> QED  BY <3>2, <3>3, <3>4
    <2> QED  BY <2>1, <2>2 DEF Next
  <1>5. Carried' /\ KeyNotStale'
    BY <1>4 DEF Carried, CarriedBy, KeyNotStale, FreshAt
  <1> QED  BY <1>1, <1>4, <1>5 DEF IInv

LEMMA InitIInv == Init => IInv
  <1> SUFFICES ASSUME Init PROVE IInv
    OBVIOUS
  <1>1. TypeOK
    BY InitTyped
  <1>2. NoMsg.key = 0 /\ NoMsg.epoch = 0 /\ 0 \in Keys
    BY ConstantsTyped DEF NoMsg, Msg
  <1>3. Genuine(NoMsg)
    BY <1>2 DEF Init, Genuine
  <1>4. Honest
    BY <1>3, ConstantsTyped DEF Init, Honest
  <1>5. Carried
    BY DEF Init, Carried
  <1>6. KeyNotStale
    BY <1>2 DEF Init, KeyNotStale
  <1> QED  BY <1>1, <1>4, <1>5, <1>6 DEF IInv

\* Wherever rotate, adopt and gossip commands die, and whatever the peer
\* relation is, the key a device is left with is at least as new as its epoch:
\* the next adoption repairs what a crash left.
THEOREM NoStaleKey == OneProcess /\ SameClock => (Spec => []KeyNotStale)
  <1> SUFFICES ASSUME OneProcess, SameClock PROVE Spec => []KeyNotStale
    OBVIOUS
  <1>1. Init => IInv
    BY InitIInv
  <1>2. IInv /\ [Next]_vars => IInv'
    BY StepIInv
  <1>3. IInv => KeyNotStale
    BY DEF IInv
  <1> QED  BY <1>1, <1>2, <1>3, PTL DEF Spec

\* The epoch of a device is the highest it ever adopted.
THEOREM EpochsOnlyGrow == OneProcess /\ SameClock => (Spec => EpochNeverGoesBack)
  <1> SUFFICES ASSUME OneProcess, SameClock PROVE Spec => EpochNeverGoesBack
    OBVIOUS
  <1>1. Init => IInv
    BY InitIInv
  <1>2. IInv /\ [Next]_vars =>
            IInv' /\ [\A d \in Device : epoch'[d] >= epoch[d]]_vars
    BY StepIInv
  <1> QED  BY <1>1, <1>2, PTL DEF Spec, EpochNeverGoesBack
-----------------------------------------------------------------------------
(* The vault is kept                                                       *)

\* Two rotations are not of the same millisecond, and nobody rotates alone.
ClockAdvances == 0 \notin Advance
HasPeers == \A d \in Device : Peers[d] # {}

\* How far a process that rotates or adopts has come.
Course(p) ==
    /\ at[p] \in {"send", "reset", "adopt", "store"} =>
          msg[p].epoch > epoch[Host[p]]
    /\ at[p] = "send" =>
          /\ cmd[p] = "rotate"
          /\ \A to \in Peers[Host[p]] \ todo[p] : remote[to][Host[p]] = msg[p]
    /\ at[p] = "adopt" => key[Host[p]] = NoKey
    /\ at[p] = "gossip" =>
          msg[p].epoch = epoch[Host[p]] /\ key[Host[p]] # NoKey

\* No two keys were minted for the same epoch, and none for one to come.
BornApart ==
    /\ \A i \in Keys : i <= rotations => born[i] <= time
    /\ \A i, j \in Keys :
          i <= rotations /\ j <= rotations /\ born[i] = born[j] => i = j

At(d, s) == \E p \in Process : Host[p] = d /\ at[p] \in s

\* Before any failure a device holds the key of its epoch, except while it
\* changes both.
Whole(d) ==
    failures = 0 /\ ~At(d, {"adopt", "store"}) =>
        key[d] # NoKey /\ born[key[d]] = epoch[d]

\* What q has pushed is not newer than what it adopted or is about to adopt.
InOrder(q) ==
    \A to \in Device :
        \/ remote[to][q].epoch <= epoch[q]
        \/ \E p \in Process :
              /\ Host[p] = q /\ at[p] \in {"send", "reset", "adopt", "store"}
              /\ cmd[p] = "rotate" /\ remote[to][q].epoch <= msg[p].epoch

\* A rotation newer than d's epoch lies on the transport, from d or for d.
Ahead(d) ==
    \E q \in Device :
        remote[q][d].epoch > epoch[d] \/ remote[d][q].epoch > epoch[d]

\* d would be left without a key if it died now, or has been.
Exposed(d) ==
    \/ failures = 0 /\ At(d, {"reset", "adopt"})
    \/ failures = 1 /\ key[d] = NoKey /\ ~At(d, {"adopt"})

VInv ==
    /\ \A p \in Process : Course(p)
    /\ BornApart
    /\ \A d \in Device : Whole(d)
    /\ failures = 0 => \A q \in Device : InOrder(q)
    /\ \A d \in Device :
          Exposed(d) => Ahead(d) /\ \A q \in Device \ {d} : InOrder(q)

\* InOrder and At for the one process of a device.
InOrderBy(p) ==
    \A to \in Device :
        \/ remote[to][Host[p]].epoch <= epoch[Host[p]]
        \/ /\ at[p] \in {"send", "reset", "adopt", "store"} /\ cmd[p] = "rotate"
           /\ remote[to][Host[p]].epoch <= msg[p].epoch

LEMMA OneAt ==
    ASSUME OneProcess, NEW p \in Process, NEW s
    PROVE  (At(Host[p], s) <=> at[p] \in s) /\ (At(Host[p], s)' <=> at'[p] \in s)
  BY DEF OneProcess, At

LEMMA OneInOrder ==
    ASSUME OneProcess, NEW p \in Process
    PROVE  (InOrder(Host[p]) <=> InOrderBy(p)) /\ (InOrder(Host[p])' <=> InOrderBy(p)')
  <1>1. \A q \in Process : Host[q] = Host[p] <=> q = p
    BY DEF OneProcess
  <1> QED  BY <1>1 DEF InOrder, InOrderBy

\* What p's step leaves alone: other processes, other devices, and on the
\* transport what other devices left.
LEMMA Frame ==
    ASSUME TypeOK, NEW p \in Process, Rotate(p) \/ Work(p) \/ Die(p)
    PROVE  /\ \A q \in Process \ {p} :
                 at'[q] = at[q] /\ cmd'[q] = cmd[q] /\ msg'[q] = msg[q] /\ todo'[q] = todo[q]
           /\ \A d \in Device \ {Host[p]} :
                 /\ epoch'[d] = epoch[d] /\ key'[d] = key[d]
                 /\ \A to \in Device : remote'[to][d] = remote[to][d]
           /\ failures' = IF Die(p) THEN failures + 1 ELSE failures
  <1> USE DEF TypeOK
  <1>h. Host[p] \in Device
    BY ConstantsTyped
  <1>p. ASSUME Push(p)
        PROVE  /\ \A q \in Process \ {p} : todo'[q] = todo[q]
               /\ \A d \in Device \ {Host[p]}, to \in Device : remote'[to][d] = remote[to][d]
    <2>1. PICK to \in todo[p] :
              /\ remote' = [remote EXCEPT ![to][Host[p]] = msg[p]]
              /\ todo' = [todo EXCEPT ![p] = todo[p] \ {to}]
      BY <1>p DEF Push
    <2> QED  BY <1>h, <2>1
  <1>1. \A q \in Process \ {p} :
            at'[q] = at[q] /\ cmd'[q] = cmd[q] /\ msg'[q] = msg[q] /\ todo'[q] = todo[q]
    <2>1. CASE Rotate(p)
      BY <2>1, MintTyped, ZenonT(60), SMTT(60) DEF Rotate, Go
    <2>2. CASE Send(p) \/ Sent(p)
      BY <2>2, <1>p DEF Send, Sent, Go
    <2>3. CASE Reset(p) \/ Adopt(p)
      BY <2>3 DEF Reset, Adopt, Go
    <2>4. CASE AdoptKey(p)
      BY <2>4 DEF AdoptKey, Return, Go
    <2>5. CASE StoreEpoch(p)
      BY <2>5 DEF StoreEpoch, Return, Go
    <2>6. CASE Look(p)
      BY <2>6 DEF Look, Go
    <2>7. CASE Looked(p) \/ Die(p)
      BY <2>7 DEF Looked, Die, Return, Go
    <2>8. CASE Gossip(p) \/ Gossiped(p)
      BY <2>8, <1>p DEF Gossip, Gossiped, Go
    <2> QED  BY <2>1, <2>2, <2>3, <2>4, <2>5, <2>6, <2>7, <2>8 DEF Work
  <1>2. \A d \in Device \ {Host[p]}, to \in Device : remote'[to][d] = remote[to][d]
    BY <1>p DEF Work, Rotate, Send, Sent, Reset, AdoptKey, StoreEpoch, Adopt,
       Look, Looked, Gossip, Gossiped, Die
  <1>3. failures' = IF Die(p) THEN failures + 1 ELSE failures
    BY DEF Work, Rotate, Send, Sent, Reset, AdoptKey, StoreEpoch, Adopt,
       Look, Looked, Gossip, Gossiped, Die
  <1> QED  BY <1>1, <1>2, <1>3, Sources

\* Minting keeps the epochs of the minted keys apart.
LEMMA BornStep ==
    ASSUME TypeOK, SameClock, ClockAdvances, BornApart, [Next]_vars
    PROVE  /\ BornApart'
           /\ \A k \in Keys : k <= rotations => born'[k] = born[k] /\ k <= rotations'
  <1>t. rotations \in Nat /\ time \in Nat /\ born \in [Keys -> Nat]
        /\ \A k \in Keys : k \in Nat
    BY DEF TypeOK, Keys
  <1>1. CASE UNCHANGED <<born, time, rotations>>
    BY <1>1 DEF BornApart
  <1>2. ASSUME NEW p \in Process, Rotate(p)
        PROVE  /\ BornApart'
               /\ \A k \in Keys : k <= rotations => born'[k] = born[k] /\ k <= rotations'
    <2>1. PICK a \in Advance : time' = time + a
      BY <1>2 DEF Rotate
    <2>2. time' \in Nat /\ time' > time
      BY <1>t, <2>1, RotationAssumption DEF ClockAdvances
    <2>3. Skew[Host[p]] = 0
      BY ConstantsTyped DEF SameClock
    <2>4. rotations' = rotations + 1 /\ born' = [born EXCEPT ![rotations + 1] = time']
          /\ rotations + 1 \in Keys
      BY <1>2, <2>2, <2>3, MintTyped
    <2>5. \A k \in Keys : k <= rotations => born'[k] = born[k] /\ k <= rotations'
      BY <1>t, <2>4
    <2>6. born'[rotations + 1] = time'
      BY <1>t, <2>4
    <2>7. \A k \in Keys : k <= rotations' => k = rotations + 1 \/ k <= rotations
      BY <1>t, <2>4
    <2>8. \A k \in Keys : k <= rotations => born'[k] < time' /\ born'[k] \in Nat
      BY <1>t, <2>2, <2>5 DEF BornApart
    <2>9. \A k \in Keys : k <= rotations' => born'[k] <= time'
      BY <2>2, <2>6, <2>7, <2>8
    <2>10. ASSUME NEW i \in Keys, NEW j \in Keys, i <= rotations', j <= rotations',
                  born'[i] = born'[j]
           PROVE  i = j
      <3>1. CASE i <= rotations /\ j <= rotations
        BY <2>5, <2>10, <3>1 DEF BornApart
      <3>2. CASE i = rotations + 1 /\ j <= rotations
        BY <2>2, <2>6, <2>8, <2>10, <3>2
      <3>3. CASE j = rotations + 1 /\ i <= rotations
        BY <2>2, <2>6, <2>8, <2>10, <3>3
      <3> QED  BY <2>7, <2>10, <3>1, <3>2, <3>3
    <2> QED  BY <2>5, <2>9, <2>10 DEF BornApart
  <1> QED  BY <1>1, <1>2, Minted

\* What VInv asks of process p, which works on d.
Kept(p, d) == Course(p) /\ Whole(d) /\ (Exposed(d) => Ahead(d))

\* The process that takes the step, and its device.
LEMMA OwnKept ==
    ASSUME IInv, TypeOK', OneProcess, SameClock, ClockAdvances, HasPeers, BornApart,
           NEW p \in Process, NEW d \in Device, d = Host[p],
           Rotate(p) \/ Work(p) \/ Die(p), Kept(p, d)
    PROVE  /\ Kept(p, d)'
           /\ InOrderBy(p) /\ ~Die(p) =>
                 /\ InOrderBy(p)'
                 /\ \A to \in Device : remote'[to][d].epoch >= remote[to][d].epoch
           /\ Exposed(d)' => failures = 0 \/ Exposed(d)
  <1> DEFINE Done == /\ Kept(p, d)'
                     /\ InOrderBy(p) /\ ~Die(p) =>
                           /\ InOrderBy(p)'
                           /\ \A to \in Device :
                                 remote'[to][d].epoch >= remote[to][d].epoch
                     /\ Exposed(d)' => failures = 0 \/ Exposed(d)
  <1>t. TypeOK /\ Peers[d] \subseteq Device /\ Peers[d] # {}
        /\ Skew[d] = 0 /\ failures \in Nat
    BY ConstantsTyped DEF IInv, TypeOK, HasPeers, SameClock
  <1>n. [Next]_vars
    BY DEF Next
  <1>m. \A m \in MsgType :
            m.epoch \in Nat /\ m.key \in Keys /\ m.key # NoKey
    BY RotationAssumption DEF MsgType, Keys
  <1>e. /\ epoch[d] \in Nat /\ msg[p] \in MsgType
        /\ msg[p].epoch \in Nat /\ msg[p].key \in Keys /\ msg[p].key # NoKey
        /\ \A to, from \in Device : remote[to][from].epoch \in Nat
    BY <1>t, <1>m DEF TypeOK
  <1>g. /\ msg[p].key <= rotations /\ born[msg[p].key] = msg[p].epoch
        /\ epoch[d] <= time /\ time \in Nat
    BY <1>t DEF TypeOK, IInv, Honest, Genuine
  <1>k. key[d] # NoKey => key[d] \in Keys /\ born'[key[d]] = born[key[d]]
    BY <1>t, <1>n, BornStep DEF IInv, Honest, TypeOK
  <1>b. born'[msg[p].key] = msg[p].epoch
    BY <1>e, <1>g, <1>t, <1>n, BornStep
  <1>a. \A s : (At(d, s) <=> at[p] \in s) /\ (At(d, s)' <=> at'[p] \in s)
    BY DEF OneProcess, At
  <1>c. at[p] = "store" => key[d] = msg[p].key
    BY DEF IInv, Carried
  <1>f. failures' = IF Die(p) THEN failures + 1 ELSE failures
    BY <1>t, Frame
  \* A step that leaves the transport, the epoch and the key.
  <1>q. ASSUME UNCHANGED <<key, epoch, remote>>, ~Die(p),
               at[p] \notin {"adopt", "store"}, at'[p] \notin {"reset", "adopt", "store"},
               at[p] \in {"send", "reset"} => at'[p] = at[p] /\ msg'[p] = msg[p] /\ cmd'[p] = cmd[p],
               Course(p)'
        PROVE  Done
    <2>1. Whole(d)'
      BY <1>a, <1>f, <1>k, <1>q DEF Kept, Whole
    <2>2. Exposed(d)' => failures' = 1 /\ failures = 1 /\ Exposed(d)
      BY <1>a, <1>f, <1>q DEF Exposed
    <2>3. Exposed(d)' => Ahead(d)'
      BY <2>2, <1>q DEF Kept, Ahead
    <2>4. InOrderBy(p) => InOrderBy(p)'
      BY <1>q DEF InOrderBy
    <2>5. \A to \in Device : remote'[to][d].epoch >= remote[to][d].epoch
      BY <1>q, <1>e
    <2> QED  BY <1>q, <2>1, <2>2, <2>3, <2>4, <2>5 DEF Kept
  <1>1. CASE Rotate(p)
    <2>1. /\ UNCHANGED <<key, epoch, remote>> /\ at[p] = "idle" /\ at'[p] = "send"
          /\ cmd'[p] = "rotate" /\ todo'[p] = Peers[d]
      BY <1>1, <1>t DEF Rotate, Go, TypeOK
    <2>2. ~Die(p)
      BY <2>1 DEF Die
    <2>3. PICK a \in Advance : time' = time + a
      BY <1>1 DEF Rotate
    <2>4. msg'[p].epoch = time'
      <3>1. msg' = [msg EXCEPT ![p] = Msg(time' + Skew[d], rotations + 1)]
        BY <1>1, <1>t, MintTyped
      <3>2. time' \in Nat /\ \A n \in Nat : n + 0 = n
        BY DEF TypeOK
      <3>3. time' + 0 = time'
        BY <3>2
      <3>4. msg'[p] = Msg(time', rotations + 1)
        BY <1>t, <3>1, <3>3 DEF TypeOK
      <3> QED  BY <3>4 DEF Msg
    <2>5. a \in Nat /\ a # 0
      BY RotationAssumption DEF ClockAdvances
    <2>6. time' > time /\ time' \in Nat
      BY <1>g, <2>3, <2>5
    <2>7. msg'[p].epoch > epoch'[d]
      BY <1>e, <1>g, <2>1, <2>4, <2>6
    <2>8. Course(p)'
      BY <2>1, <2>7 DEF Course
    <2> QED  BY <1>q, <2>1, <2>2, <2>8
  <1>3. CASE Sent(p)
    <2>1. /\ UNCHANGED <<key, epoch, remote, cmd, msg>> /\ at[p] = "send"
          /\ at'[p] = "reset" /\ todo[p] = {} /\ ~Die(p)
      BY <1>3, <1>t DEF Sent, Go, TypeOK, Die
    <2>2. Course(p)'
      BY <2>1 DEF Course, Kept
    <2>3. PICK to \in Peers[d] : remote[to][d] = msg[p]
      BY <1>t, <2>1 DEF Kept, Course
    <2>4. Ahead(d)'
      BY <1>t, <2>1, <2>3 DEF Kept, Course, Ahead
    <2>5. Exposed(d)' => failures = 0 \/ Exposed(d)
      BY <1>a, <1>f, <2>1 DEF Exposed
    <2>6. Whole(d)'
      BY <1>a, <1>f, <1>k, <2>1 DEF Kept, Whole
    <2>7. InOrderBy(p) => InOrderBy(p)'
      BY <2>1 DEF InOrderBy
    <2>8. \A q \in Device : remote'[q][d].epoch >= remote[q][d].epoch
      BY <2>1, <1>e
    <2> QED  BY <2>2, <2>4, <2>5, <2>6, <2>7, <2>8 DEF Kept
  <1>4. CASE Reset(p)
    <2>1. /\ UNCHANGED <<epoch, remote, cmd, msg>> /\ at[p] = "reset"
          /\ at'[p] = "adopt" /\ key'[d] = NoKey /\ ~Die(p)
      BY <1>4, <1>t DEF Reset, Go, TypeOK, Die
    <2>2. Course(p)'
      BY <2>1 DEF Course, Kept
    <2>3. Exposed(d)' => failures = 0 /\ Exposed(d)
      BY <1>a, <1>f, <2>1 DEF Exposed
    <2>4. Exposed(d)' => Ahead(d)'
      BY <2>1, <2>3 DEF Kept, Ahead
    <2>5. Whole(d)'
      BY <1>a, <2>1 DEF Whole
    <2>6. InOrderBy(p) => InOrderBy(p)'
      BY <2>1 DEF InOrderBy
    <2>7. \A q \in Device : remote'[q][d].epoch >= remote[q][d].epoch
      BY <2>1, <1>e
    <2> QED  BY <2>2, <2>3, <2>4, <2>5, <2>6, <2>7 DEF Kept
  <1>5. CASE AdoptKey(p)
    <2>1. at[p] = "adopt" /\ key[d] = NoKey
      BY <1>5 DEF AdoptKey, Kept, Course
    <2>2. /\ UNCHANGED <<epoch, remote, cmd, msg>>
          /\ at'[p] = "store" /\ key'[d] = msg[p].key /\ ~Die(p)
      BY <1>5, <1>t, <2>1 DEF AdoptKey, Go, TypeOK, Die
    <2>3. Course(p)'
      BY <2>1, <2>2 DEF Course, Kept
    <2>4. ~Exposed(d)'
      BY <1>a, <1>e, <2>2 DEF Exposed
    <2>5. Whole(d)'
      BY <1>a, <2>2 DEF Whole
    <2>6. InOrderBy(p) => InOrderBy(p)'
      BY <2>1, <2>2 DEF InOrderBy
    <2>7. \A q \in Device : remote'[q][d].epoch >= remote[q][d].epoch
      BY <2>2, <1>e
    <2> QED  BY <2>3, <2>4, <2>5, <2>6, <2>7 DEF Kept
  <1>6. CASE StoreEpoch(p)
    <2>1. /\ UNCHANGED <<key, remote>> /\ at[p] = "store"
          /\ epoch'[d] = msg[p].epoch /\ ~Die(p)
      BY <1>6, <1>t DEF StoreEpoch, TypeOK, Die
    <2>2. key[d] = msg[p].key /\ msg[p].epoch > epoch[d]
      BY <1>c, <2>1 DEF Kept, Course
    <2>3. \/ at'[p] = "idle" /\ cmd[p] = "rotate"
          \/ at'[p] = "gossip" /\ UNCHANGED msg
      <3>1. CASE cmd[p] = "rotate"
        BY <1>6, <3>1 DEF StoreEpoch, Return, Go, TypeOK
      <3>2. CASE cmd[p] # "rotate"
        BY <1>6, <3>2 DEF StoreEpoch, Go, TypeOK
      <3> QED  BY <3>1, <3>2
    <2>4. Course(p)'
      BY <1>e, <2>1, <2>2, <2>3 DEF Course
    <2>5. ~Exposed(d)'
      BY <1>a, <1>e, <2>1, <2>2, <2>3 DEF Exposed
    <2>6. Whole(d)'
      BY <1>b, <1>e, <2>1, <2>2 DEF Whole
    <2>7. InOrderBy(p) => InOrderBy(p)'
      <3> SUFFICES ASSUME InOrderBy(p), NEW to \in Device
                   PROVE  remote'[to][d].epoch <= epoch'[d]
        BY DEF InOrderBy
      <3>1. remote[to][d].epoch <= epoch[d] \/ remote[to][d].epoch <= msg[p].epoch
        BY DEF InOrderBy
      <3> QED  BY <1>e, <2>1, <2>2, <3>1
    <2>8. \A q \in Device : remote'[q][d].epoch >= remote[q][d].epoch
      BY <2>1, <1>e
    <2> QED  BY <2>4, <2>5, <2>6, <2>7, <2>8 DEF Kept
  <1>7. CASE Adopt(p)
    <2>1. /\ UNCHANGED <<key, epoch, remote>> /\ at[p] = "idle"
          /\ at'[p] = "look" /\ ~Die(p)
      BY <1>7 DEF Adopt, Go, TypeOK, Die
    <2>2. Course(p)'
      BY <2>1 DEF Course
    <2> QED  BY <1>q, <2>1, <2>2
  <1>8. CASE Look(p)
    <2>1. /\ UNCHANGED <<key, epoch, remote, cmd>> /\ at[p] = "look"
      BY <1>8 DEF Look
    <2>2. PICK q \in list[p] :
              IF Fresh(remote[d][q], d)
              THEN msg' = [msg EXCEPT ![p] = remote[d][q]] /\ Go(p, "reset")
              ELSE UNCHANGED <<msg, at>>
      BY <1>8 DEF Look
    <2>d. ~Die(p)
      BY <1>8, <1>t DEF Look, Die
    <2>3. CASE Fresh(remote[d][q], d)
      <3>1. at'[p] = "reset" /\ msg'[p] = remote[d][q] /\ q \in Device
        BY <1>t, <2>2, <2>3 DEF Go, TypeOK
      <3>2. remote[d][q].epoch > epoch[d]
        BY <2>3 DEF Fresh
      <3>3. Course(p)'
        BY <2>1, <3>1, <3>2 DEF Course
      <3>4. Ahead(d)'
        BY <2>1, <3>1, <3>2 DEF Ahead
      <3>5. Exposed(d)' => failures = 0 \/ Exposed(d)
        BY <1>a, <1>f, <2>1, <2>d, <3>1 DEF Exposed
      <3>6. Whole(d)'
        BY <1>a, <1>f, <1>k, <2>1, <2>d DEF Kept, Whole
      <3>7. InOrderBy(p) => InOrderBy(p)'
        BY <2>1 DEF InOrderBy
      <3>8. \A to \in Device : remote'[to][d].epoch >= remote[to][d].epoch
        BY <2>1, <1>e
      <3> QED  BY <3>3, <3>4, <3>5, <3>6, <3>7, <3>8 DEF Kept
    <2>4. CASE ~Fresh(remote[d][q], d)
      <3>1. at'[p] = "look"
        BY <2>1, <2>2, <2>4
      <3>2. Course(p)'
        BY <3>1 DEF Course
      <3> QED  BY <1>q, <2>1, <2>d, <3>1, <3>2
    <2> QED  BY <2>3, <2>4
  <1>9. CASE Looked(p)
    <2>1. /\ UNCHANGED <<key, epoch, remote>> /\ at[p] = "look" /\ at'[p] = "idle"
          /\ ~Die(p)
      BY <1>9, <1>t DEF Looked, Return, Go, TypeOK, Die
    <2>2. Course(p)'
      BY <2>1 DEF Course
    <2> QED  BY <1>q, <2>1, <2>2
  <1>11. CASE Gossiped(p)
    <2>1. /\ UNCHANGED <<key, epoch, remote>> /\ at[p] = "gossip" /\ at'[p] = "look"
          /\ ~Die(p)
      BY <1>11, <1>t DEF Gossiped, Go, TypeOK, Die
    <2>2. Course(p)'
      BY <2>1 DEF Course
    <2> QED  BY <1>q, <2>1, <2>2
  <1>12. CASE Die(p)
    <2>1. /\ UNCHANGED <<key, epoch, remote>> /\ at'[p] = "idle"
          /\ failures' = failures + 1
      BY <1>12, <1>t DEF Die, Return, Go, TypeOK
    <2>2. Course(p)' /\ Whole(d)'
      BY <1>t, <2>1 DEF Course, Whole
    <2>3. ASSUME Exposed(d)' PROVE failures = 0 /\ Exposed(d)
      <3>1. failures = 0 /\ key[d] = NoKey
        BY <1>t, <2>1, <2>3 DEF Exposed
      <3>2. at[p] \in {"adopt", "store"}
        BY <1>a, <3>1 DEF Kept, Whole
      <3>3. at[p] = "adopt"
        BY <1>c, <1>e, <3>1, <3>2
      <3> QED  BY <1>a, <3>1, <3>3 DEF Exposed
    <2>4. Exposed(d)' => Ahead(d)'
      BY <2>1, <2>3 DEF Kept, Ahead
    <2> QED  BY <1>12, <2>2, <2>3, <2>4 DEF Kept
  <1>2. CASE Send(p) \/ Gossip(p)
    <2>1. /\ UNCHANGED <<key, epoch, cmd, msg, at>> /\ at[p] \in {"send", "gossip"}
          /\ Push(p) /\ ~Die(p)
      BY <1>2, <1>t DEF Send, Gossip, Die
    <2>2. PICK to \in todo[p] :
              /\ remote' = [remote EXCEPT ![to][d] = msg[p]]
              /\ todo' = [todo EXCEPT ![p] = todo[p] \ {to}]
      BY <2>1 DEF Push
    <2>3. to \in Device /\ todo'[p] = todo[p] \ {to}
      BY <1>t, <2>2 DEF TypeOK
    <2>4. \A q \in Device : remote'[q][d] = IF q = to THEN msg[p] ELSE remote[q][d]
      BY <1>t, <2>2, <2>3 DEF TypeOK
    <2>5. Course(p)'
      <3>1. CASE at[p] = "send"
        <4>1. ASSUME NEW q \in Peers[d] \ todo'[p] PROVE remote'[q][d] = msg[p]
          BY <1>t, <2>3, <2>4, <3>1, <4>1 DEF Kept, Course
        <4> QED  BY <2>1, <3>1, <4>1 DEF Kept, Course
      <3>2. CASE at[p] = "gossip"
        BY <2>1, <3>2 DEF Kept, Course
      <3> QED  BY <2>1, <3>1, <3>2
    <2>6. Whole(d)'
      BY <1>a, <1>f, <1>k, <2>1 DEF Kept, Whole
    <2>7. Exposed(d)' => Exposed(d) /\ key[d] = NoKey
      BY <1>a, <1>f, <2>1 DEF Exposed
    <2>8. Exposed(d)' => Ahead(d)'
      <3> SUFFICES ASSUME Exposed(d)' PROVE Ahead(d)'
        OBVIOUS
      <3>1. at[p] = "send" /\ msg[p].epoch > epoch[d]
        BY <2>1, <2>7 DEF Kept, Course
      <3> QED  BY <2>1, <2>3, <2>4, <3>1 DEF Ahead
    <2>9. InOrderBy(p) => InOrderBy(p)'
      <3> SUFFICES ASSUME InOrderBy(p), NEW q \in Device
                   PROVE  \/ remote'[q][d].epoch <= epoch'[d]
                          \/ /\ at'[p] \in {"send", "reset", "adopt", "store"}
                             /\ cmd'[p] = "rotate" /\ remote'[q][d].epoch <= msg'[p].epoch
        BY DEF InOrderBy
      <3>1. CASE q = to /\ at[p] = "send"
        BY <1>e, <2>1, <2>4, <3>1 DEF Kept, Course
      <3>2. CASE q = to /\ at[p] = "gossip"
        BY <1>e, <2>1, <2>4, <3>2 DEF Kept, Course
      <3>3. CASE q # to
        BY <2>1, <2>4, <3>3 DEF InOrderBy
      <3> QED  BY <2>1, <3>1, <3>2, <3>3
    <2>10. ASSUME InOrderBy(p), NEW q \in Device
           PROVE  remote'[q][d].epoch >= remote[q][d].epoch
      <3>1. CASE q = to
        <4>1. \/ remote[q][d].epoch <= epoch[d]
              \/ at[p] = "send" /\ remote[q][d].epoch <= msg[p].epoch
          BY <2>1, <2>10 DEF InOrderBy
        <4>2. msg[p].epoch >= epoch[d]
          BY <1>e, <2>1 DEF Kept, Course
        <4> QED  BY <1>e, <2>4, <3>1, <4>1, <4>2
      <3>2. CASE q # to
        BY <1>e, <2>4, <3>2
      <3> QED  BY <3>1, <3>2
    <2> QED  BY <2>5, <2>6, <2>7, <2>8, <2>9, <2>10 DEF Kept
  <1> QED
    BY <1>1, <1>2, <1>3, <1>4, <1>5, <1>6, <1>7, <1>8, <1>9, <1>11, <1>12 DEF Work

\* The inductive step: the devices p does not work on keep what VInv asks of
\* them, because only p's device writes the objects it leaves for others.
LEMMA StepVInv ==
    ASSUME IInv, VInv, OneProcess, SameClock, ClockAdvances, HasPeers, [Next]_vars
    PROVE  VInv'
  <1>i. IInv' /\ TypeOK /\ TypeOK'
    BY StepIInv DEF IInv
  <1>b. BornApart'
    BY <1>i, BornStep DEF VInv
  <1>1. CASE UNCHANGED vars
    BY <1>1 DEF vars, VInv, Course, BornApart, Whole, InOrder, Exposed, Ahead, At
  <1>2. ASSUME NEW p \in Process, Rotate(p) \/ Work(p) \/ Die(p) PROVE VInv'
    <2> DEFINE h == Host[p]
    <2>h. h \in Device
      BY ConstantsTyped
    <2>0. Kept(p, h)
      BY <2>h DEF VInv, Kept
    <2>1. /\ Kept(p, h)'
          /\ InOrder(h) /\ ~Die(p) =>
                /\ InOrder(h)'
                /\ \A to \in Device : remote'[to][h].epoch >= remote[to][h].epoch
          /\ Exposed(h)' => failures = 0 \/ Exposed(h)
      BY <1>2, <1>i, <2>0, <2>h, OwnKept, OneInOrder DEF VInv
    <2>f. /\ \A q \in Process \ {p} :
                at'[q] = at[q] /\ cmd'[q] = cmd[q] /\ msg'[q] = msg[q] /\ todo'[q] = todo[q]
          /\ \A d \in Device \ {h} :
                /\ epoch'[d] = epoch[d] /\ key'[d] = key[d]
                /\ \A to \in Device : remote'[to][d] = remote[to][d]
          /\ failures' = IF Die(p) THEN failures + 1 ELSE failures
      BY <1>2, <1>i, Frame
    <2>n. failures \in Nat
      BY <1>i DEF TypeOK
    <2>p. \A q \in Process : q # p => Host[q] \in Device \ {h}
      BY ConstantsTyped DEF OneProcess
    <2> HIDE DEF h
    <2>2. ASSUME NEW q \in Process, q # p PROVE Course(q)'
      BY <2>2, <2>f, <2>p, ConstantsTyped DEF VInv, Course
    <2>3. ASSUME NEW d \in Device, d # h
          PROVE  /\ \A s : At(d, s)' <=> At(d, s)
                 /\ InOrder(d) => InOrder(d)'
      <3>1. \A q \in Process : Host[q] = d => q # p
        BY <2>3 DEF h
      <3>2. \A s : At(d, s)' <=> At(d, s)
        BY <2>f, <3>1 DEF At
      <3>3. InOrder(d) => InOrder(d)'
        BY <2>3, <2>f, <3>1 DEF InOrder
      <3> QED  BY <3>2, <3>3
    <2>4. ASSUME NEW d \in Device, d # h PROVE Whole(d)'
      <3> SUFFICES ASSUME failures' = 0, ~At(d, {"adopt", "store"})'
                   PROVE  key'[d] # NoKey /\ born'[key'[d]] = epoch'[d]
        BY DEF Whole
      <3>1. failures = 0 /\ ~At(d, {"adopt", "store"})
        BY <2>3, <2>4, <2>f, <2>n
      <3>2. key[d] # NoKey /\ born[key[d]] = epoch[d]
        BY <3>1 DEF VInv, Whole
      <3>3. key[d] \in Keys /\ key[d] <= rotations
        BY <3>2, <1>i DEF TypeOK, IInv, Honest
      <3>4. born'[key[d]] = born[key[d]]
        BY <1>i, <3>3, BornStep DEF VInv
      <3> QED  BY <2>4, <2>f, <3>2, <3>4
    <2>5. ASSUME failures' = 0, NEW q \in Device PROVE InOrder(q)'
      <3>1. failures = 0 /\ ~Die(p)
        BY <2>5, <2>f, <2>n
      <3> QED  BY <2>1, <2>3, <3>1 DEF VInv
    <2>6. ASSUME Exposed(h)', NEW q \in Device, q # h PROVE InOrder(q)'
      BY <2>1, <2>3, <2>6, <2>h DEF VInv
    <2>7. ASSUME NEW d \in Device, d # h, Exposed(d)'
          PROVE  Ahead(d)' /\ \A q \in Device \ {d} : InOrder(q)'
      <3>1. ~Die(p)
        <4> SUFFICES ASSUME Die(p) PROVE FALSE
          OBVIOUS
        <4>1. failures = 0 /\ key[d] = NoKey /\ ~At(d, {"adopt"})
          BY <2>3, <2>7, <2>f, <2>n DEF Exposed
        <4>2. At(d, {"adopt", "store"})
          BY <4>1 DEF VInv, Whole
        <4>3. PICK q \in Process : Host[q] = d /\ at[q] = "store"
          BY <4>1, <4>2 DEF At
        <4>4. key[d] = msg[q].key
          BY <4>3 DEF IInv, Carried
        <4>5. msg[q].key \in Nat
          BY <1>i DEF TypeOK, MsgType, Keys
        <4> QED  BY <4>1, <4>4, <4>5, RotationAssumption
      <3>2. Exposed(d)
        BY <2>3, <2>7, <2>f, <3>1 DEF Exposed
      <3>3. Ahead(d) /\ \A q \in Device \ {d} : InOrder(q)
        BY <3>2 DEF VInv
      <3>4. \A q \in Device \ {d} : InOrder(q)'
        BY <2>1, <2>3, <3>1, <3>3
      <3>5. PICK q \in Device : remote[q][d].epoch > epoch[d] \/ remote[d][q].epoch > epoch[d]
        BY <3>3 DEF Ahead
      <3>6. remote'[q][d] = remote[q][d] /\ epoch'[d] = epoch[d]
        BY <2>7, <2>f
      <3>7. remote'[d][q].epoch >= remote[d][q].epoch
        <4>1. remote[d][q].epoch \in Nat
          BY <1>i DEF TypeOK, MsgType
        <4>2. CASE q = h
          BY <2>1, <2>7, <3>1, <3>3, <4>2
        <4>3. CASE q # h
          BY <2>f, <4>1, <4>3
        <4> QED  BY <4>2, <4>3
      <3>8. remote[d][q].epoch \in Nat /\ remote'[d][q].epoch \in Nat /\ epoch[d] \in Nat
        BY <1>i DEF TypeOK, MsgType
      <3>9. remote'[q][d].epoch > epoch'[d] \/ remote'[d][q].epoch > epoch'[d]
        BY <3>5, <3>6, <3>7, <3>8
      <3> QED  BY <3>4, <3>9 DEF Ahead
    <2>8. \A q \in Process : Course(q)'
      BY <2>1, <2>2 DEF Kept
    <2>9. \A d \in Device : Whole(d)' /\ (Exposed(d)' => Ahead(d)')
      BY <2>1, <2>4, <2>7 DEF Kept
    <2>10. \A d \in Device : Exposed(d)' => \A q \in Device \ {d} : InOrder(q)'
      BY <2>6, <2>7
    <2> QED  BY <1>b, <2>5, <2>8, <2>9, <2>10 DEF VInv
  <1> QED  BY <1>1, <1>2 DEF Next

LEMMA InitVInv == Init => VInv
  <1> SUFFICES ASSUME Init PROVE VInv
    OBVIOUS
  <1>1. /\ \A p \in Process : at[p] = "idle"
        /\ \A d \in Device : key[d] = 0 /\ epoch[d] = 0
        /\ \A d, e \in Device : remote[d][e].epoch = 0
        /\ \A k \in Keys : born[k] = 0
        /\ rotations = 0 /\ failures = 0 /\ time = 1 /\ 0 # NoKey
    BY RotationAssumption DEF Init, NoMsg, Msg
  <1>2. BornApart
    BY <1>1 DEF BornApart, Keys
  <1>3. \A d \in Device : Whole(d) /\ ~Exposed(d) /\ InOrder(d)
    BY <1>1, ConstantsTyped DEF Whole, Exposed, At, InOrder
  <1>4. \A p \in Process : Course(p)
    BY <1>1 DEF Course
  <1> QED  BY <1>2, <1>3, <1>4 DEF VInv

LEMMA KeptByVInv == IInv /\ VInv => VaultKept
  <1> SUFFICES ASSUME IInv, VInv PROVE VaultKept
    OBVIOUS
  <1>1. OneKeyPerEpoch
    <2> SUFFICES ASSUME NEW d \in Device, NEW e \in Device, Quiet(d), Quiet(e),
                        epoch[d] = epoch[e], failures = 0
                 PROVE  key[d] = key[e]
      BY DEF OneKeyPerEpoch
    <2>1. ~At(d, {"adopt", "store"}) /\ ~At(e, {"adopt", "store"})
      BY DEF Quiet, At
    <2>2. /\ key[d] # NoKey /\ born[key[d]] = epoch[d]
          /\ key[e] # NoKey /\ born[key[e]] = epoch[e]
      BY <2>1 DEF VInv, Whole
    <2>3. /\ key[d] \in Keys /\ key[d] <= rotations
          /\ key[e] \in Keys /\ key[e] <= rotations
      BY <2>2 DEF IInv, TypeOK, Honest
    <2> QED  BY <2>2, <2>3 DEF VInv, BornApart
  <1>2. NoVaultLost
    <2> SUFFICES ASSUME NEW d \in Device, Quiet(d), key[d] = NoKey, failures <= 1
                 PROVE  \E to, from \in Device : remote[to][from].epoch > epoch[d]
      BY DEF NoVaultLost
    <2>1. ~At(d, {"adopt", "store"}) /\ ~At(d, {"adopt"})
      BY DEF Quiet, At
    <2>2. failures # 0
      BY <2>1 DEF VInv, Whole
    <2>3. failures = 1
      BY <2>2 DEF IInv, TypeOK
    <2>4. Ahead(d)
      BY <2>1, <2>3 DEF VInv, Exposed
    <2> QED  BY <2>4 DEF Ahead
  <1> QED  BY <1>1, <1>2 DEF VaultKept

\* With one process on each device, clocks that agree and go on between two
\* rotations, and a peer for every device: before any failure all devices at an
\* epoch hold its key, and a command that dies wherever it is leaves a device
\* that has no key with a newer rotation on the transport, whatever the other
\* devices rotate, adopt and pass on afterwards.
THEOREM VaultIsKept ==
    OneProcess /\ SameClock /\ ClockAdvances /\ HasPeers => (Spec => []VaultKept)
  <1> SUFFICES ASSUME OneProcess, SameClock, ClockAdvances, HasPeers
               PROVE  Spec => []VaultKept
    OBVIOUS
  <1>1. Init => IInv /\ VInv
    BY InitIInv, InitVInv
  <1>2. IInv /\ VInv /\ [Next]_vars => IInv' /\ VInv'
    BY StepIInv, StepVInv
  <1>3. IInv /\ VInv => VaultKept
    BY KeptByVInv
  <1> QED  BY <1>1, <1>2, <1>3, PTL DEF Spec

-----------------------------------------------------------------------------
(* Circles.  A secret row has the tag or is fenced off, and only a member  *)
(* fences it off; a secret object, on the transport or in hand, is sealed  *)
(* under a key of the circle.                                              *)

CRows == [at : Nat, tag : BOOLEAN, local : BOOLEAN, secret : BOOLEAN]
CObjs == [at : Nat, writer : Device \cup {Nobody}, sealed : 0 .. keys, secret : BOOLEAN]
CGrants == [at : Nat, writer : Device \cup {Nobody}, gives : 0 .. keys]
CTyped ==
    /\ keys \in 0 .. MaxKeys /\ ckey \in [Device -> 0 .. keys]
    /\ listed \in [Device -> BOOLEAN] /\ had \subseteq Device
    /\ row \in [Device -> CRows] /\ out \in [Device -> CRows]
    /\ cremote \in CObjs
    /\ grants \in [Device -> CGrants]
    /\ clock \in Nat /\ gclock \in Nat
    /\ leaving \in [Device -> BOOLEAN]
    /\ cpc \in [Device -> {"idle", "push", "list", "grant", "memory", "apply"}]
    /\ got \in [Device -> [mem : CObjs, ckg : CGrants]]

Closed(o) == o.secret => o.sealed # C!NoCircle

HeldClose(d) ==
    /\ ckey[d] # 0 \/ listed[d] \/ leaving[d] \/ row[d].local => d \in had
    /\ row[d].secret => row[d].tag \/ row[d].local
    /\ out[d].secret => out[d].tag \/ out[d].local
    /\ cpc[d] = "push" => ~out[d].local
    /\ Closed(got[d].mem)

CInv == CTyped /\ Closed(cremote) /\ \A d \in Device : HeldClose(d)

\* The constructors.
LEMMA CMakes ==
  /\ \A a \in Nat, t \in BOOLEAN, l \in BOOLEAN, s \in BOOLEAN :
        /\ C!Row(a, t, l, s) \in CRows
        /\ C!Row(a, t, l, s).tag = t /\ C!Row(a, t, l, s).local = l
        /\ C!Row(a, t, l, s).secret = s
  /\ \A a \in Nat, w \in Device \cup {Nobody}, k \in 0 .. keys, s \in BOOLEAN :
        /\ C!Obj(a, w, k, s) \in CObjs
        /\ C!Obj(a, w, k, s).secret = s /\ C!Obj(a, w, k, s).sealed = k
  /\ \A a \in Nat, w \in Device \cup {Nobody}, k \in 0 .. keys : C!GrantBy(a, w, k) \in CGrants
  /\ \A m \in CObjs, g \in CGrants :
        /\ C!Fetched(m, g) \in [mem : CObjs, ckg : CGrants]
        /\ C!Fetched(m, g).mem = m
  BY DEF C!Row, C!Obj, C!GrantBy, C!Fetched, CRows, CObjs, CGrants

LEMMA CNothing ==
  ASSUME keys \in Nat
  PROVE  /\ C!NoRow \in CRows /\ ~C!NoRow.secret /\ ~C!NoRow.local /\ ~C!NoRow.tag
         /\ C!NoObj \in CObjs /\ ~C!NoObj.secret
         /\ C!NoGrant \in CGrants
         /\ C!Nothing \in [mem : CObjs, ckg : CGrants] /\ C!Nothing.mem = C!NoObj
<1>1. 0 \in Nat /\ 0 \in 0 .. keys /\ Nobody \in Device \cup {Nobody} /\ FALSE \in BOOLEAN
  OBVIOUS
<1>2. C!NoRow \in CRows /\ ~C!NoRow.secret /\ ~C!NoRow.local /\ ~C!NoRow.tag
  BY DEF C!NoRow, C!Row, CRows
<1>3. C!NoObj \in CObjs /\ ~C!NoObj.secret
  BY <1>1 DEF C!NoObj, C!Obj, CObjs
<1>4. C!NoGrant \in CGrants
  BY <1>1 DEF C!NoGrant, C!GrantBy, CGrants
<1>5. C!Nothing \in [mem : CObjs, ckg : CGrants] /\ C!Nothing.mem = C!NoObj
  BY <1>3, <1>4 DEF C!Nothing, C!Fetched
<1> QED BY <1>2, <1>3, <1>4, <1>5

LEMMA CFields ==
  /\ \A r \in CRows : /\ r.at \in Nat /\ r.tag \in BOOLEAN /\ r.local \in BOOLEAN
                      /\ r.secret \in BOOLEAN
  /\ \A o \in CObjs : /\ o.at \in Nat /\ o.sealed \in 0 .. keys /\ o.secret \in BOOLEAN
  /\ \A g \in CGrants : g.gives \in 0 .. keys
  /\ \A x \in [mem : CObjs, ckg : CGrants] : x.mem \in CObjs /\ x.ckg \in CGrants
  BY DEF CRows, CObjs, CGrants

LEMMA CInitInv == ASSUME C!Init, MaxKeys \in Nat PROVE CInv
<1>1. keys = 0 /\ keys \in Nat
  BY DEF C!Init
<1>2. CTyped
  BY <1>1, CNothing DEF C!Init, CTyped
<1>3. Closed(cremote) /\ \A d \in Device : HeldClose(d)
  BY <1>1, CNothing DEF C!Init, Closed, HeldClose
<1> QED BY <1>2, <1>3 DEF CInv

\* A step of d that makes no key leaves the others as they are.
LEMMA CStep ==
  ASSUME CInv, NEW d \in Device,
         keys' = keys, had \subseteq had', had' \subseteq Device,
         clock' \in Nat, gclock' \in Nat,
         ckey' \in [Device -> 0 .. keys], listed' \in [Device -> BOOLEAN],
         row' \in [Device -> CRows], out' \in [Device -> CRows],
         cremote' \in CObjs, grants' \in [Device -> CGrants],
         leaving' \in [Device -> BOOLEAN],
         cpc' \in [Device -> {"idle", "push", "list", "grant", "memory", "apply"}],
         got' \in [Device -> [mem : CObjs, ckg : CGrants]],
         \A e \in Device \ {d} :
            /\ ckey'[e] = ckey[e] /\ listed'[e] = listed[e] /\ row'[e] = row[e]
            /\ out'[e] = out[e] /\ leaving'[e] = leaving[e] /\ cpc'[e] = cpc[e]
            /\ got'[e] = got[e],
         Closed(cremote)', HeldClose(d)'
  PROVE  CInv'
<1>1. CTyped'
  BY DEF CInv, CTyped, CObjs, CGrants
<1>2. ASSUME NEW e \in Device, e # d PROVE HeldClose(e)'
  BY <1>2, SMTT(60), ZenonT(60) DEF CInv, HeldClose, Closed
<1> QED BY <1>1, <1>2 DEF CInv

\* A new key makes room for what there is.
LEMMA CWider == ASSUME CInv, MaxKeys \in Nat, NEW d \in Device, C!Create(d) PROVE CInv'
<1>1. /\ keys' \in 0 .. MaxKeys /\ keys <= keys'
      /\ \A e \in Device : ckey'[e] \in 0 .. keys' /\ (e # d => ckey'[e] = ckey[e])
      /\ ckey' \in [Device -> 0 .. keys']
      /\ listed' = [listed EXCEPT ![d] = TRUE] /\ had' = had \cup {d}
      /\ UNCHANGED <<row, cremote, grants, clock, gclock, leaving, cpc, got, out>>
  <2>1. /\ keys' = IF ckey[d] = 0 THEN keys + 1 ELSE keys
        /\ ckey' = IF ckey[d] = 0 THEN [ckey EXCEPT ![d] = keys + 1] ELSE ckey
        /\ ckey[d] = 0 => keys < MaxKeys
        /\ listed' = [listed EXCEPT ![d] = TRUE] /\ had' = had \cup {d}
        /\ UNCHANGED <<row, cremote, grants, clock, gclock, leaving, cpc, got, out>>
    BY DEF C!Create, C!work
  <2>2. keys \in 0 .. MaxKeys /\ ckey \in [Device -> 0 .. keys]
    BY DEF CInv, CTyped
  <2> QED BY <2>1, <2>2
<1>2. \A o \in CObjs : o \in CObjs'
  BY <1>1 DEF CObjs, CInv, CTyped
<1>3. \A g \in CGrants : g \in CGrants'
  BY <1>1 DEF CGrants, CInv, CTyped
<1>4. \A x \in [mem : CObjs, ckg : CGrants] : x \in [mem : CObjs', ckg : CGrants']
  BY <1>2, <1>3
<1>5. CTyped'
  <2>1. /\ listed \in [Device -> BOOLEAN] /\ had \subseteq Device
        /\ row \in [Device -> CRows] /\ out \in [Device -> CRows] /\ cremote \in CObjs
        /\ grants \in [Device -> CGrants] /\ clock \in Nat /\ gclock \in Nat
        /\ leaving \in [Device -> BOOLEAN]
        /\ cpc \in [Device -> {"idle", "push", "list", "grant", "memory", "apply"}]
        /\ got \in [Device -> [mem : CObjs, ckg : CGrants]]
    BY DEF CInv, CTyped
  <2>2. grants' \in [Device -> CGrants'] /\ cremote' \in CObjs'
    BY <1>1, <1>2, <1>3, <2>1
  <2>3. got' \in [Device -> [mem : CObjs', ckg : CGrants']]
    BY <1>1, <1>4, <2>1
  <2>4. listed' \in [Device -> BOOLEAN] /\ had' \subseteq Device
    BY <1>1, <2>1
  <2> QED BY <1>1, <2>1, <2>2, <2>3, <2>4 DEF CTyped, CRows
<1>6. \A e \in Device : HeldClose(e)'
  BY <1>1 DEF CInv, CTyped, HeldClose, Closed
<1> QED BY <1>1, <1>5, <1>6 DEF CInv, Closed

LEMMA CCommands ==
  ASSUME CInv, NEW d \in Device,
         \/ C!Leave(d) \/ C!LeaveRows(d) \/ C!LeaveDies(d) \/ C!Write(d)
         \/ \E e \in Device : C!Grant(d, e)
  PROVE  CInv'
<1> USE DEF CInv, CTyped
<1>0. HeldClose(d) /\ Closed(cremote) /\ row[d] \in CRows
  OBVIOUS
<1>1. CASE C!Leave(d)
  <2>1. /\ listed[d] /\ ckey' = [ckey EXCEPT ![d] = 0]
        /\ leaving' = [leaving EXCEPT ![d] = TRUE]
        /\ UNCHANGED <<keys, listed, had, row, cremote, grants, clock, gclock, cpc, got, out>>
    BY <1>1 DEF C!Leave, C!work
  <2>2. HeldClose(d)' /\ Closed(cremote)'
    BY <1>0, <2>1 DEF HeldClose, Closed
  <2>3. ckey' \in [Device -> 0 .. keys] /\ leaving' \in [Device -> BOOLEAN]
    BY <2>1
  <2> QED BY <2>1, <2>2, <2>3, CStep
<1>2. CASE C!LeaveRows(d)
  <2>1. /\ leaving[d] /\ listed' = [listed EXCEPT ![d] = FALSE]
        /\ row' = [row EXCEPT ![d] = C!Fenced(row[d])]
        /\ leaving' = [leaving EXCEPT ![d] = FALSE]
        /\ UNCHANGED <<keys, ckey, had, cremote, grants, clock, gclock, cpc, got, out>>
    BY <1>2 DEF C!LeaveRows, C!work
  <2>2. /\ C!Fenced(row[d]) \in CRows
        /\ C!Fenced(row[d]).secret = row[d].secret
        /\ row[d].tag => C!Fenced(row[d]).local
        /\ ~row[d].tag => C!Fenced(row[d]) = row[d]
    BY <1>0, CMakes, CFields, ZenonT(60), SMTT(60) DEF C!Fenced
  <2>3. HeldClose(d)' /\ Closed(cremote)'
    BY <1>0, <2>1, <2>2 DEF HeldClose, Closed
  <2> QED BY <2>1, <2>2, <2>3, CStep
<1>3. CASE C!LeaveDies(d)
  <2>1. /\ leaving' = [leaving EXCEPT ![d] = FALSE]
        /\ UNCHANGED <<keys, ckey, listed, had, row, cremote, grants, clock, gclock, cpc,
                       got, out>>
    BY <1>3 DEF C!LeaveDies, C!work
  <2>2. HeldClose(d)' /\ Closed(cremote)'
    BY <1>0, <2>1 DEF HeldClose, Closed
  <2> QED BY <2>1, <2>2, CStep
<1>4. CASE C!Write(d)
  <2>1. PICK tag \in BOOLEAN :
          row' = [row EXCEPT ![d] = C!Row(clock + 1, tag, row[d].local,
                                          tag \/ (row[d].local /\ row[d].secret))]
    BY <1>4 DEF C!Write
  <2>2. /\ clock' = clock + 1
        /\ UNCHANGED <<keys, ckey, listed, had, leaving, cremote, grants, gclock, cpc, got, out>>
    BY <1>4 DEF C!Write, C!work
  <2>3. PICK secret \in BOOLEAN : secret = (tag \/ (row[d].local /\ row[d].secret))
    OBVIOUS
  <2>4. PICK new \in CRows :
          /\ row' = [row EXCEPT ![d] = new]
          /\ new.tag = tag /\ new.local = row[d].local /\ new.secret = secret
    <3>1. row[d].local \in BOOLEAN /\ clock + 1 \in Nat
      BY <1>0, CFields
    <3>2. C!Row(clock + 1, tag, row[d].local, secret) \in CRows
      BY <2>3, <3>1, CMakes
    <3>3. /\ C!Row(clock + 1, tag, row[d].local, secret).tag = tag
          /\ C!Row(clock + 1, tag, row[d].local, secret).local = row[d].local
          /\ C!Row(clock + 1, tag, row[d].local, secret).secret = secret
      BY DEF C!Row
    <3>4. row' = [row EXCEPT ![d] = C!Row(clock + 1, tag, row[d].local, secret)]
      BY <2>1, <2>3
    <3> QED BY <3>2, <3>3, <3>4
  <2>5. HeldClose(d)' /\ Closed(cremote)'
    BY <1>0, <2>2, <2>3, <2>4 DEF HeldClose, Closed
  <2>6. row' \in [Device -> CRows] /\ clock' \in Nat
    BY <2>2, <2>4
  <2> QED BY <2>2, <2>4, <2>5, <2>6, CStep
<1>5. ASSUME NEW e \in Device, C!Grant(d, e) PROVE CInv'
  <2>1. /\ gclock' = gclock + 1
        /\ grants' = [grants EXCEPT ![e] = C!GrantBy(gclock + 1, d, ckey[d])]
        /\ UNCHANGED <<keys, ckey, listed, had, row, leaving, cremote, clock, cpc, got, out>>
    BY <1>5 DEF C!Grant, C!work
  <2>2. grants' \in [Device -> CGrants]
    BY <2>1, CMakes
  <2>3. HeldClose(d)' /\ Closed(cremote)'
    BY <1>0, <2>1 DEF HeldClose, Closed
  <2> QED BY <2>1, <2>2, <2>3, CStep
<1> QED BY <1>1, <1>2, <1>3, <1>4, <1>5

LEMMA CSyncs == ASSUME CInv, NEW d \in Device, C!Sync(d) PROVE CInv'
<1> USE DEF CInv, CTyped
<1>0. /\ HeldClose(d) /\ Closed(cremote) /\ row[d] \in CRows /\ keys \in Nat
      /\ got[d].mem \in CObjs /\ got[d].ckg \in CGrants
  BY CFields
<1>1. CASE C!PushRead(d)
  <2>1. PICK new \in CRows, s \in {"push", "list"} :
          /\ out' = [out EXCEPT ![d] = new] /\ cpc' = [cpc EXCEPT ![d] = s]
          /\ new.secret => new.tag \/ new.local
          /\ s = "push" => ~new.local
          /\ UNCHANGED <<keys, ckey, listed, had, row, cremote, grants, clock, gclock,
                         leaving, got>>
    <3>1. CASE C!ToPush(d)
      <4>1. ~row[d].local /\ out' = [out EXCEPT ![d] = row[d]] /\ cpc' = [cpc EXCEPT ![d] = "push"]
        BY <1>1, <3>1 DEF C!PushRead, C!At, C!ToPush
      <4> QED BY <1>0, <1>1, <4>1 DEF C!PushRead, HeldClose
    <3>2. CASE ~C!ToPush(d)
      <4>1. out' = [out EXCEPT ![d] = C!NoRow] /\ cpc' = [cpc EXCEPT ![d] = "list"]
        BY <1>1, <3>2 DEF C!PushRead, C!At
      <4> QED BY <1>0, <1>1, <4>1, CNothing DEF C!PushRead
    <3> QED BY <3>1, <3>2
  <2>2. HeldClose(d)' /\ Closed(cremote)'
    BY <1>0, <2>1 DEF HeldClose, Closed
  <2> QED BY <2>1, <2>2, CStep
<1>2. CASE C!PushSend(d)
  <2>1. /\ cpc[d] = "push" /\ out' = [out EXCEPT ![d] = C!NoRow]
        /\ cpc' = [cpc EXCEPT ![d] = "list"]
        /\ UNCHANGED <<keys, ckey, listed, had, row, grants, clock, gclock, leaving, got>>
    BY <1>2 DEF C!PushSend, C!At
  <2>2. cremote' \in CObjs /\ Closed(cremote)'
    <3>1. CASE C!SealKey(d, out[d]) # {}
      <4>1. PICK k \in C!SealKey(d, out[d]) : cremote' = C!Obj(out[d].at, d, k, out[d].secret)
        BY <1>2, <3>1 DEF C!PushSend
      <4>2. k \in 0 .. keys /\ (out[d].tag => k # 0)
        BY <1>0, <4>1, CFields DEF C!SealKey, C!Member, C!NoCircle
      <4>3. out[d].at \in Nat /\ out[d].secret \in BOOLEAN
        BY CFields
      <4>4. cremote' \in CObjs /\ cremote'.secret = out[d].secret /\ cremote'.sealed = k
        BY <4>1, <4>2, <4>3, CMakes
      <4> QED BY <1>0, <2>1, <4>2, <4>4 DEF HeldClose, Closed, C!NoCircle
    <3>2. CASE C!SealKey(d, out[d]) = {}
      BY <1>0, <1>2, <3>2 DEF C!PushSend, Closed
    <3> QED BY <3>1, <3>2
  <2>3. HeldClose(d)'
    BY <1>0, <2>1, CNothing DEF HeldClose, Closed
  <2> QED BY <1>0, <2>1, <2>2, <2>3, CNothing, CStep
<1>3. CASE C!PullList(d)
  <2>1. PICK m \in {cremote, C!NoObj}, g \in {grants[d], C!NoGrant}, s \in {"grant", "memory"} :
          got' = [got EXCEPT ![d] = C!Fetched(m, g)] /\ cpc' = [cpc EXCEPT ![d] = s]
    BY <1>3 DEF C!PullList, C!At
  <2>2. UNCHANGED <<keys, ckey, listed, had, row, cremote, grants, clock, gclock, leaving, out>>
    BY <1>3 DEF C!PullList
  <2>3. PICK new \in [mem : CObjs, ckg : CGrants] :
          got' = [got EXCEPT ![d] = new] /\ Closed(new.mem)
    <3>1. m \in CObjs /\ g \in CGrants /\ Closed(m)
      BY <1>0, <2>1, CNothing DEF Closed
    <3>2. C!Fetched(m, g) \in [mem : CObjs, ckg : CGrants] /\ C!Fetched(m, g).mem = m
      BY <3>1, CMakes
    <3> QED BY <2>1, <3>1, <3>2
  <2>4. HeldClose(d)' /\ Closed(cremote)'
    BY <1>0, <2>1, <2>2, <2>3 DEF HeldClose, Closed
  <2> QED BY <2>1, <2>2, <2>3, <2>4, CStep
<1>4. CASE C!ApplyGrant(d)
  <2>1. UNCHANGED <<keys, row, cremote, grants, clock, gclock, leaving, out>>
    BY <1>4 DEF C!ApplyGrant
  <2>2. CASE C!Conflict(d)
    <3>1. /\ got' = [got EXCEPT ![d] = C!Nothing] /\ cpc' = [cpc EXCEPT ![d] = "idle"]
          /\ UNCHANGED <<ckey, listed, had>>
      BY <1>4, <2>2 DEF C!ApplyGrant, C!Done, C!At
    <3>2. HeldClose(d)' /\ Closed(cremote)'
      BY <1>0, <2>1, <3>1, CNothing DEF HeldClose, Closed
    <3> QED BY <1>0, <2>1, <3>1, <3>2, CNothing, CStep
  <2>3. CASE ~C!Conflict(d)
    <3>1. /\ ckey' = [ckey EXCEPT ![d] = got[d].ckg.gives]
          /\ listed' = [listed EXCEPT ![d] = TRUE] /\ had' = had \cup {d}
          /\ cpc' = [cpc EXCEPT ![d] = "memory"] /\ got' = got
      BY <1>4, <2>3 DEF C!ApplyGrant, C!At
    <3>2. got[d].ckg.gives \in 0 .. keys
      BY <1>0, CFields
    <3>3. HeldClose(d)' /\ Closed(cremote)'
      BY <1>0, <2>1, <3>1 DEF HeldClose, Closed
    <3> QED BY <1>0, <2>1, <3>1, <3>2, <3>3, CStep
  <2> QED BY <2>2, <2>3
<1>5. CASE C!OpenMemory(d)
  <2>1. /\ UNCHANGED <<keys, ckey, listed, had, row, cremote, grants, clock, gclock,
                       leaving, out>>
        /\ \/ cpc' = [cpc EXCEPT ![d] = "apply"] /\ got' = got
           \/ cpc' = [cpc EXCEPT ![d] = "idle"] /\ got' = [got EXCEPT ![d] = C!Nothing]
    BY <1>5 DEF C!OpenMemory, C!Done, C!At
  <2>2. HeldClose(d)' /\ Closed(cremote)'
    BY <1>0, <2>1, CNothing DEF HeldClose, Closed
  <2>3. /\ got' \in [Device -> [mem : CObjs, ckg : CGrants]]
        /\ cpc' \in [Device -> {"idle", "push", "list", "grant", "memory", "apply"}]
    BY <1>0, <2>1, CNothing, SMTT(60), ZenonT(60)
  <2>4. \A e \in Device \ {d} : got'[e] = got[e] /\ cpc'[e] = cpc[e]
    BY <2>1
  <2> QED BY <2>1, <2>2, <2>3, <2>4, CStep
<1>6. CASE C!ApplyMemory(d)
  <2>1. /\ cpc' = [cpc EXCEPT ![d] = "idle"] /\ got' = [got EXCEPT ![d] = C!Nothing]
        /\ UNCHANGED <<keys, ckey, listed, had, cremote, grants, clock, gclock, leaving, out>>
    BY <1>6 DEF C!ApplyMemory, C!Done, C!At
  <2>2. PICK tag \in BOOLEAN : tag = (got[d].mem.sealed # C!NoCircle)
    OBVIOUS
  <2>3. PICK new \in CRows :
          /\ row' = [row EXCEPT ![d] = new] /\ new.local = row[d].local
          /\ new.secret => new.tag \/ new.local
    <3>1. CASE row[d].at >= got[d].mem.at
      <4>1. row' = row
        BY <1>6, <3>1 DEF C!ApplyMemory
      <4>2. row' = [row EXCEPT ![d] = row[d]]
        BY <4>1
      <4> QED BY <1>0, <4>2 DEF HeldClose
    <3>2. CASE ~(row[d].at >= got[d].mem.at)
      <4>1. row' = [row EXCEPT ![d] = C!Row(got[d].mem.at, tag, row[d].local,
                                            got[d].mem.secret)]
        BY <1>6, <2>2, <3>2 DEF C!ApplyMemory
      <4>2. /\ got[d].mem.at \in Nat /\ row[d].local \in BOOLEAN
            /\ got[d].mem.secret \in BOOLEAN
        BY <1>0, CFields
      <4>3. got[d].mem.secret => tag
        BY <1>0, <2>2 DEF HeldClose, Closed
      <4>4. C!Row(got[d].mem.at, tag, row[d].local, got[d].mem.secret) \in CRows
        BY <4>2, CMakes
      <4>5. /\ C!Row(got[d].mem.at, tag, row[d].local, got[d].mem.secret).tag = tag
            /\ C!Row(got[d].mem.at, tag, row[d].local, got[d].mem.secret).local = row[d].local
            /\ C!Row(got[d].mem.at, tag, row[d].local, got[d].mem.secret).secret
                 = got[d].mem.secret
        BY DEF C!Row
      <4> QED BY <4>1, <4>3, <4>4, <4>5
    <3> QED BY <3>1, <3>2
  <2>4. HeldClose(d)' /\ Closed(cremote)'
    BY <1>0, <2>1, <2>3, CNothing DEF HeldClose, Closed
  <2> QED BY <1>0, <2>1, <2>3, <2>4, CNothing, CStep
<1> QED BY <1>1, <1>2, <1>3, <1>4, <1>5, <1>6 DEF C!Sync

LEMMA CStepInv == ASSUME CInv, MaxKeys \in Nat, [C!Next]_(C!vars) PROVE CInv'
<1>1. CASE UNCHANGED C!vars
  <2>1. UNCHANGED <<keys, ckey, listed, had, row, cremote, grants, clock, gclock,
                    leaving, cpc, got, out>>
    BY <1>1 DEF C!vars, C!work
  <2> QED BY <2>1 DEF CInv, CTyped, HeldClose, Closed, CObjs, CGrants
<1>2. CASE C!Next
  BY <1>2, CWider, CCommands, CSyncs DEF C!Next, C!Command
<1> QED BY <1>1, <1>2

\* Circles (pai-sync/circle.rs, crypto.rs, engine.rs), for any devices, keys,
\* edits, grants and leaves: what was written under the circle's tag is on no
\* device that never had a key of it, and never on the transport under the key
\* of the vault.
THEOREM CirclesAreKept == ASSUME MaxKeys \in Nat PROVE C!Spec => []CircleIsKept
<1>1. ASSUME CInv PROVE CircleIsKept
  <2>1. C!TypeOK
    BY <1>1, CFields DEF CInv, CTyped, HeldClose, C!TypeOK
  <2>2. C!Boundary /\ C!NoLeak
    BY <1>1 DEF CInv, HeldClose, Closed, C!Boundary, C!NoLeak
  <2> QED BY <2>1, <2>2 DEF CircleIsKept, C!CircleIsKept
<1>2. C!Init => CInv
  BY CInitInv
<1>3. CInv /\ [C!Next]_(C!vars) => CInv'
  BY CStepInv
<1> QED BY <1>1, <1>2, <1>3, PTL DEF C!Spec

-----------------------------------------------------------------------------
(* Pairing.  An accept that lies about gives the key of a device that has  *)
(* a key and trusts whom the accept is for.  When two press in turn, a     *)
(* device with a key has answered the one without, so that one finds the   *)
(* answer before it makes a key of its own.                                *)

PSteps == {"idle", "list", "files", "accept", "offer", "answer"}
PTyped ==
    /\ calm \in BOOLEAN
    /\ folder \in [Device -> SUBSET P!Files]
    /\ peers \in [Device -> SUBSET Device]
    /\ vault \in [Device -> Device \cup {NoKey}]
    /\ ppc \in [Device -> PSteps]
    /\ known \in [Device -> SUBSET Device]
    /\ ptodo \in [Device -> SUBSET P!Files]
    /\ cur \in [Device -> P!Files \cup {P!Nothing}]
    /\ met \subseteq Device \X Device

\* What an accept says is true.
Given(f) ==
    f.kind = "accept" =>
        vault[f.by] = f.key /\ f.key # NoKey /\ <<f.by, f.to>> \in met

Trusted(d) ==
    /\ \A f \in folder[d] \cup ptodo[d] : Given(f)
    /\ ppc[d] = "accept" => cur[d].kind = "accept" /\ Given(cur[d])
    /\ ppc[d] \in {"offer", "answer"} => cur[d].kind = "offer"
    /\ ppc[d] \in {"accept", "offer", "answer"} =>
          cur[d] \in P!Files /\ <<d, cur[d].by>> \in met
    /\ ppc[d] = "answer" => vault[d] # NoKey
    /\ vault[d] \notin {NoKey, d} =>
          \E e \in Device : vault[e] = vault[d] /\ {<<d, e>>, <<e, d>>} \subseteq met

\* One device is at it; e has answered d, and d has not passed over the answer.
Alone == \A d, e \in Device : ppc[d] # "idle" /\ ppc[e] # "idle" => d = e
Pressing(d) ==
    /\ ppc[d] # "idle" \/ vault[d] # NoKey => d \in Presser
    /\ \A f \in folder[d] \cup ptodo[d] : f.by \in Presser
    /\ \A f \in ptodo[d] : f.kind = "accept" => f.to = d
    /\ ppc[d] \in {"accept", "offer", "answer"} =>
          cur[d].by \in Presser \ {d} /\ cur[d].by \notin known[d]
    /\ ppc[d] = "accept" => cur[d].to = d
Answered(d, e) ==
    /\ vault[d] # NoKey /\ vault[e] # NoKey => vault[d] = vault[e]
    /\ d # e /\ vault[d] = NoKey /\ vault[e] # NoKey =>
          /\ ppc[e] # "answer" => P!Accept(e, d, vault[e]) \in folder[d]
          /\ ppc[d] = "files" =>
                e \in known[d] \/ P!Accept(e, d, vault[e]) \in ptodo[d]
          /\ ppc[d] # "offer"
Turn ==
    /\ Alone /\ \A d \in Device : Pressing(d)
    /\ \A d, e \in Presser : Answered(d, e)

PInv == PTyped /\ (\A d \in Device : Trusted(d)) /\ (P!InTurn => Turn)

LEMMA PFiles ==
  /\ \A f \in P!Files : /\ f.kind \in {"offer", "accept"} /\ f.by \in Device /\ f.to \in Device
                        /\ f.kind = "accept" =>
                              f.key \in Device /\ f = P!Accept(f.by, f.to, f.key)
  /\ \A d \in Device : /\ P!Offer(d) \in P!Files
                       /\ P!Offer(d).kind = "offer" /\ P!Offer(d).by = d
  /\ \A d, e, k \in Device : P!Accept(d, e, k) \in P!Files
  /\ \A d, e, k : /\ P!Accept(d, e, k).kind = "accept" /\ P!Accept(d, e, k).by = d
                  /\ P!Accept(d, e, k).to = e /\ P!Accept(d, e, k).key = k
  /\ P!Nothing.kind = "none"
<1>1. \A d, e, k : /\ P!Accept(d, e, k).kind = "accept" /\ P!Accept(d, e, k).by = d
                   /\ P!Accept(d, e, k).to = e /\ P!Accept(d, e, k).key = k
  BY DEF P!Accept
<1>2. \A d : /\ P!Offer(d).kind = "offer" /\ P!Offer(d).by = d /\ P!Offer(d).to = d
  BY DEF P!Offer
<1>3. ASSUME NEW f \in P!Files
      PROVE  /\ f.kind \in {"offer", "accept"} /\ f.by \in Device /\ f.to \in Device
             /\ f.kind = "accept" => f.key \in Device /\ f = P!Accept(f.by, f.to, f.key)
  <2>1. CASE \E d \in Device : f = P!Offer(d)
    BY <1>2, <2>1
  <2>2. CASE \E d, e, k \in Device : f = P!Accept(d, e, k)
    BY <1>1, <2>2
  <2> QED BY <1>3, <2>1, <2>2 DEF P!Files
<1>4. \A d \in Device : P!Offer(d) \in P!Files
  BY DEF P!Files
<1>5. \A d, e, k \in Device : P!Accept(d, e, k) \in P!Files
  BY DEF P!Files
<1>6. P!Nothing.kind = "none"
  BY DEF P!Nothing
<1> QED BY <1>1, <1>2, <1>3, <1>4, <1>5, <1>6

LEMMA PTwo ==
  ASSUME IsFiniteSet(Presser), P!InTurn,
         NEW a \in Presser, NEW b \in Presser, NEW c \in Presser, a # b, a # c
  PROVE  b = c
<1>1. \A S : P!Cardinality(S) = Cardinality(S)
  BY DEF P!Cardinality, Cardinality
<1>2. Cardinality(Presser) = 2
  BY <1>1 DEF P!InTurn
<1>3. IsFiniteSet(Presser \ {a}) /\ Cardinality(Presser \ {a}) = 1
  BY <1>2, FS_RemoveElement
<1>4. PICK x : Presser \ {a} = {x}
  BY <1>3, FS_Singleton
<1> QED BY <1>4

LEMMA PInitInv == ASSUME P!Init, Presser \subseteq Device PROVE PInv
<1>1. PTyped
  BY DEF P!Init, PTyped, PSteps
<1>2. \A d \in Device : Trusted(d)
  BY DEF P!Init, Trusted
<1>3. Turn
  BY DEF P!Init, Turn, Alone, Pressing, Answered
<1> QED BY <1>1, <1>2, <1>3 DEF PInv

\* What is said of one device stays true while another one works.
LEMMA PTrusts ==
  ASSUME PTyped, \A e \in Device : Trusted(e), NEW d \in Device,
         met \subseteq met',
         \A e \in Device : vault[e] # NoKey => vault'[e] = vault[e],
         \A e \in Device \ {d} :
            /\ ppc'[e] = ppc[e] /\ cur'[e] = cur[e] /\ vault'[e] = vault[e]
            /\ ptodo'[e] = ptodo[e],
         \A e \in Device : \A f \in folder'[e] :
            Given(f)' \/ \E x \in Device : f \in folder[x],
         \A f \in ptodo'[d] : Given(f)' \/ f \in ptodo[d],
         ppc'[d] = "accept" => cur'[d].kind = "accept" /\ Given(cur[d])',
         ppc'[d] \in {"offer", "answer"} => cur'[d].kind = "offer",
         ppc'[d] \in {"accept", "offer", "answer"} =>
            cur'[d] \in P!Files /\ <<d, cur'[d].by>> \in met',
         ppc'[d] = "answer" => vault'[d] # NoKey,
         vault'[d] \notin {NoKey, d} =>
            \/ vault'[d] = vault[d]
            \/ \E e \in Device : /\ vault'[e] = vault'[d]
                                 /\ {<<d, e>>, <<e, d>>} \subseteq met'
  PROVE  \A e \in Device : Trusted(e)'
<1>1. \A f \in P!Files : Given(f) => Given(f)'
  BY PFiles DEF Given
<1>2. \A e \in Device : \A f \in folder'[e] \cup ptodo'[e] : Given(f)'
  <2>1. \A e \in Device : folder[e] \subseteq P!Files /\ ptodo[e] \subseteq P!Files
    BY DEF PTyped
  <2>2. \A e \in Device : \A f \in folder[e] \cup ptodo[e] : Given(f)
    BY DEF Trusted
  <2>3. \A e \in Device : \A f \in folder'[e] : Given(f)'
    BY <1>1, <2>1, <2>2
  <2>4. \A e \in Device : \A f \in ptodo'[e] : Given(f)'
    BY <1>1, <2>1, <2>2
  <2> QED BY <2>3, <2>4
<1>3. \A e \in Device : vault'[e] \notin {NoKey, e} =>
        \E x \in Device : vault'[x] = vault'[e] /\ {<<e, x>>, <<x, e>>} \subseteq met'
  <2> SUFFICES ASSUME NEW e \in Device, vault'[e] \notin {NoKey, e}
               PROVE  \E x \in Device : /\ vault'[x] = vault'[e]
                                        /\ {<<e, x>>, <<x, e>>} \subseteq met'
    OBVIOUS
  <2>1. CASE vault'[e] = vault[e]
    <3>1. PICK x \in Device : vault[x] = vault[e] /\ {<<e, x>>, <<x, e>>} \subseteq met
      BY <2>1 DEF Trusted
    <3>2. vault'[x] = vault[x]
      BY <2>1, <3>1
    <3> QED BY <2>1, <3>1, <3>2
  <2>2. CASE vault'[e] # vault[e]
    BY <2>2
  <2> QED BY <2>1, <2>2
<1>4. ASSUME NEW e \in Device, e # d PROVE Trusted(e)'
  <2>1. /\ ppc'[e] = ppc[e] /\ cur'[e] = cur[e] /\ vault'[e] = vault[e]
        /\ Trusted(e)
    BY <1>4
  <2>2. ppc[e] = "accept" => Given(cur[e])'
    BY <1>1, <2>1 DEF Trusted
  <2> QED BY <1>2, <1>3, <2>1, <2>2 DEF Trusted
<1>5. Trusted(d)'
  BY <1>2, <1>3 DEF Trusted
<1> QED BY <1>4, <1>5
LEMMA PWrite ==
  ASSUME PTyped, NEW d \in Device, NEW f \in P!Files, P!Write(d, f)
  PROVE  /\ folder' \in [Device -> SUBSET P!Files]
         /\ f \in folder'[d]
         /\ \A e \in Device :
               /\ folder[e] \subseteq folder'[e] /\ folder'[e] \subseteq folder[e] \cup {f}
               /\ calm => f \in folder'[e]
<1>1. \A e \in Device : folder'[e] = IF e = d \/ calm THEN folder[e] \cup {f} ELSE folder[e]
  BY DEF P!Write
<1>2. folder' = [e \in Device |-> IF e = d \/ calm THEN folder[e] \cup {f} ELSE folder[e]]
  BY DEF P!Write
<1>3. folder' \in [Device -> SUBSET P!Files]
  BY <1>2 DEF PTyped
<1> QED BY <1>1, <1>3

\* A step at the command line or in the folder.
LEMMA PPress ==
  ASSUME PTyped, \A e \in Device : Trusted(e), NEW d \in Device,
         P!Press(d) \/ P!List(d) \/ P!Finish(d) \/ P!MakeOffer(d)
  PROVE  PTyped' /\ \A e \in Device : Trusted(e)'
<1>1. CASE P!Press(d) \/ P!MakeOffer(d)
  <2>1. P!Write(d, P!Offer(d))
    BY <1>1 DEF P!Press, P!MakeOffer
  <2>2. P!Offer(d) \in P!Files /\ P!Offer(d).kind = "offer"
    BY PFiles
  <2>3. /\ folder' \in [Device -> SUBSET P!Files]
        /\ \A e \in Device : folder'[e] \subseteq folder[e] \cup {P!Offer(d)}
    BY <2>1, <2>2, PWrite
  <2>4. /\ UNCHANGED <<calm, peers, vault, ptodo, cur, met>>
        /\ \/ known' = [known EXCEPT ![d] = peers[d]] /\ ppc' = [ppc EXCEPT ![d] = "list"]
           \/ known' = known /\ ppc' = ppc
    BY <1>1 DEF P!Press, P!MakeOffer, P!At, P!work
  <2>5. PTyped'
    BY <2>3, <2>4 DEF PTyped, PSteps
  <2>6. Given(P!Offer(d))'
    BY <2>2 DEF Given
  <2>7. /\ \A e \in Device \ {d} : ppc'[e] = ppc[e]
        /\ ppc'[d] \in {"accept", "offer", "answer"} => ppc'[d] = ppc[d]
    BY <2>4 DEF PTyped
  <2>8. ppc[d] = "accept" => Given(cur[d])'
    BY <2>4 DEF Trusted, Given
  <2>9. \A e \in Device : Trusted(e)'
    BY <2>3, <2>4, <2>6, <2>7, <2>8, PTrusts, ZenonT(60), SMTT(60) DEF Trusted
  <2> QED BY <2>5, <2>9
<1>2. CASE P!List(d)
  <2>1. /\ UNCHANGED <<calm, folder, peers, vault, known, cur, met>>
        /\ ppc' = [ppc EXCEPT ![d] = "files"]
        /\ ptodo' = [ptodo EXCEPT ![d] =
                       {f \in folder[d] : f.kind = "offer" \/ f.to = d}]
    BY <1>2 DEF P!List, P!At
  <2>2. PTyped'
    BY <2>1 DEF PTyped, PSteps
  <2>3. ptodo'[d] \subseteq folder[d] /\ \A e \in Device \ {d} : ptodo'[e] = ptodo[e]
    BY <2>1 DEF PTyped
  <2>4. \A f \in ptodo'[d] : Given(f)'
    BY <2>1, <2>3 DEF Trusted, Given
  <2>5. ppc'[d] = "files" /\ \A e \in Device \ {d} : ppc'[e] = ppc[e]
    BY <2>1 DEF PTyped
  <2>6. \A e \in Device : Trusted(e)'
    BY <2>1, <2>3, <2>4, <2>5, PTrusts
  <2> QED BY <2>2, <2>6
<1>3. CASE P!Finish(d)
  <2>1. /\ UNCHANGED <<calm, folder, peers, vault, ptodo, cur, met>>
        /\ ppc' = [ppc EXCEPT ![d] = "idle"] /\ known' = [known EXCEPT ![d] = {}]
    BY <1>3 DEF P!Finish, P!At
  <2>2. PTyped'
    BY <2>1 DEF PTyped, PSteps
  <2>3. ppc'[d] = "idle" /\ \A e \in Device \ {d} : ppc'[e] = ppc[e]
    BY <2>1 DEF PTyped
  <2>4. \A e \in Device : Trusted(e)'
    BY <2>1, <2>3, PTrusts
  <2> QED BY <2>2, <2>4
<1> QED BY <1>1, <1>2, <1>3

\* A sender is added as a peer, or passed over.
LEMMA PTake ==
  ASSUME PTyped, \A e \in Device : Trusted(e), NEW d \in Device,
         P!Take(d) \/ P!AcceptByHand(d) \/ P!CompleteByHand(d)
  PROVE  PTyped' /\ \A e \in Device : Trusted(e)'
<1>1. PICK f \in folder[d] \cup ptodo[d] :
        /\ UNCHANGED <<calm, folder, vault, known>>
        /\ ptodo' = ptodo \/ ptodo' = [ptodo EXCEPT ![d] = @ \ {f}]
        /\ \/ /\ P!Skips(d, f) /\ UNCHANGED <<peers, met, cur, ppc>>
           \/ /\ peers' = [peers EXCEPT ![d] = @ \cup {f.by}]
              /\ met' = met \cup {<<d, f.by>>}
              /\ cur' = [cur EXCEPT ![d] = f] /\ ppc' = [ppc EXCEPT ![d] = f.kind]
  BY DEF P!Take, P!AcceptByHand, P!CompleteByHand, P!TakeByHand, P!Carried, P!AddPeer, P!At,
         P!work
<1>2. f \in P!Files /\ f.kind \in {"offer", "accept"} /\ f.by \in Device /\ Given(f)
  BY PFiles DEF PTyped, Trusted
<1>3. PTyped'
  BY <1>1, <1>2 DEF PTyped, PSteps
<1>4. ptodo'[d] \subseteq ptodo[d] /\ \A e \in Device \ {d} : ptodo'[e] = ptodo[e]
  BY <1>1 DEF PTyped
<1>5. CASE UNCHANGED <<peers, met, cur, ppc>>
  <2>1. ppc[d] = "accept" => Given(cur[d])'
    BY <1>1, <1>5 DEF Trusted, Given
  <2>2. \A e \in Device : Trusted(e)'
    BY <1>1, <1>4, <1>5, <2>1, PTrusts DEF Trusted
  <2> QED BY <1>3, <2>2
<1>6. CASE /\ met' = met \cup {<<d, f.by>>}
           /\ cur' = [cur EXCEPT ![d] = f] /\ ppc' = [ppc EXCEPT ![d] = f.kind]
  <2>1. /\ cur'[d] = f /\ ppc'[d] = f.kind
        /\ \A e \in Device \ {d} : cur'[e] = cur[e] /\ ppc'[e] = ppc[e]
    BY <1>6 DEF PTyped
  <2>2. Given(cur[d])'
    BY <1>1, <1>2, <1>6, <2>1 DEF Given
  <2>3. \A e \in Device : Trusted(e)'
    BY <1>1, <1>2, <1>4, <1>6, <2>1, <2>2, PTrusts
  <2> QED BY <1>3, <2>3
<1> QED BY <1>1, <1>5, <1>6

\* The key of an accept is adopted.
LEMMA PAdopt ==
  ASSUME PTyped, \A e \in Device : Trusted(e), NEW d \in Device, P!Adopt(d)
  PROVE  PTyped' /\ \A e \in Device : Trusted(e)'
<1>1. /\ ppc[d] = "accept"
      /\ UNCHANGED <<calm, folder, peers, known, ptodo, met>>
      /\ cur' = [cur EXCEPT ![d] = P!Nothing] /\ ppc' = [ppc EXCEPT ![d] = "files"]
      /\ vault' = IF cur[d].to = d /\ vault[d] = NoKey
                  THEN [vault EXCEPT ![d] = cur[d].key] ELSE vault
  BY DEF P!Adopt, P!At, P!Opens, P!NoVault
<1>2. /\ cur[d] \in P!Files /\ <<d, cur[d].by>> \in met
      /\ vault[cur[d].by] = cur[d].key /\ cur[d].key # NoKey
      /\ <<cur[d].by, cur[d].to>> \in met
      /\ cur[d].key \in Device /\ cur[d].by \in Device
  BY <1>1, PFiles DEF Trusted, Given
<1>3. PTyped'
  BY <1>1, <1>2 DEF PTyped, PSteps
<1>4. ppc'[d] = "files" /\ \A e \in Device \ {d} : cur'[e] = cur[e] /\ ppc'[e] = ppc[e]
  BY <1>1 DEF PTyped
<1>5. /\ \A e \in Device \ {d} : vault'[e] = vault[e]
      /\ vault[d] # NoKey => vault'[d] = vault[d]
      /\ vault'[d] = vault[d] \/ (vault[d] = NoKey /\ vault'[d] = cur[d].key /\ cur[d].to = d)
  BY <1>1 DEF PTyped
<1>6. vault'[d] = vault[d]
        \/ \E e \in Device : vault'[e] = vault'[d] /\ {<<d, e>>, <<e, d>>} \subseteq met'
  <2>1. CASE vault[d] = NoKey /\ vault'[d] = cur[d].key /\ cur[d].to = d
    <3>1. cur[d].by # d /\ vault'[cur[d].by] = vault'[d]
      BY <1>2, <1>5, <2>1
    <3> QED BY <1>1, <1>2, <2>1, <3>1
  <2> QED BY <1>5, <2>1
<1>7. \A e \in Device : Trusted(e)'
  BY <1>1, <1>4, <1>5, <1>6, PTrusts, ZenonT(60), SMTT(60)
<1> QED BY <1>3, <1>7
\* An offer is answered with the key, which is made if there is none.
LEMMA PAnswer ==
  ASSUME PTyped, \A e \in Device : Trusted(e), NEW d \in Device, NoKey \notin Device,
         P!Mint(d) \/ P!Answer(d)
  PROVE  PTyped' /\ \A e \in Device : Trusted(e)'
<1>1. CASE P!Mint(d)
  <2>1. /\ ppc[d] = "offer" /\ ppc' = [ppc EXCEPT ![d] = "answer"]
        /\ UNCHANGED <<calm, folder, peers, known, ptodo, cur, met>>
        /\ vault' = IF vault[d] = NoKey THEN [vault EXCEPT ![d] = d] ELSE vault
    BY <1>1 DEF P!Mint, P!At, P!NoVault
  <2>2. PTyped'
    BY <2>1 DEF PTyped, PSteps
  <2>3. /\ ppc'[d] = "answer" /\ \A e \in Device \ {d} : ppc'[e] = ppc[e]
        /\ \A e \in Device \ {d} : vault'[e] = vault[e]
        /\ vault[d] # NoKey => vault'[d] = vault[d]
        /\ vault[d] = NoKey => vault'[d] = d
    BY <2>1 DEF PTyped
  <2>4. cur[d].kind = "offer" /\ cur[d] \in P!Files /\ <<d, cur[d].by>> \in met
    BY <2>1 DEF Trusted
  <2>5. \A e \in Device : Trusted(e)'
    BY <2>1, <2>3, <2>4, PTrusts
  <2> QED BY <2>2, <2>5
<1>2. CASE P!Answer(d)
  <2>1. /\ ppc[d] = "answer" /\ ppc' = [ppc EXCEPT ![d] = "files"]
        /\ cur' = [cur EXCEPT ![d] = P!Nothing]
        /\ UNCHANGED <<calm, peers, vault, known, ptodo, met>>
        /\ P!Write(d, P!Accept(d, cur[d].by, vault[d]))
    BY <1>2 DEF P!Answer, P!At
  <2>2. /\ cur[d] \in P!Files /\ <<d, cur[d].by>> \in met /\ vault[d] # NoKey
        /\ vault[d] \in Device /\ cur[d].by \in Device
    BY <2>1, PFiles DEF PTyped, Trusted
  <2>3. PICK a \in P!Files :
          /\ a = P!Accept(d, cur[d].by, vault[d]) /\ a.by = d /\ a.to = cur[d].by
          /\ a.key = vault[d]
    BY <2>2, PFiles
  <2>4. Given(a)'
    BY <2>1, <2>2, <2>3 DEF Given
  <2>5. /\ folder' \in [Device -> SUBSET P!Files]
        /\ \A e \in Device : folder'[e] \subseteq folder[e] \cup {a}
    BY <2>1, <2>3, PWrite
  <2>6. PTyped'
    BY <2>1, <2>5 DEF PTyped, PSteps
  <2>7. /\ ppc'[d] = "files" /\ \A e \in Device \ {d} : ppc'[e] = ppc[e] /\ cur'[e] = cur[e]
    BY <2>1 DEF PTyped
  <2>8. \A e \in Device : Trusted(e)'
    <3>1. \A e \in Device : \A f \in folder'[e] :
             Given(f)' \/ \E x \in Device : f \in folder[x]
      BY <2>4, <2>5
    <3> QED BY <2>1, <2>7, <3>1, PTrusts
  <2> QED BY <2>6, <2>8
<1> QED BY <1>1, <1>2

\* A peer is removed, a process dies, a replicated folder brings a file.
LEMMA PSet ==
  ASSUME PTyped, \A e \in Device : Trusted(e), NEW d \in Device,
         \/ P!Remove(d) \/ P!Die(d)
         \/ \E c \in Device : \E f \in folder[c] : P!Deliver(c, d, f)
  PROVE  PTyped' /\ \A e \in Device : Trusted(e)'
<1>1. CASE P!Remove(d)
  <2>1. /\ UNCHANGED <<calm, folder, vault, ppc, known, ptodo, cur, met>>
        /\ \E e \in peers[d] : peers' = [peers EXCEPT ![d] = @ \ {e}]
    BY <1>1 DEF P!Remove, P!work
  <2>2. PTyped'
    BY <2>1 DEF PTyped, PSteps
  <2>3. \A e \in Device : Trusted(e)'
    BY <2>1, SMTT(60), ZenonT(60) DEF Trusted, Given
  <2> QED BY <2>2, <2>3
<1>2. CASE P!Die(d)
  <2>1. /\ UNCHANGED <<calm, folder, peers, vault, met>>
        /\ ppc' = [ppc EXCEPT ![d] = "idle"] /\ known' = [known EXCEPT ![d] = {}]
        /\ ptodo' = [ptodo EXCEPT ![d] = {}] /\ cur' = [cur EXCEPT ![d] = P!Nothing]
    BY <1>2 DEF P!Die, P!At
  <2>2. PTyped'
    BY <2>1 DEF PTyped, PSteps
  <2>3. /\ ppc'[d] = "idle" /\ ptodo'[d] = {}
        /\ \A e \in Device \ {d} : ppc'[e] = ppc[e] /\ cur'[e] = cur[e] /\ ptodo'[e] = ptodo[e]
    BY <2>1 DEF PTyped
  <2>4. \A e \in Device : Trusted(e)'
    BY <2>1, <2>3, PTrusts
  <2> QED BY <2>2, <2>4
<1>3. ASSUME NEW c \in Device, NEW f \in folder[c], P!Deliver(c, d, f)
      PROVE  PTyped' /\ \A e \in Device : Trusted(e)'
  <2>1. /\ UNCHANGED <<calm, peers, vault, ppc, known, ptodo, cur, met>>
        /\ folder' = [folder EXCEPT ![d] = @ \cup {f}]
    BY <1>3 DEF P!Deliver, P!work
  <2>2. PTyped'
    BY <2>1 DEF PTyped, PSteps
  <2>3. \A e \in Device : \A g \in folder'[e] : g \in folder[e] \/ g \in folder[c]
    BY <2>1 DEF PTyped
  <2>4. ppc[d] = "accept" => Given(cur[d])'
    BY <2>1 DEF Trusted, Given
  <2>5. \A e \in Device : Trusted(e)'
    BY <2>1, <2>3, <2>4, PTrusts DEF Trusted
  <2> QED BY <2>2, <2>5
<1> QED BY <1>1, <1>2, <1>3
\* In turn, what is said of two devices stays true while one of them works.
LEMMA PTurns ==
  ASSUME Turn, Presser \subseteq Device, NEW d \in Device,
         \A e \in Device \ {d} :
            /\ ppc[e] = "idle" /\ ppc'[e] = "idle" /\ vault'[e] = vault[e]
            /\ ptodo'[e] = ptodo[e] /\ known'[e] = known[e] /\ cur'[e] = cur[e],
         \A e \in Device : /\ folder[e] \subseteq folder'[e]
                           /\ \A f \in folder'[e] : f.by \in Presser,
         Pressing(d)',
         \A e \in Presser : e # d => Answered(d, e)' /\ Answered(e, d)'
  PROVE  Turn'
<1>1. Alone'
  BY DEF Alone
<1>2. ASSUME NEW e \in Device, e # d PROVE Pressing(e)'
  BY <1>2 DEF Turn, Pressing
<1>3. ASSUME NEW a \in Presser, NEW b \in Presser PROVE Answered(a, b)'
  <2>1. CASE a = d /\ b = d
    BY <2>1 DEF Answered
  <2>2. CASE a # d /\ b # d
    <3>1. /\ Answered(a, b)
          /\ ppc[a] = "idle" /\ ppc'[a] = "idle" /\ vault'[a] = vault[a]
          /\ ppc[b] = "idle" /\ ppc'[b] = "idle" /\ vault'[b] = vault[b]
          /\ folder[a] \subseteq folder'[a]
      BY <1>3, <2>2 DEF Turn
    <3> QED BY <3>1 DEF Answered
  <2> QED BY <1>3, <2>1, <2>2
<1> QED BY <1>1, <1>2, <1>3 DEF Turn

\* The press of a device, up to the files it has found.
LEMMA PTurnBegins ==
  ASSUME PTyped, P!InTurn, Turn, Presser \subseteq Device, NEW d \in Device,
         (d \in Presser /\ P!Press(d)) \/ P!List(d) \/ P!Finish(d)
  PROVE  Turn'
<1>0. calm /\ Alone /\ Pressing(d)
  BY DEF P!InTurn, Turn
<1>1. CASE d \in Presser /\ P!Press(d)
  <2>1. P!Write(d, P!Offer(d)) /\ P!Offer(d) \in P!Files /\ P!Offer(d).by = d
    BY <1>1, PFiles DEF P!Press
  <2>2. \A e \in Device : /\ folder[e] \subseteq folder'[e]
                          /\ folder'[e] \subseteq folder[e] \cup {P!Offer(d)}
    BY <2>1, PWrite
  <2>3. \A e \in Device : ppc[e] = "idle"
    BY <1>0, <1>1 DEF P!Press, Turn, Pressing
  <2>4. /\ UNCHANGED <<vault, ptodo, cur>> /\ ppc'[d] = "list"
        /\ \A e \in Device \ {d} : ppc'[e] = ppc[e] /\ known'[e] = known[e]
    BY <1>1 DEF P!Press, P!At, PTyped
  <2>5. \A e \in Device : \A f \in folder'[e] : f.by \in Presser
    BY <1>1, <2>1, <2>2 DEF Turn, Pressing
  <2>6. Pressing(d)'
    BY <1>0, <1>1, <2>4, <2>5 DEF Pressing
  <2>7. ASSUME NEW e \in Presser, e # d PROVE Answered(d, e)' /\ Answered(e, d)'
    <3>1. /\ Answered(d, e) /\ Answered(e, d) /\ ppc[d] = "idle" /\ ppc'[d] = "list"
          /\ ppc[e] = "idle" /\ ppc'[e] = "idle" /\ vault' = vault
          /\ folder[d] \subseteq folder'[d] /\ folder[e] \subseteq folder'[e]
      BY <1>1, <2>2, <2>3, <2>4, <2>7 DEF Turn
    <3> QED BY <3>1 DEF Answered
  <2> QED BY <2>2, <2>3, <2>4, <2>5, <2>6, <2>7, PTurns
<1>2. CASE P!List(d)
  <2>1. /\ ppc[d] = "list" /\ ppc'[d] = "files" /\ UNCHANGED <<folder, vault, known, cur>>
        /\ ptodo'[d] = {f \in folder[d] : f.kind = "offer" \/ f.to = d}
        /\ \A e \in Device \ {d} : ppc'[e] = ppc[e] /\ ptodo'[e] = ptodo[e]
    BY <1>2 DEF P!List, P!At, PTyped
  <2>2. d \in Presser /\ \A e \in Device \ {d} : ppc[e] = "idle"
    BY <1>0, <2>1 DEF Alone, Pressing
  <2>3. \A e \in Device : \A f \in folder'[e] : f.by \in Presser
    BY <2>1 DEF Turn, Pressing
  <2>4. Pressing(d)'
    BY <1>0, <2>1, <2>2, <2>3 DEF Pressing
  <2>5. ASSUME NEW e \in Presser, e # d PROVE Answered(d, e)' /\ Answered(e, d)'
    <3>1. /\ Answered(d, e) /\ Answered(e, d) /\ ppc[d] = "list" /\ ppc'[d] = "files"
          /\ ppc[e] = "idle" /\ ppc'[e] = "idle" /\ vault' = vault /\ folder' = folder
      BY <2>1, <2>2, <2>5 DEF Turn
    <3>2. P!Accept(e, d, vault[e]) \in folder[d] => P!Accept(e, d, vault[e]) \in ptodo'[d]
      BY <2>1, PFiles
    <3> QED BY <3>1, <3>2 DEF Answered
  <2> QED BY <2>1, <2>2, <2>3, <2>4, <2>5, PTurns
<1>3. CASE P!Finish(d)
  <2>1. /\ ppc[d] = "files" /\ ppc'[d] = "idle" /\ UNCHANGED <<folder, vault, ptodo, cur>>
        /\ \A e \in Device \ {d} : ppc'[e] = ppc[e] /\ known'[e] = known[e]
    BY <1>3 DEF P!Finish, P!At, PTyped
  <2>2. d \in Presser /\ \A e \in Device \ {d} : ppc[e] = "idle"
    BY <1>0, <2>1 DEF Alone, Pressing
  <2>3. \A e \in Device : \A f \in folder'[e] : f.by \in Presser
    BY <2>1 DEF Turn, Pressing
  <2>4. Pressing(d)'
    BY <1>0, <2>1, <2>2, <2>3 DEF Pressing
  <2>5. ASSUME NEW e \in Presser, e # d PROVE Answered(d, e)' /\ Answered(e, d)'
    <3>1. /\ Answered(d, e) /\ Answered(e, d) /\ ppc[d] = "files" /\ ppc'[d] = "idle"
          /\ ppc[e] = "idle" /\ ppc'[e] = "idle" /\ vault' = vault /\ folder' = folder
      BY <2>1, <2>2, <2>5 DEF Turn
    <3> QED BY <3>1 DEF Answered
  <2> QED BY <2>1, <2>2, <2>3, <2>4, <2>5, PTurns
<1> QED BY <1>1, <1>2, <1>3

LEMMA PTurnTakes ==
  ASSUME PTyped, P!InTurn, Turn, Presser \subseteq Device, IsFiniteSet(Presser),
         NEW d \in Device, P!Take(d)
  PROVE  Turn'
<1>0. Alone /\ Pressing(d) /\ ppc[d] = "files"
  BY DEF Turn, P!Take
<1>1. PICK f \in ptodo[d] :
        /\ P!MayTake(d, f) /\ UNCHANGED <<folder, vault, known>>
        /\ ptodo' = [ptodo EXCEPT ![d] = @ \ {f}]
        /\ \/ P!Skips(d, f) /\ UNCHANGED <<cur, ppc>>
           \/ /\ ~P!Skips(d, f)
              /\ cur' = [cur EXCEPT ![d] = f] /\ ppc' = [ppc EXCEPT ![d] = f.kind]
  BY DEF P!Take, P!At
<1>2. f \in P!Files /\ f.kind \in {"offer", "accept"} /\ f.by \in Presser
  BY <1>0, PFiles DEF PTyped, Pressing
<1>3. /\ ptodo'[d] = ptodo[d] \ {f}
      /\ \A e \in Device \ {d} : ptodo'[e] = ptodo[e] /\ ppc'[e] = ppc[e] /\ cur'[e] = cur[e]
      /\ \/ f.by \in known[d] \cup {d} /\ cur'[d] = cur[d] /\ ppc'[d] = "files"
         \/ f.by \notin known[d] \cup {d} /\ cur'[d] = f /\ ppc'[d] = f.kind
  BY <1>0, <1>1 DEF P!Skips, PTyped
<1>4. d \in Presser /\ \A e \in Device \ {d} : ppc[e] = "idle"
  BY <1>0 DEF Alone, Pressing
<1>5. \A e \in Device : \A g \in folder'[e] : g.by \in Presser
  BY <1>1 DEF Turn, Pressing
<1>6. Pressing(d)'
  BY <1>0, <1>1, <1>2, <1>3, <1>4, <1>5 DEF Pressing
<1>7. ASSUME NEW e \in Presser, e # d PROVE Answered(d, e)' /\ Answered(e, d)'
  <2>1. /\ Answered(d, e) /\ Answered(e, d) /\ ppc[e] = "idle" /\ ppc'[e] = "idle"
        /\ vault' = vault /\ folder' = folder /\ known' = known
        /\ ppc[d] = "files" /\ ppc'[d] \in {"files", "offer", "accept"}
    BY <1>0, <1>1, <1>2, <1>3, <1>4, <1>7 DEF Turn
  <2>2. Answered(e, d)'
    BY <2>1 DEF Answered
  <2>3. PICK a : a = P!Accept(e, d, vault[e]) /\ a.kind = "accept" /\ a.by = e
    BY PFiles
  <2>4. ASSUME vault[d] = NoKey, vault[e] # NoKey
        PROVE  /\ ppc'[d] = "files" => e \in known[d] \/ a \in ptodo'[d]
               /\ ppc'[d] # "offer"
    <3>1. e \in known[d] \/ a \in ptodo[d]
      BY <1>7, <2>1, <2>3, <2>4 DEF Answered
    <3>2. ASSUME ppc'[d] = "files" PROVE e \in known[d] \/ a \in ptodo'[d]
      BY <1>2, <1>3, <1>7, <2>3, <3>1, <3>2
    <3>3. ASSUME ppc'[d] = "offer" PROVE FALSE
      <4>1. f.kind = "offer" /\ f.by \notin known[d] \cup {d}
        BY <1>3, <3>3
      <4>2. a \notin ptodo[d]
        BY <1>1, <2>3, <4>1 DEF P!MayTake
      <4>3. f.by = e
        BY <1>2, <1>4, <1>7, <4>1, PTwo
      <4> QED BY <3>1, <4>1, <4>2, <4>3
    <3> QED BY <3>2, <3>3
  <2>5. Answered(d, e)'
    BY <2>1, <2>3, <2>4 DEF Answered
  <2> QED BY <2>2, <2>5
<1> QED BY <1>1, <1>3, <1>4, <1>5, <1>6, <1>7, PTurns
LEMMA PTurnAdopts ==
  ASSUME PTyped, \A e \in Device : Trusted(e), P!InTurn, Turn, Presser \subseteq Device,
         IsFiniteSet(Presser), NEW d \in Device, P!Adopt(d)
  PROVE  Turn'
<1>0. Alone /\ Pressing(d) /\ ppc[d] = "accept"
  BY DEF Turn, P!Adopt
<1>1. /\ cur[d].to = d /\ cur[d].by \in Presser \ {d} /\ vault[cur[d].by] = cur[d].key
      /\ cur[d].key # NoKey
  BY <1>0 DEF Pressing, Trusted, Given
<1>2. /\ UNCHANGED <<folder, known, ptodo>> /\ ppc'[d] = "files"
      /\ vault'[d] = IF vault[d] = NoKey THEN cur[d].key ELSE vault[d]
      /\ \A e \in Device \ {d} : ppc'[e] = ppc[e] /\ cur'[e] = cur[e] /\ vault'[e] = vault[e]
  BY <1>1 DEF P!Adopt, P!At, P!Opens, P!NoVault, PTyped
<1>3. d \in Presser /\ \A e \in Device \ {d} : ppc[e] = "idle"
  BY <1>0 DEF Alone, Pressing
<1>4. \A e \in Device : \A f \in folder'[e] : f.by \in Presser
  BY <1>2 DEF Turn, Pressing
<1>5. Pressing(d)'
  BY <1>0, <1>2, <1>3, <1>4 DEF Pressing
<1>6. ASSUME NEW e \in Presser, e # d PROVE Answered(d, e)' /\ Answered(e, d)'
  <2>1. /\ Answered(d, e) /\ Answered(e, d) /\ ppc[e] = "idle" /\ ppc'[e] = "idle"
        /\ vault'[e] = vault[e] /\ e \in Device /\ cur[d].by = e
    BY <1>1, <1>2, <1>3, <1>6, PTwo DEF Turn
  <2>2. vault'[d] # NoKey /\ vault'[d] = vault'[e]
    BY <1>1, <1>2, <2>1 DEF Answered
  <2> QED BY <2>1, <2>2 DEF Answered
<1> QED BY <1>2, <1>3, <1>4, <1>5, <1>6, PTurns

LEMMA PTurnAnswers ==
  ASSUME PTyped, \A e \in Device : Trusted(e), P!InTurn, Turn, Presser \subseteq Device,
         IsFiniteSet(Presser), NoKey \notin Device, NEW d \in Device,
         P!Mint(d) \/ P!Answer(d)
  PROVE  Turn'
<1>0. Alone /\ Pressing(d) /\ ppc[d] \in {"offer", "answer"} /\ calm
  BY DEF Turn, P!Mint, P!Answer, P!InTurn
<1>1. d \in Presser /\ \A e \in Device \ {d} : ppc[e] = "idle"
  BY <1>0 DEF Alone, Pressing
<1>2. cur[d].by \in Presser \ {d} /\ (ppc[d] = "answer" => vault[d] # NoKey)
  BY <1>0 DEF Pressing, Trusted
<1>3. CASE P!Mint(d)
  <2>1. /\ UNCHANGED <<folder, known, ptodo, cur>> /\ ppc[d] = "offer" /\ ppc'[d] = "answer"
        /\ vault'[d] = IF vault[d] = NoKey THEN d ELSE vault[d]
        /\ \A e \in Device \ {d} : ppc'[e] = ppc[e] /\ vault'[e] = vault[e]
    BY <1>3 DEF P!Mint, P!At, P!NoVault, PTyped
  <2>2. \A e \in Device : \A f \in folder'[e] : f.by \in Presser
    BY <2>1 DEF Turn, Pressing
  <2>3. Pressing(d)'
    BY <1>0, <1>1, <2>1, <2>2 DEF Pressing
  <2>4. ASSUME NEW e \in Presser, e # d PROVE Answered(d, e)' /\ Answered(e, d)'
    <3>1. /\ Answered(d, e) /\ Answered(e, d) /\ ppc[e] = "idle" /\ ppc'[e] = "idle"
          /\ vault'[e] = vault[e] /\ e \in Device
      BY <1>1, <2>1, <2>4 DEF Turn
    <3>2. vault'[d] # NoKey /\ (vault'[e] # NoKey => vault'[d] = vault'[e])
      BY <2>1, <2>4, <3>1 DEF Answered
    <3> QED BY <2>1, <3>1, <3>2 DEF Answered
  <2> QED BY <1>1, <2>1, <2>2, <2>3, <2>4, PTurns
<1>4. CASE P!Answer(d)
  <2>1. /\ UNCHANGED <<vault, known, ptodo>> /\ ppc[d] = "answer" /\ ppc'[d] = "files"
        /\ \A e \in Device \ {d} : ppc'[e] = ppc[e] /\ cur'[e] = cur[e]
        /\ P!Write(d, P!Accept(d, cur[d].by, vault[d]))
    BY <1>4 DEF P!Answer, P!At, PTyped
  <2>2. PICK a \in P!Files : a = P!Accept(d, cur[d].by, vault[d]) /\ a.by = d
    BY <1>1, <1>2, <2>1, PFiles DEF PTyped
  <2>3. \A e \in Device : /\ folder[e] \subseteq folder'[e] /\ a \in folder'[e]
                          /\ folder'[e] \subseteq folder[e] \cup {a}
    BY <1>0, <2>1, <2>2, PWrite
  <2>4. \A e \in Device : \A f \in folder'[e] : f.by \in Presser
    BY <1>1, <2>2, <2>3 DEF Turn, Pressing
  <2>5. Pressing(d)'
    BY <1>0, <1>1, <2>1, <2>4 DEF Pressing
  <2>6. ASSUME NEW e \in Presser, e # d PROVE Answered(d, e)' /\ Answered(e, d)'
    <3>1. /\ Answered(d, e) /\ Answered(e, d) /\ ppc[e] = "idle" /\ ppc'[e] = "idle"
          /\ vault' = vault /\ e \in Device /\ cur[d].by = e /\ vault[d] # NoKey
      BY <1>1, <1>2, <2>1, <2>6, PTwo DEF Turn
    <3>2. P!Accept(d, e, vault[d]) \in folder'[e]
      BY <2>2, <2>3, <3>1
    <3> QED BY <2>1, <3>1, <3>2 DEF Answered
  <2> QED BY <1>1, <2>1, <2>3, <2>4, <2>5, <2>6, PTurns
<1> QED BY <1>3, <1>4

LEMMA PStepInv ==
  ASSUME PInv, Presser \subseteq Device, IsFiniteSet(Presser), NoKey \notin Device,
         [P!Next]_(P!vars)
  PROVE  PInv'
<1> DEFINE Hand(d) == \/ P!MakeOffer(d) \/ P!AcceptByHand(d) \/ P!CompleteByHand(d)
                      \/ P!Remove(d) \/ P!Die(d)
<1>0. PTyped /\ (\A d \in Device : Trusted(d)) /\ (P!InTurn => Turn)
  BY DEF PInv
<1>1. CASE UNCHANGED P!vars
  <2>1. UNCHANGED <<calm, folder, peers, vault, ppc, known, ptodo, cur, met>>
    BY <1>1 DEF P!vars, P!work
  <2>2. PTyped' /\ \A d \in Device : Trusted(d)'
    BY <1>0, <2>1, SMTT(60), ZenonT(60) DEF PTyped, Trusted, Given
  <2>3. (P!InTurn)' => Turn'
    BY <1>0, <2>1 DEF P!InTurn, Turn, Alone, Pressing, Answered
  <2> QED BY <2>2, <2>3 DEF PInv
<1>2. ASSUME NEW d \in Device, d \in Presser /\ P!Press(d) PROVE PInv'
  <2>1. PTyped' /\ \A e \in Device : Trusted(e)'
    BY <1>0, <1>2, PPress
  <2>2. (P!InTurn)' => P!InTurn
    BY <1>2 DEF P!InTurn, P!Press
  <2>3. P!InTurn => Turn'
    BY <1>0, <1>2, PTurnBegins
  <2> QED BY <2>1, <2>2, <2>3 DEF PInv
<1>3. ASSUME NEW d \in Device, P!Pressed(d) PROVE PInv'
  <2>1. PTyped' /\ \A e \in Device : Trusted(e)'
    BY <1>0, <1>3, PPress, PTake, PAdopt, PAnswer DEF P!Pressed
  <2>2. (P!InTurn)' => P!InTurn
    BY <1>3 DEF P!InTurn, P!Pressed, P!List, P!Take, P!Adopt, P!Mint, P!Answer, P!Finish
  <2>3. P!InTurn => Turn'
    BY <1>0, <1>3, PTurnBegins, PTurnTakes, PTurnAdopts, PTurnAnswers DEF P!Pressed
  <2> QED BY <2>1, <2>2, <2>3 DEF PInv
<1>4. ASSUME NEW d \in Device, Hand(d) PROVE PInv'
  <2>1. PTyped' /\ \A e \in Device : Trusted(e)'
    BY <1>0, <1>4, PPress, PTake, PSet
  <2>2. ~(P!InTurn)'
    BY <1>4 DEF P!InTurn, P!MakeOffer, P!AcceptByHand, P!CompleteByHand, P!TakeByHand, P!Remove,
                P!Die, P!ByHand
  <2> QED BY <2>1, <2>2 DEF PInv
<1>5. ASSUME NEW c \in Device, NEW d \in Device, \E f \in folder[c] : P!Deliver(c, d, f)
      PROVE  PInv'
  <2>1. PTyped' /\ \A e \in Device : Trusted(e)'
    BY <1>0, <1>5, PSet
  <2>2. ~(P!InTurn)'
    BY <1>5 DEF P!InTurn, P!Deliver
  <2> QED BY <2>1, <2>2 DEF PInv
<1> QED BY <1>1, <1>2, <1>3, <1>4, <1>5 DEF P!Next

\* Pairing (pai-sync/pair.rs and pai_pair_folder), for any devices, presses,
\* acts by hand and deaths: a device has the key of another's vault only from
\* one that it trusts and that trusts it, and two devices whose users press in
\* turn never have two vaults.
THEOREM PairingStaysSafe ==
  ASSUME Presser \subseteq Device, IsFiniteSet(Presser), NoKey \notin Device
  PROVE  P!Spec => []PairingIsSafe
<1>1. ASSUME PInv PROVE PairingIsSafe
  <2>1. PTyped /\ (\A d \in Device : Trusted(d)) /\ (P!InTurn => Turn)
    BY <1>1 DEF PInv
  <2>2. P!TypeOK
    BY <2>1 DEF PTyped, P!TypeOK, PSteps
  <2>3. P!KeysFollowTrust
    BY <2>1 DEF Trusted, P!KeysFollowTrust
  <2>4. P!TwoShare
    BY <2>1 DEF P!TwoShare, P!PairsShareVault, Turn, Pressing, Answered
  <2> QED BY <2>2, <2>3, <2>4 DEF PairingIsSafe, P!PairingIsSafe
<1>2. P!Init => PInv
  BY PInitInv
<1>3. PInv /\ [P!Next]_(P!vars) => PInv'
  BY PStepInv
<1> QED BY <1>1, <1>2, <1>3, PTL DEF P!Spec
=============================================================================
