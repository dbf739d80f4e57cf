---------------------------- MODULE AppHomeProofs ----------------------------
(***************************************************************************)
(* For any devices and bounds: an app has at most one home (OneInstance),  *)
(* its home has the data that its runs wrote (HomeHasData), and when there *)
(* is nothing left to exchange the devices agree on the home and every     *)
(* migration has arrived (Settled).                                        *)
(*                                                                         *)
(* The rows that say where the app lives go around by push, pull, backup   *)
(* and restore, each with a time of its own, so the inductive invariant    *)
(* speaks of a function f from versions to homes: the placement each       *)
(* version of the app/ object had, and from the newest on that one's.      *)
(* Every row, pulled object and backup says what f says of its version     *)
(* (Placed), and a device that hands the app over is the only one ahead of *)
(* f.  The app's owner is the newest home, or the target of the migration  *)
(* it began; it has the app and all its data, or the newest backup of some *)
(* device carries them to it (Moves).  A backup on the transport, pulled   *)
(* or applied is its writer's, or an older one (Copies), and a device that *)
(* has the newest version of the row and nothing to ship says the same as  *)
(* that (Synced).                                                          *)
(***************************************************************************)
EXTENDS AppHome, Integers, TLAPS

(* Types: a row, a backup and an object have a time that has been, and a   *)
(* backup holds writes that were made.                                     *)
Times == 0 .. now
RowsNow == [home : Keys, t : Times, gone : BOOLEAN]
Written == SUBSET (1 .. writes)
PaksNow == [t : Times, data : Written, home : Keys, to : Keys, gone : BOOLEAN]

Doing == {"idle", "hand", "park", "claimed"}
Open == {"no", "live", "parked", "gone"}

ClockTyped == now \in 1 .. MaxTime /\ writes \in 0 .. MaxRuns
RowTyped == row \in [Devices -> RowsNow]
FilesTyped ==
    /\ pkg \subseteq Devices /\ running \in [Devices -> Open]
    /\ \A d \in Devices : running[d] = "live" => d \in pkg
DataTyped ==
    /\ live \in [Devices -> Written] /\ parked \in [Devices -> Written]
    /\ dropped \subseteq 1 .. writes
HeldTyped == held \in [Devices -> [Devices -> PaksNow]]
CmdTyped ==
    /\ cmd \in [Devices -> Doing \X Keys]
    /\ \A d \in Devices : cmd[d][1] = "hand" => cmd[d][2] \in Devices \ {d}
PendTyped ==
    /\ pend \in [Devices -> [Keys -> RowsNow \cup PaksNow]]
    /\ \A d \in Devices : pend[d][None] \in RowsNow
    /\ \A d, w \in Devices : pend[d][w] \in PaksNow
SeenTyped == seen \in [Devices -> [Keys -> Times]]
RemoteTyped ==
    /\ remote \in [Keys -> [obj : RowsNow \cup PaksNow, by : Keys]]
    /\ remote[None].obj \in RowsNow
    /\ \A w \in Devices : remote[w].obj \in PaksNow
HistoryTyped == moving \in [Devices -> Times] /\ clash \subseteq Clashes

Typed ==
    /\ ClockTyped /\ RowTyped /\ FilesTyped /\ DataTyped /\ HeldTyped /\ CmdTyped
    /\ PendTyped /\ SeenTyped /\ RemoteTyped /\ HistoryTyped

\* A row that is written with a time that has been has the type of a row.
LEMMA RowNow ==
    ASSUME NEW home \in Keys, NEW t \in Times, NEW gone \in BOOLEAN
    PROVE  Row(home, t, gone) \in RowsNow
  BY DEF Row, RowsNow

\* And so a backup with writes that were made.
LEMMA PakNow ==
    ASSUME NEW t \in Times, NEW data \in Written, NEW home \in Keys, NEW to \in Keys,
           NEW gone \in BOOLEAN
    PROVE  Pak(t, data, home, to, gone) \in PaksNow
  BY DEF Pak, PaksNow

\* The columns of a row have their types.
LEMMA RowFields ==
    ASSUME NEW r \in RowsNow
    PROVE  r.home \in Keys /\ r.t \in Times /\ r.gone \in BOOLEAN
  BY DEF RowsNow

\* The fields of a backup have their types.
LEMMA PakFields ==
    ASSUME NEW p \in PaksNow
    PROVE  /\ p.t \in Times /\ p.data \in Written /\ p.home \in Keys
           /\ p.to \in Keys /\ p.gone \in BOOLEAN
  BY DEF PaksNow

\* What no row, no backup and no pulled object are.
LEMMA Nothing ==
    ASSUME ClockTyped
    PROVE  /\ NoRow \in RowsNow /\ NoPak \in PaksNow
           /\ NoRow.t = 0 /\ NoRow.home = None /\ NoPak.t = 0 /\ NoPak.gone /\ NoPak.to = None
           /\ Empty \in [Keys -> RowsNow \cup PaksNow] /\ Empty[None] = NoRow
           /\ \A w \in Devices : Empty[w] = NoPak
  <1>1. NoRow \in RowsNow
    BY DEF NoRow, Row, RowsNow, ClockTyped, Keys, Times
  <1>2. NoPak \in PaksNow
    BY DEF NoPak, Pak, PaksNow, ClockTyped, Keys, Written, Times
  <1>3. /\ NoRow.t = 0 /\ NoRow.home = None /\ NoPak.t = 0 /\ NoPak.gone /\ NoPak.to = None
    BY DEF NoRow, NoPak, Row, Pak
  <1>4. /\ Empty \in [Keys -> RowsNow \cup PaksNow] /\ Empty[None] = NoRow
        /\ \A w \in Devices : Empty[w] = NoPak
    BY <1>1, <1>2, AppHomeAssumption DEF Empty, Keys
  <1> QED BY <1>1, <1>2, <1>3, <1>4

\* The types only grow.
LEMMA TypesGrow ==
    ASSUME ClockTyped, now' >= now, now' \in Nat, writes' >= writes, writes' \in Nat
    PROVE  /\ RowsNow \subseteq RowsNow' /\ PaksNow \subseteq PaksNow'
           /\ Written \subseteq Written' /\ Times \subseteq Times'
  <1>1. Times \subseteq Times' /\ 1 .. writes \subseteq 1 .. writes'
    BY DEF ClockTyped, Times
  <1>2. Written \subseteq Written'
    BY <1>1 DEF Written
  <1>3. RowsNow \subseteq RowsNow'
    BY <1>1 DEF RowsNow
  <1>4. PaksNow \subseteq PaksNow'
    BY <1>1, <1>2 DEF PaksNow
  <1> QED BY <1>1, <1>2, <1>3, <1>4

\* What an action does not change keeps its type, as time and runs go on.
LEMMA Keeps ==
    ASSUME Typed, now' \in now .. MaxTime, writes' \in writes .. MaxRuns
    PROVE  /\ ClockTyped'
           /\ RowsNow \subseteq RowsNow' /\ PaksNow \subseteq PaksNow'
           /\ Written \subseteq Written' /\ Times \subseteq Times'
           /\ row' = row => RowTyped'
           /\ pkg' = pkg /\ running' = running => FilesTyped'
           /\ live' = live /\ parked' = parked /\ dropped' = dropped => DataTyped'
           /\ held' = held => HeldTyped'
           /\ cmd' = cmd => CmdTyped'
           /\ pend' = pend => PendTyped'
           /\ seen' = seen => SeenTyped'
           /\ remote' = remote => RemoteTyped'
           /\ moving' = moving /\ clash' \subseteq Clashes => HistoryTyped'
  <1>0. now \in Nat /\ writes \in Nat /\ MaxTime \in Nat /\ MaxRuns \in Nat
    BY AppHomeAssumption DEF Typed, ClockTyped
  <1>1. ClockTyped' /\ now' >= now /\ writes' >= writes /\ now' \in Nat /\ writes' \in Nat
    BY <1>0 DEF Typed, ClockTyped
  <1>2. /\ RowsNow \subseteq RowsNow' /\ PaksNow \subseteq PaksNow'
        /\ Written \subseteq Written' /\ Times \subseteq Times'
    BY <1>1, TypesGrow DEF Typed
  <1>3. row' = row => RowTyped'
    BY <1>2 DEF Typed, RowTyped
  <1>4. pkg' = pkg /\ running' = running => FilesTyped'
    BY DEF Typed, FilesTyped
  <1>5. live' = live /\ parked' = parked /\ dropped' = dropped => DataTyped'
    <2>1. dropped \subseteq 1 .. writes'
      BY <1>0, <1>1 DEF Typed, DataTyped
    <2> QED BY <1>2, <2>1 DEF Typed, DataTyped
  <1>6. held' = held => HeldTyped'
    BY <1>2 DEF Typed, HeldTyped
  <1>7. cmd' = cmd => CmdTyped'
    BY DEF Typed, CmdTyped
  <1>8. pend' = pend => PendTyped'
    <2>1. RowsNow \cup PaksNow \subseteq RowsNow' \cup PaksNow'
      BY <1>2
    <2> QED BY <1>2, <2>1 DEF Typed, PendTyped
  <1>9. seen' = seen => SeenTyped'
    BY <1>2 DEF Typed, SeenTyped
  <1>10. remote' = remote => RemoteTyped'
    <2>1. [obj : RowsNow \cup PaksNow, by : Keys]
            \subseteq [obj : RowsNow' \cup PaksNow', by : Keys]
      BY <1>2
    <2>2. remote \in [Keys -> [obj : RowsNow' \cup PaksNow', by : Keys]]
      BY <2>1 DEF Typed, RemoteTyped
    <2> QED BY <1>2, <2>2 DEF Typed, RemoteTyped
  <1>11. moving' = moving /\ clash' \subseteq Clashes => HistoryTyped'
    BY <1>2 DEF Typed, HistoryTyped
  <1> QED
    BY <1>1, <1>2, <1>3, <1>4, <1>5, <1>6, <1>7, <1>8, <1>9, <1>10, <1>11

\* What is in the state, part by part.
LEMMA Parts ==
    ASSUME Typed
    PROVE  /\ now \in Nat /\ writes \in Nat /\ None \in Keys /\ Devices \subseteq Keys
           /\ \A d \in Devices : row[d] \in RowsNow /\ row[d].home \in Keys
                                 /\ row[d].t \in Times /\ row[d].gone \in BOOLEAN
           /\ \A d \in Devices : live[d] \in Written /\ parked[d] \in Written
           /\ \A d, w \in Devices : held[d][w] \in PaksNow
           /\ \A d \in Devices : pend[d][None] \in RowsNow
           /\ \A d, w \in Devices : pend[d][w] \in PaksNow
           /\ \A d \in Devices, k \in Keys : seen[d][k] \in Times
           /\ remote[None].obj \in RowsNow /\ remote[None].by \in Keys
           /\ \A w \in Devices : remote[w].obj \in PaksNow /\ remote[w].by \in Keys
           /\ \A d \in Devices : cmd[d][1] \in Doing /\ cmd[d][2] \in Keys
  <1>1. now \in Nat /\ writes \in Nat /\ None \in Keys /\ Devices \subseteq Keys
    BY AppHomeAssumption DEF Typed, ClockTyped, Keys
  <1>2. \A d \in Devices : row[d] \in RowsNow
    BY DEF Typed, RowTyped
  <1>3. \A d \in Devices : row[d].home \in Keys /\ row[d].t \in Times
                           /\ row[d].gone \in BOOLEAN
    BY <1>2, RowFields
  <1>4. \A d \in Devices : live[d] \in Written /\ parked[d] \in Written
    BY DEF Typed, DataTyped
  <1>5. \A d, w \in Devices : held[d][w] \in PaksNow
    BY DEF Typed, HeldTyped
  <1>6. /\ \A d \in Devices : pend[d][None] \in RowsNow
        /\ \A d, w \in Devices : pend[d][w] \in PaksNow
    BY DEF Typed, PendTyped
  <1>7. \A d \in Devices, k \in Keys : seen[d][k] \in Times
    BY DEF Typed, SeenTyped
  <1>8. /\ remote[None].obj \in RowsNow
        /\ \A w \in Devices : remote[w].obj \in PaksNow
    BY DEF Typed, RemoteTyped
  <1>9. \A k \in Keys : remote[k].by \in Keys
    BY DEF Typed, RemoteTyped
  <1>10. \A d \in Devices : cmd[d][1] \in Doing /\ cmd[d][2] \in Keys
    BY DEF Typed, CmdTyped
  <1> QED
    BY <1>1, <1>2, <1>3, <1>4, <1>5, <1>6, <1>7, <1>8, <1>9, <1>10

\* One entry of a table is set.
LEMMA RowSet ==
    ASSUME Typed, RowsNow \subseteq RowsNow', NEW d \in Devices, NEW r \in RowsNow',
           row' = [row EXCEPT ![d] = r]
    PROVE  RowTyped' /\ row'[d] = r /\ \A e \in Devices \ {d} : row'[e] = row[e]
  <1>1. row \in [Devices -> RowsNow']
    BY DEF Typed, RowTyped
  <1> QED BY <1>1 DEF RowTyped

\* One backup that a device holds is set.
LEMMA HeldSet ==
    ASSUME Typed, PaksNow \subseteq PaksNow', NEW d \in Devices, NEW w \in Devices,
           NEW p \in PaksNow', held' = [held EXCEPT ![d][w] = p]
    PROVE  /\ HeldTyped' /\ held'[d][w] = p
           /\ \A e, x \in Devices : e # d \/ x # w => held'[e][x] = held[e][x]
  <1>1. held \in [Devices -> [Devices -> PaksNow']]
    BY DEF Typed, HeldTyped
  <1>2. held[d] \in [Devices -> PaksNow']
    BY <1>1
  <1>3. [held[d] EXCEPT ![w] = p] \in [Devices -> PaksNow']
    BY <1>2
  <1>4. held' = [held EXCEPT ![d] = [held[d] EXCEPT ![w] = p]]
    BY <1>1
  <1>5. HeldTyped'
    BY <1>1, <1>3, <1>4 DEF HeldTyped
  <1>6. held'[d] = [held[d] EXCEPT ![w] = p] /\ \A e \in Devices \ {d} : held'[e] = held[e]
    BY <1>1, <1>4
  <1>7. held'[d][w] = p /\ \A x \in Devices \ {w} : held'[d][x] = held[d][x]
    BY <1>2, <1>6
  <1> QED BY <1>5, <1>6, <1>7

\* The command of one device is set.
LEMMA CmdSet ==
    ASSUME Typed, NEW d \in Devices, NEW what \in Doing, NEW to \in Keys, Do(d, what, to),
           what = "hand" => to \in Devices \ {d}
    PROVE  /\ CmdTyped' /\ cmd'[d] = <<what, to>>
           /\ \A e \in Devices \ {d} : cmd'[e] = cmd[e]
  <1>1. cmd \in [Devices -> Doing \X Keys] /\ <<what, to>> \in Doing \X Keys
    BY DEF Typed, CmdTyped
  <1>2. /\ cmd' \in [Devices -> Doing \X Keys] /\ cmd'[d] = <<what, to>>
        /\ \A e \in Devices \ {d} : cmd'[e] = cmd[e]
    BY <1>1 DEF Do
  <1>3. \A e \in Devices : cmd'[e][1] = "hand" => cmd'[e][2] \in Devices \ {e}
    BY <1>2 DEF Typed, CmdTyped
  <1> QED BY <1>2, <1>3 DEF CmdTyped

\* One entry of a device's mirror is set.
LEMMA SeenSet ==
    ASSUME Typed, Times \subseteq Times', NEW d \in Devices, NEW k \in Keys,
           NEW t \in Times', seen' = [seen EXCEPT ![d][k] = t]
    PROVE  /\ SeenTyped'
           /\ \A e \in Devices, x \in Keys : e # d \/ x # k => seen'[e][x] = seen[e][x]
  <1>1. seen \in [Devices -> [Keys -> Times']]
    BY DEF Typed, SeenTyped
  <1>2. seen[d] \in [Keys -> Times']
    BY <1>1
  <1>3. [seen[d] EXCEPT ![k] = t] \in [Keys -> Times']
    BY <1>2
  <1>4. seen' = [seen EXCEPT ![d] = [seen[d] EXCEPT ![k] = t]]
    BY <1>1
  <1>5. SeenTyped'
    BY <1>1, <1>3, <1>4 DEF SeenTyped
  <1>6. seen'[d] = [seen[d] EXCEPT ![k] = t] /\ \A e \in Devices \ {d} : seen'[e] = seen[e]
    BY <1>1, <1>4
  <1>7. seen'[d][k] = t /\ \A x \in Keys \ {k} : seen'[d][x] = seen[d][x]
    BY <1>2, <1>6
  <1> QED BY <1>5, <1>6, <1>7

\* An object leaves the pull's list.
LEMMA PendSet ==
    ASSUME Typed, RowsNow' = RowsNow, PaksNow' = PaksNow, NEW d \in Devices, NEW k \in Keys,
           pend' = [pend EXCEPT ![d][k] = Empty[k]]
    PROVE  /\ PendTyped' /\ pend'[d][k] = Empty[k]
           /\ \A e \in Devices, x \in Keys : e # d \/ x # k => pend'[e][x] = pend[e][x]
  <1> DEFINE T == RowsNow \cup PaksNow
  <1>0. /\ Empty \in [Keys -> T] /\ Empty[None] \in RowsNow
        /\ \A w \in Devices : Empty[w] \in PaksNow
    BY Nothing DEF Typed
  <1>1. /\ pend \in [Devices -> [Keys -> T]]
        /\ \A e \in Devices : pend[e][None] \in RowsNow
        /\ \A e, w \in Devices : pend[e][w] \in PaksNow
    BY DEF Typed, PendTyped
  <1> HIDE DEF T
  <1>2. pend[d] \in [Keys -> T]
    BY <1>1
  <1>3. [pend[d] EXCEPT ![k] = Empty[k]] \in [Keys -> T]
    BY <1>0, <1>2
  <1>4. pend' = [pend EXCEPT ![d] = [pend[d] EXCEPT ![k] = Empty[k]]]
    BY <1>1
  <1>5. pend' \in [Devices -> [Keys -> T]]
    BY <1>1, <1>3, <1>4
  <1>6. /\ pend'[d] = [pend[d] EXCEPT ![k] = Empty[k]]
        /\ \A e \in Devices \ {d} : pend'[e] = pend[e]
    BY <1>1, <1>4
  <1>7. pend'[d][k] = Empty[k] /\ \A x \in Keys \ {k} : pend'[d][x] = pend[d][x]
    BY <1>2, <1>6
  <1>8. \A e \in Devices : pend'[e][None] \in RowsNow
    BY <1>0, <1>1, <1>6, <1>7
  <1>9. \A e, w \in Devices : pend'[e][w] \in PaksNow
    BY <1>0, <1>1, <1>6, <1>7, Parts
  <1> QED BY <1>5, <1>6, <1>7, <1>8, <1>9 DEF PendTyped, T

\* The data of one device is set.
LEMMA LiveSet ==
    ASSUME Typed, Written \subseteq Written', NEW d \in Devices, NEW data \in Written',
           live' = [live EXCEPT ![d] = data]
    PROVE  live' \in [Devices -> Written']
  <1>1. live \in [Devices -> Written']
    BY DEF Typed, DataTyped
  <1> QED BY <1>1

\* The data that a device has parked is set.
LEMMA ParkedSet ==
    ASSUME Typed, Written \subseteq Written', NEW d \in Devices, NEW data \in Written',
           parked' = [parked EXCEPT ![d] = data]
    PROVE  parked' \in [Devices -> Written']
  <1>1. parked \in [Devices -> Written']
    BY DEF Typed, DataTyped
  <1> QED BY <1>1

\* A package is placed: a run that had the old directory open writes to none.
LEMMA PlaceTyped ==
    ASSUME Typed, NEW d \in Devices, Place(d)
    PROVE  FilesTyped' /\ pkg' = pkg \cup {d}
  <1>1. running \in [Devices -> Open]
    BY DEF Typed, FilesTyped
  <1>2. /\ running' \in [Devices -> Open] /\ running'[d] # "live"
        /\ \A e \in Devices \ {d} : running'[e] = running[e]
    BY <1>1 DEF Place, Follow, Open
  <1> QED BY <1>2 DEF Typed, FilesTyped, Place

\* A package that is deleted leaves no run on the live directory.
LEMMA GoneTyped ==
    ASSUME Typed, NEW d \in Devices, pkg' = pkg \ {d}, Follow(d, "gone")
    PROVE  FilesTyped'
  <1>1. running \in [Devices -> Open]
    BY DEF Typed, FilesTyped
  <1>2. /\ running' \in [Devices -> Open] /\ running'[d] # "live"
        /\ \A e \in Devices \ {d} : running'[e] = running[e]
    BY <1>1 DEF Follow, Open
  <1> QED BY <1>2 DEF Typed, FilesTyped

\* What goes against the order of the edits has one of the names in Clashes.
LEMMA ClashNames ==
    ASSUME NEW d \in Devices
    PROVE  /\ Stale(d) \subseteq Clashes /\ Early(d) \subseteq Clashes
           /\ \A pak : Sunk(d, pak) \subseteq Clashes /\ Reborn(d, pak) \subseteq Clashes
           /\ \A obj : /\ Undone(d, obj) \subseteq Clashes /\ Ahead(d, obj) \subseteq Clashes
                       /\ Forgot(d, obj) \subseteq Clashes
  BY DEF Stale, Early, Sunk, Reborn, Undone, Ahead, Forgot, Clashes

-----------------------------------------------------------------------------
(* What the parts of the commands and of the exchange do.                  *)

\* A step that takes no time and writes nothing leaves the types as they are.
LEMMA SameTypes ==
    ASSUME Typed, now' = now, writes' = writes
    PROVE  /\ now' \in now .. MaxTime /\ writes' \in writes .. MaxRuns
           /\ RowsNow' = RowsNow /\ PaksNow' = PaksNow /\ Written' = Written
           /\ Times' = Times
  BY AppHomeAssumption DEF Typed, ClockTyped, RowsNow, PaksNow, Written, Times

\* A stamped write of a row.
LEMMA StampEffect ==
    ASSUME Typed, NEW d \in Devices, NEW home \in Keys, NEW gone \in BOOLEAN,
           Stamp(d, home, gone), writes' = writes
    PROVE  /\ now' = now + 1 /\ now' \in now .. MaxTime /\ writes' \in writes .. MaxRuns
           /\ RowTyped' /\ row'[d].home = home /\ row'[d].t = now + 1
           /\ row'[d].gone = gone
           /\ \A e \in Devices \ {d} : row'[e] = row[e]
  <1>1. now' = now + 1 /\ now' \in now .. MaxTime /\ now + 1 \in Times'
    BY AppHomeAssumption DEF Stamp, Typed, ClockTyped, Times
  <1>2. writes' \in writes .. MaxRuns
    BY AppHomeAssumption DEF Typed, ClockTyped
  <1>3. RowsNow \subseteq RowsNow'
    BY <1>1, <1>2, Keeps
  <1> DEFINE r == Row(home, now + 1, gone)
  <1>4. r \in RowsNow' /\ r.home = home /\ r.t = now + 1 /\ r.gone = gone
    BY <1>1 DEF Row, RowsNow
  <1>5. row' = [row EXCEPT ![d] = r]
    BY DEF Stamp
  <1> HIDE DEF r
  <1>6. RowTyped' /\ row'[d] = r /\ \A e \in Devices \ {d} : row'[e] = row[e]
    BY <1>3, <1>4, <1>5, RowSet
  <1> QED BY <1>1, <1>2, <1>4, <1>6

\* A backup is restored.
LEMMA RestoreEffect ==
    ASSUME Typed, NEW d \in Devices, NEW pak \in PaksNow, RestoreFrom(d, pak),
           now' = now, writes' = writes
    PROVE  /\ RowTyped' /\ FilesTyped' /\ pkg' = pkg \cup {d}
           /\ live' \in [Devices -> Written'] /\ dropped' \subseteq 1 .. writes'
           /\ row'[d].home = (IF row[d] = NoRow THEN pak.home ELSE row[d].home)
           /\ row'[d].t = pak.t /\ row'[d].gone = FALSE
           /\ \A e \in Devices \ {d} : row'[e] = row[e]
  <1>1. /\ RowsNow' = RowsNow /\ Written' = Written
        /\ Written \subseteq Written' /\ RowsNow \subseteq RowsNow'
    BY SameTypes
  <1>2. FilesTyped' /\ pkg' = pkg \cup {d}
    BY PlaceTyped DEF RestoreFrom
  <1> DEFINE home == IF row[d] = NoRow THEN pak.home ELSE row[d].home
             r == Row(home, pak.t, FALSE)
  <1>3. /\ pak.t \in Times /\ pak.home \in Keys /\ pak.data \in Written
        /\ row[d].home \in Keys
    BY PakFields, Parts
  <1>4. home \in Keys
    BY <1>3
  <1> HIDE DEF home
  <1>5. r \in RowsNow' /\ r.home = home /\ r.t = pak.t /\ r.gone = FALSE
    BY <1>1, <1>3, <1>4, RowNow DEF Row
  <1>6. row' = [row EXCEPT ![d] = r]
    BY DEF RestoreFrom, home, Typed, RowTyped
  <1> HIDE DEF r
  <1>7. RowTyped' /\ row'[d] = r /\ \A e \in Devices \ {d} : row'[e] = row[e]
    BY <1>1, <1>5, <1>6, RowSet
  <1>8. live' \in [Devices -> Written']
    BY <1>1, <1>3, LiveSet DEF RestoreFrom
  <1>9. dropped' \subseteq 1 .. writes'
    BY Parts DEF RestoreFrom, Typed, DataTyped, Written
  <1> QED BY <1>2, <1>5, <1>7, <1>8, <1>9 DEF home

\* The live data is parked.
LEMMA DeactivateTyped ==
    ASSUME Typed, NEW d \in Devices, Deactivate(d), writes' = writes, now' = now
    PROVE  live' \in [Devices -> Written'] /\ parked' \in [Devices -> Written']
  <1>1. Written' = Written /\ Written \subseteq Written'
    BY SameTypes
  <1>2. {} \in Written' /\ parked[d] \cup live[d] \in Written'
    BY <1>1, Parts DEF Written
  <1>3. live' = [live EXCEPT ![d] = {}] /\ parked' = [parked EXCEPT ![d] = parked[d] \cup live[d]]
    BY DEF Deactivate, Typed, DataTyped
  <1> QED BY <1>1, <1>2, <1>3, LiveSet, ParkedSet

\* An object is applied.
LEMMA AppliedEffect ==
    ASSUME Typed, NEW d \in Devices, NEW k \in Keys, Applied(d, k), now' = now,
           writes' = writes
    PROVE  /\ PendTyped' /\ SeenTyped' /\ pend'[d][k] = Empty[k]
           /\ seen'[d][k] = pend[d][k].t
           /\ \A e \in Devices, x \in Keys : e # d \/ x # k =>
                pend'[e][x] = pend[e][x] /\ seen'[e][x] = seen[e][x]
  <1>1. RowsNow' = RowsNow /\ PaksNow' = PaksNow /\ Times' = Times
    BY SameTypes
  <1>2. pend[d][k].t \in Times'
    <2>1. pend[d][None].t \in Times
      BY Parts, RowFields
    <2>2. \A w \in Devices : pend[d][w].t \in Times
      BY Parts, PakFields
    <2> QED BY <1>1, <2>1, <2>2 DEF Keys
  <1>3. seen' = [seen EXCEPT ![d][k] = pend[d][k].t] /\ pend' = [pend EXCEPT ![d][k] = Empty[k]]
    BY DEF Applied
  <1>4. /\ SeenTyped' /\ seen'[d][k] = pend[d][k].t
        /\ \A e \in Devices, x \in Keys : e # d \/ x # k => seen'[e][x] = seen[e][x]
    <2>1. Times \subseteq Times'
      BY <1>1
    <2>2. seen'[d][k] = pend[d][k].t
      BY <1>3 DEF Typed, SeenTyped
    <2>3. /\ SeenTyped'
          /\ \A e \in Devices, x \in Keys : e # d \/ x # k => seen'[e][x] = seen[e][x]
      BY <2>1, <1>2, <1>3, SeenSet
    <2> QED BY <2>2, <2>3
  <1>5. /\ PendTyped' /\ pend'[d][k] = Empty[k]
        /\ \A e \in Devices, x \in Keys : e # d \/ x # k => pend'[e][x] = pend[e][x]
    BY <1>1, <1>3, PendSet
  <1> QED BY <1>4, <1>5

-----------------------------------------------------------------------------
(* Type correctness, action by action.                                     *)

\* The commands that stamp a row keep the types.
LEMMA TypedStamp ==
    ASSUME Typed, NEW d \in Devices, Deploy(d) \/ Remove(d) \/ Hand(d) \/ Rescue(d)
    PROVE  Typed'
  <1>0. /\ row[d].home \in Keys /\ row[d].gone \in BOOLEAN /\ d \in Keys /\ None \in Keys
        /\ TRUE \in BOOLEAN /\ FALSE \in BOOLEAN /\ Doing = {"idle", "hand", "park", "claimed"}
    BY Parts DEF Doing
  <1>1. PICK home \in Keys, gone \in BOOLEAN : Stamp(d, home, gone) /\ writes' = writes
    BY <1>0, Parts DEF Deploy, Remove, Hand, Rescue
  <1>2. /\ now' \in now .. MaxTime /\ writes' \in writes .. MaxRuns /\ RowTyped'
    BY <1>1, StampEffect
  <1>3. Stale(d) \subseteq Clashes
    BY ClashNames
  <1>4. CASE Deploy(d)
    <2>1. FilesTyped'
      BY <1>4, PlaceTyped DEF Deploy
    <2>2. clash' \subseteq Clashes
      BY <1>3, <1>4 DEF Deploy, Clashes, Typed, HistoryTyped
    <2> QED BY <1>2, <1>4, <2>1, <2>2, Keeps DEF Deploy, exchange, Typed
  <1>5. CASE Remove(d)
    <2>1. FilesTyped'
      BY <1>5, GoneTyped DEF Remove
    <2>2. clash' \subseteq Clashes
      BY <1>3, <1>5 DEF Remove, Typed, HistoryTyped
    <2>3. live' \in [Devices -> Written']
      <3>1. Written \subseteq Written' /\ {} \in Written'
        BY <1>2, Keeps DEF Written
      <3> QED BY <3>1, <1>5, LiveSet DEF Remove
    <2>4. parked' \in [Devices -> Written'] /\ dropped' \subseteq 1 .. writes'
      BY <1>5, Parts DEF Remove, Typed, DataTyped, Written
    <2>5. DataTyped'
      BY <2>3, <2>4 DEF DataTyped
    <2> QED BY <1>2, <1>5, <2>1, <2>2, <2>5, Keeps DEF Remove, exchange, Typed
  <1>6. CASE Hand(d)
    <2>1. CmdTyped'
      BY <1>0, <1>6, Parts, CmdSet DEF Hand
    <2>2. clash' \subseteq Clashes
      BY <1>3, <1>6 DEF Hand, Typed, HistoryTyped
    <2>3. HistoryTyped'
      <3>1. cmd[d][2] \in Devices
        BY <1>6 DEF Hand, Typed, CmdTyped
      <3>2. held[d][d].t \in Times /\ 0 \in Times /\ Times \subseteq Times'
        BY <1>2, Parts, PakFields, Keeps DEF Times
      <3>3. (IF seen[cmd[d][2]][d] < held[d][d].t THEN held[d][d].t ELSE 0) \in Times'
        BY <3>2
      <3>4. moving \in [Devices -> Times']
        BY <3>2 DEF Typed, HistoryTyped
      <3>5. moving' \in [Devices -> Times']
        BY <1>6, <3>3, <3>4 DEF Hand
      <3> QED BY <2>2, <3>5 DEF HistoryTyped
    <2> QED BY <1>2, <1>6, <2>1, <2>3, Keeps DEF Hand, exchange, Typed
  <1>7. CASE Rescue(d)
    <2>1. CmdTyped'
      BY <1>0, <1>7, CmdSet DEF Rescue
    <2>2. clash' \subseteq Clashes
      BY <1>7 DEF Rescue, Typed, HistoryTyped, Clashes
    <2> QED BY <1>2, <1>7, <2>1, <2>2, Keeps DEF Rescue, exchange, Typed
  <1> QED BY <1>4, <1>5, <1>6, <1>7

\* What a backup is made of has its types.
LEMMA CreateTyped ==
    ASSUME Typed, NEW d \in Devices, NEW to \in Keys, Create(d, to), CmdTyped'
    PROVE  Typed'
  <1>1. /\ now' \in now .. MaxTime /\ writes' \in writes .. MaxRuns /\ now + 1 \in Times'
        /\ writes' = writes
    BY AppHomeAssumption DEF Create, Typed, ClockTyped, Times
  <1>2. PaksNow \subseteq PaksNow' /\ Written \subseteq Written'
    BY <1>1, Keeps
  <1>3. live[d] \in Written' /\ row[d].home \in Keys /\ FALSE \in BOOLEAN
    BY <1>2, Parts
  <1>4. Pak(now + 1, live[d], row[d].home, to, FALSE) \in PaksNow'
    BY <1>1, <1>3 DEF Pak, PaksNow
  <1>5. HeldTyped'
    BY <1>2, <1>4, HeldSet DEF Create
  <1>6. clash' \subseteq Clashes
    BY ClashNames DEF Create, Typed, HistoryTyped
  <1> QED BY <1>1, <1>5, <1>6, Keeps DEF Create, exchange, Typed

\* And those that write the own backup, ...
LEMMA TypedPak ==
    ASSUME Typed, NEW d \in Devices, Backup(d) \/ Migrate(d) \/ BackupDelete(d)
    PROVE  Typed'
  <1>1. CASE Backup(d)
    <2>1. CmdTyped' /\ None \in Keys
      BY <1>1, Parts DEF Backup, Typed, CmdTyped
    <2> QED BY <1>1, <2>1, CreateTyped DEF Backup
  <1>2. CASE Migrate(d)
    <2>1. PICK to \in Devices \ {d} : Create(d, to) /\ Do(d, "hand", to)
      BY <1>2 DEF Migrate
    <2>2. to \in Keys /\ "hand" \in Doing
      BY Parts DEF Doing
    <2>3. CmdTyped'
      BY <2>1, <2>2, CmdSet
    <2> QED BY <2>1, <2>2, <2>3, CreateTyped
  <1>3. CASE BackupDelete(d)
    <2>1. /\ now' \in now .. MaxTime /\ writes' \in writes .. MaxRuns /\ now + 1 \in Times'
          /\ writes' = writes
      BY <1>3, AppHomeAssumption DEF BackupDelete, Typed, ClockTyped, Times
    <2>2. PaksNow \subseteq PaksNow'
      BY <2>1, Keeps
    <2>3. Pak(now + 1, {}, None, None, TRUE) \in PaksNow'
      BY <2>1, Parts DEF Pak, PaksNow, Written
    <2>4. HeldTyped'
      BY <1>3, <2>2, <2>3, HeldSet DEF BackupDelete
    <2>5. clash' \subseteq Clashes
      BY <1>3 DEF BackupDelete, Typed, HistoryTyped, Clashes
    <2> QED BY <1>3, <2>1, <2>4, <2>5, Keeps DEF BackupDelete, exchange, Typed
  <1> QED BY <1>1, <1>2, <1>3

\* ... the ends of the commands, ...
LEMMA TypedEnd ==
    ASSUME Typed, NEW d \in Devices, Park(d) \/ Restore(d) \/ ClaimOnly(d) \/ Dies(d)
    PROVE  Typed'
  <1>1. /\ now' = now /\ writes' = writes
        /\ now' \in now .. MaxTime /\ writes' \in writes .. MaxRuns
    BY SameTypes DEF Park, Restore, ClaimOnly, Dies, history
  <1>2. CmdTyped'
    <2>1. "idle" \in Doing /\ None \in Keys /\ "idle" # "hand" /\ Do(d, "idle", None)
      BY Parts DEF Doing, Park, Restore, ClaimOnly, Dies
    <2> QED BY <2>1, CmdSet
  <1>3. CASE Park(d)
    <2>1. DataTyped'
      <3>1. live' \in [Devices -> Written'] /\ parked' \in [Devices -> Written']
        BY <1>1, <1>3, DeactivateTyped DEF Park
      <3>2. dropped' \subseteq 1 .. writes'
        BY <1>3 DEF Park, Typed, DataTyped
      <3> QED BY <3>1, <3>2 DEF DataTyped
    <2>2. FilesTyped'
      <3>1. running' = [running EXCEPT ![d] = IF running[d] = "live" THEN "parked" ELSE running[d]]
        BY <1>3 DEF Park, Follow, Typed, FilesTyped
      <3> QED BY <1>3, <3>1 DEF Park, Typed, FilesTyped, Open
    <2>3. clash' \subseteq Clashes
      BY <1>3 DEF Park, Typed, HistoryTyped, Clashes
    <2> QED BY <1>1, <1>2, <1>3, <2>1, <2>2, <2>3, Keeps DEF Park, exchange, Typed
  <1>4. CASE Restore(d)
    <2>1. PICK w \in Stored(d) :
            /\ RestoreFrom(d, held[d][w])
            /\ clash' = clash \cup Early(d) \cup Stale(d) \cup Sunk(d, held[d][w])
                                \cup Reborn(d, held[d][w])
      BY <1>4 DEF Restore
    <2>2. held[d][w] \in PaksNow
      BY Parts DEF Stored
    <2>3. /\ RowTyped' /\ FilesTyped'
          /\ live' \in [Devices -> Written'] /\ dropped' \subseteq 1 .. writes'
      BY <1>1, <2>1, <2>2, RestoreEffect
    <2>4. parked' \in [Devices -> Written']
      BY <1>1, <1>4, SameTypes DEF Restore, Typed, DataTyped
    <2>5. DataTyped'
      BY <2>3, <2>4 DEF DataTyped
    <2>6. clash' \subseteq Clashes
      BY <2>1, ClashNames DEF Typed, HistoryTyped
    <2> QED BY <1>1, <1>2, <1>4, <2>3, <2>5, <2>6, Keeps DEF Restore, exchange, Typed
  <1>5. CASE ClaimOnly(d) \/ Dies(d)
    <2>1. /\ UNCHANGED <<row, pkg, live, parked, held, running, seen, pend, remote>>
          /\ UNCHANGED <<dropped, moving, clash>>
      BY <1>5 DEF ClaimOnly, Dies, app, exchange, history
    <2>2. clash' \subseteq Clashes
      BY <2>1 DEF Typed, HistoryTyped
    <2> QED BY <1>1, <1>2, <2>1, <2>2, Keeps DEF Typed
  <1> QED BY <1>3, <1>4, <1>5

\* ... the runs, ...
LEMMA TypedRun ==
    ASSUME Typed, NEW d \in Devices, RunStart(d) \/ RunEnd(d)
    PROVE  Typed'
  <1>1. CASE RunStart(d)
    <2>1. /\ now' = now /\ writes' = writes
          /\ now' \in now .. MaxTime /\ writes' \in writes .. MaxRuns
      BY <1>1, SameTypes DEF RunStart
    <2>2. FilesTyped'
      BY <1>1 DEF RunStart, Typed, FilesTyped, Open
    <2>3. clash' \subseteq Clashes
      BY <1>1, ClashNames DEF RunStart, Typed, HistoryTyped
    <2> QED BY <1>1, <2>1, <2>2, <2>3, Keeps DEF RunStart, exchange, Typed
  <1>2. CASE RunEnd(d)
    <2>0. now \in Nat /\ writes \in Nat /\ MaxRuns \in Nat /\ now \in 1 .. MaxTime
      BY AppHomeAssumption DEF Typed, ClockTyped
    <2>1. now' \in now .. MaxTime /\ writes' \in writes .. MaxRuns /\ writes' = writes + 1
      BY <1>2, <2>0 DEF RunEnd
    <2>2. FilesTyped'
      BY <1>2 DEF RunEnd, Typed, FilesTyped, Open
    <2>3. Written \subseteq Written' /\ writes + 1 \in 1 .. writes'
      BY <2>0, <2>1, Keeps
    <2>4. live[d] \cup {writes + 1} \in Written' /\ parked[d] \cup {writes + 1} \in Written'
      BY <2>3, Parts DEF Written
    <2>5. live \in [Devices -> Written'] /\ parked \in [Devices -> Written']
      BY <2>3 DEF Typed, DataTyped
    <2>6. live' \in [Devices -> Written']
      BY <1>2, <2>4, <2>5 DEF RunEnd
    <2>7. parked' \in [Devices -> Written']
      BY <1>2, <2>4, <2>5 DEF RunEnd
    <2>8. dropped' \subseteq 1 .. writes'
      <3>1. dropped \subseteq 1 .. writes'
        BY <2>0, <2>1 DEF Typed, DataTyped
      <3> QED BY <1>2, <2>3, <3>1 DEF RunEnd
    <2>9. DataTyped'
      BY <2>6, <2>7, <2>8 DEF DataTyped
    <2>10. clash' \subseteq Clashes
      BY <1>2 DEF RunEnd, Typed, HistoryTyped
    <2> QED BY <1>2, <2>1, <2>2, <2>9, <2>10, Keeps DEF RunEnd, exchange, Typed
  <1> QED BY <1>1, <1>2

\* One object of the transport is replaced.
LEMMA RemotePut ==
    ASSUME Typed, NEW d, NEW k \in Keys, NEW o,
           remote' = [remote EXCEPT ![k] = [obj |-> o, by |-> d]]
    PROVE  /\ remote'[k].obj = o /\ remote'[k].by = d
           /\ \A x \in Keys \ {k} : remote'[x] = remote[x]
  <1> DEFINE v == [obj |-> o, by |-> d]
  <1>1. v.obj = o /\ v.by = d
    OBVIOUS
  <1>2. remote' = [remote EXCEPT ![k] = v]
    OBVIOUS
  <1>3. remote \in [Keys -> [obj : RowsNow \cup PaksNow, by : Keys]]
    BY DEF Typed, RemoteTyped
  <1> HIDE DEF v
  <1>4. remote'[k] = v /\ \A x \in Keys \ {k} : remote'[x] = remote[x]
    BY <1>2, <1>3
  <1> QED BY <1>1, <1>4

\* An object is put on the transport.
LEMMA RemoteSet ==
    ASSUME Typed, RowsNow' = RowsNow, PaksNow' = PaksNow, NEW d \in Devices, NEW k \in Keys,
           NEW o, remote' = [remote EXCEPT ![k] = [obj |-> o, by |-> d]],
           k = None => o \in RowsNow, k # None => o \in PaksNow
    PROVE  /\ RemoteTyped' /\ remote'[k].obj = o /\ remote'[k].by = d
           /\ \A x \in Keys \ {k} : remote'[x] = remote[x]
  <1> DEFINE T == RowsNow \cup PaksNow
             V == [obj : T, by : Keys]
             v == [obj |-> o, by |-> d]
  <1>1. v \in V /\ v.obj = o /\ v.by = d
    BY Parts
  <1>2. /\ remote \in [Keys -> V] /\ remote[None].obj \in RowsNow
        /\ \A w \in Devices : remote[w].obj \in PaksNow
    BY DEF Typed, RemoteTyped
  <1>3. remote' = [remote EXCEPT ![k] = v]
    OBVIOUS
  <1> HIDE DEF v, V
  <1>4. /\ remote' \in [Keys -> V] /\ remote'[k] = v
        /\ \A x \in Keys \ {k} : remote'[x] = remote[x]
    BY <1>1, <1>2, <1>3
  <1>5. remote'[None].obj \in RowsNow /\ \A w \in Devices : remote'[w].obj \in PaksNow
    BY <1>1, <1>2, <1>4, Parts, AppHomeAssumption
  <1>6. RemoteTyped'
    BY <1>4, <1>5 DEF RemoteTyped, V
  <1> QED BY <1>1, <1>4, <1>6

\* ... the pushes, ...
LEMMA TypedPush ==
    ASSUME Typed, NEW d \in Devices, PushApp(d) \/ PushBackups(d)
    PROVE  Typed'
  <1>1. /\ now' = now /\ writes' = writes
        /\ now' \in now .. MaxTime /\ writes' \in writes .. MaxRuns
        /\ RowsNow' = RowsNow /\ PaksNow' = PaksNow /\ Times' = Times /\ Times \subseteq Times'
    BY SameTypes DEF PushApp, PushBackups, history
  <1>2. /\ None \in Keys /\ d \in Keys /\ d # None /\ row[d] \in RowsNow
        /\ row[d].t \in Times' /\ held[d][d] \in PaksNow /\ held[d][d].t \in Times'
    <2>1. /\ None \in Keys /\ d \in Keys /\ row[d] \in RowsNow /\ row[d].t \in Times
          /\ held[d][d] \in PaksNow
      BY Parts
    <2>2. held[d][d].t \in Times
      BY <2>1, PakFields
    <2> QED BY <1>1, <2>1, <2>2, AppHomeAssumption
  <1>3. clash' \subseteq Clashes
    BY DEF PushApp, PushBackups, history, Typed, HistoryTyped, Clashes
  <1>4. /\ UNCHANGED <<row, pkg, live, parked, held, running, cmd, pend>>
        /\ UNCHANGED <<dropped, moving>>
    BY DEF PushApp, PushBackups, app, history
  <1>5. SeenTyped' /\ RemoteTyped'
    <2>1. CASE PushApp(d) /\ Ships(d)
      <3>1. /\ remote' = [remote EXCEPT ![None] = [obj |-> row[d], by |-> d]]
            /\ seen' = [seen EXCEPT ![d][None] = row[d].t]
        BY <2>1 DEF PushApp
      <3>2. RemoteTyped'
        BY <1>1, <1>2, <3>1, RemoteSet
      <3> QED BY <1>1, <1>2, <3>1, <3>2, SeenSet
    <2>2. CASE PushBackups(d) /\ held[d][d].t > seen[d][d]
      <3>1. /\ remote' = [remote EXCEPT ![d] = [obj |-> held[d][d], by |-> d]]
            /\ seen' = [seen EXCEPT ![d][d] = held[d][d].t]
        BY <2>2 DEF PushBackups
      <3>2. RemoteTyped'
        BY <1>1, <1>2, <3>1, RemoteSet
      <3> QED BY <1>1, <1>2, <3>1, <3>2, SeenSet
    <2>3. CASE ~(PushApp(d) /\ Ships(d)) /\ ~(PushBackups(d) /\ held[d][d].t > seen[d][d])
      <3>1. remote' = remote /\ seen' = seen
        BY <2>3 DEF PushApp, PushBackups
      <3> QED BY <1>1, <3>1, Keeps DEF Typed
    <2> QED BY <2>1, <2>2, <2>3
  <1> QED BY <1>1, <1>3, <1>4, <1>5, Keeps DEF Typed

\* A pull lists what is newer.
LEMMA TypedPull ==
    ASSUME Typed, NEW d \in Devices, Pull(d) \/ SyncFails(d)
    PROVE  Typed'
  <1>1. /\ now' = now /\ writes' = writes
        /\ now' \in now .. MaxTime /\ writes' \in writes .. MaxRuns
        /\ RowsNow' = RowsNow /\ PaksNow' = PaksNow
    BY SameTypes DEF Pull, SyncFails, history
  <1>2. /\ UNCHANGED <<row, pkg, live, parked, held, running, cmd, seen, remote>>
        /\ UNCHANGED <<dropped, moving, clash>>
    BY DEF Pull, SyncFails, app, history
  <1>3. clash' \subseteq Clashes
    BY <1>2 DEF Typed, HistoryTyped
  <1> DEFINE T == RowsNow \cup PaksNow
  <1>4. PICK p \in [Keys -> T] : /\ p[None] \in RowsNow /\ \A w \in Devices : p[w] \in PaksNow
                                 /\ pend' = [pend EXCEPT ![d] = p]
    <2>1. CASE Pull(d)
      <3> DEFINE p == [k \in Keys |-> IF k \in Newer(d) THEN remote[k].obj ELSE pend[d][k]]
      <3>1. \A k \in Keys : remote[k].obj \in T /\ pend[d][k] \in T
        BY DEF Typed, RemoteTyped, PendTyped
      <3>2. p \in [Keys -> T]
        BY <3>1
      <3>3. p[None] \in RowsNow /\ \A w \in Devices : p[w] \in PaksNow
        BY Parts
      <3>4. pend' = [pend EXCEPT ![d] = p]
        BY <2>1 DEF Pull, Typed, PendTyped
      <3> QED BY <3>2, <3>3, <3>4
    <2>2. CASE SyncFails(d)
      <3>1. /\ Empty \in [Keys -> T] /\ Empty[None] \in RowsNow
            /\ \A w \in Devices : Empty[w] \in PaksNow
        BY Nothing DEF Typed
      <3> QED BY <2>2, <3>1 DEF SyncFails
    <2> QED BY <2>1, <2>2
  <1>5. PendTyped'
    <2>1. /\ pend \in [Devices -> [Keys -> T]]
          /\ \A e \in Devices : pend[e][None] \in RowsNow
          /\ \A e, w \in Devices : pend[e][w] \in PaksNow
      BY DEF Typed, PendTyped
    <2> HIDE DEF T
    <2>2. pend' \in [Devices -> [Keys -> T]]
      BY <1>4, <2>1
    <2>3. pend'[d] = p /\ \A e \in Devices \ {d} : pend'[e] = pend[e]
      BY <1>4, <2>1
    <2>4. /\ \A e \in Devices : pend'[e][None] \in RowsNow
          /\ \A e, w \in Devices : pend'[e][w] \in PaksNow
      BY <1>4, <2>1, <2>3
    <2> QED BY <1>1, <2>2, <2>4 DEF PendTyped, T
  <1> QED BY <1>1, <1>2, <1>3, <1>5, Keeps DEF Typed

\* A placement or a removal that is applied keeps the types, ...
LEMMA TypedApplyApp ==
    ASSUME Typed, NEW d \in Devices, ApplyApp(d) \/ ApplyAppTombstone(d)
    PROVE  Typed'
  <1> DEFINE obj == pend[d][None]
  <1>1. /\ now' = now /\ writes' = writes
        /\ now' \in now .. MaxTime /\ writes' \in writes .. MaxRuns
        /\ RowsNow' = RowsNow /\ RowsNow \subseteq RowsNow' /\ Written' = Written
    BY SameTypes DEF ApplyApp, ApplyAppTombstone
  <1>2. obj \in RowsNow /\ obj.t \in Times /\ row[d].home \in Keys
    BY Parts, RowFields
  <1>3. PendTyped' /\ SeenTyped'
    BY <1>1, Parts, AppliedEffect DEF ApplyApp, ApplyAppTombstone
  <1>4. clash' \subseteq Clashes
    BY ClashNames DEF ApplyApp, ApplyAppTombstone, Typed, HistoryTyped
  <1>5. CASE ApplyApp(d)
    <2>1. FilesTyped'
      BY <1>5, PlaceTyped DEF ApplyApp
    <2>2. row' = [row EXCEPT ![d] = obj]
      BY <1>5 DEF ApplyApp
    <2>3. RowTyped'
      BY <1>1, <1>2, <2>2, RowSet
    <2>4. DataTyped'
      <3>1. dropped' \subseteq 1 .. writes'
        BY <1>1, <1>5 DEF ApplyApp, Typed, DataTyped
      <3>2. live' \in [Devices -> Written'] /\ parked' \in [Devices -> Written']
        <4>1. CASE Deactivate(d)
          BY <1>1, <4>1, DeactivateTyped
        <4>2. CASE live' = live /\ parked' = parked
          BY <1>1, <4>2 DEF Typed, DataTyped
        <4> QED BY <1>5, <4>1, <4>2 DEF ApplyApp
      <3> QED BY <3>1, <3>2 DEF DataTyped
    <2> QED BY <1>1, <1>3, <1>4, <1>5, <2>1, <2>3, <2>4, Keeps DEF ApplyApp, Typed
  <1>6. CASE ApplyAppTombstone(d)
    <2>1. FilesTyped'
      BY <1>6, GoneTyped DEF ApplyAppTombstone
    <2>2. RowTyped'
      <3>1. CASE row' = row
        BY <1>1, <3>1, Keeps
      <3>2. CASE row' = [row EXCEPT ![d] = Row(row[d].home, obj.t, TRUE)]
        <4>1. Row(row[d].home, obj.t, TRUE) \in RowsNow'
          BY <1>1, <1>2, RowNow
        <4> QED BY <1>1, <3>2, <4>1, RowSet
      <3> QED BY <1>6, <3>1, <3>2 DEF ApplyAppTombstone
    <2>3. live' \in [Devices -> Written']
      <3>1. {} \in Written' /\ Written \subseteq Written'
        BY <1>1 DEF Written
      <3> QED BY <1>6, <3>1, LiveSet DEF ApplyAppTombstone
    <2>4. parked' \in [Devices -> Written'] /\ dropped' \subseteq 1 .. writes'
      BY <1>1, <1>6, Parts DEF ApplyAppTombstone, Typed, DataTyped, Written
    <2>5. DataTyped'
      BY <2>3, <2>4 DEF DataTyped
    <2> QED BY <1>1, <1>3, <1>4, <1>6, <2>1, <2>2, <2>5, Keeps DEF ApplyAppTombstone, Typed
  <1> QED BY <1>5, <1>6

\* ... and so a backup that is stored or restored.
LEMMA TypedApplyBackup ==
    ASSUME Typed, NEW d \in Devices, NEW w \in Devices, ApplyBackup(d, w) \/ MigrateIn(d, w)
    PROVE  Typed'
  <1> DEFINE pak == pend[d][w]
  <1>1. /\ now' = now /\ writes' = writes
        /\ now' \in now .. MaxTime /\ writes' \in writes .. MaxRuns
        /\ PaksNow' = PaksNow /\ PaksNow \subseteq PaksNow'
    BY SameTypes DEF ApplyBackup, MigrateIn, history
  <1>2. /\ pak \in PaksNow /\ pak.t \in Times /\ held[d][w].t \in Times
        /\ held[d][w].home \in Keys /\ held[d][w].to \in Keys /\ {} \in Written
    BY Parts, PakFields DEF Written
  <1>3. PendTyped' /\ SeenTyped'
    BY <1>1, Parts, AppliedEffect DEF ApplyBackup, MigrateIn
  <1>4. CASE ApplyBackup(d, w)
    <2>1. HeldTyped'
      <3> DEFINE p == IF pak.gone THEN Pak(held[d][w].t, {}, held[d][w].home, held[d][w].to, TRUE)
                      ELSE pak
      <3>1. Pak(held[d][w].t, {}, held[d][w].home, held[d][w].to, TRUE) \in PaksNow'
        BY <1>1, <1>2, PakNow
      <3>2. p \in PaksNow'
        BY <1>1, <1>2, <3>1
      <3>3. held' = [held EXCEPT ![d][w] = p]
        BY <1>4 DEF ApplyBackup, Typed, HeldTyped
      <3> HIDE DEF p
      <3> QED BY <1>1, <3>2, <3>3, HeldSet
    <2>2. clash' \subseteq Clashes
      BY <1>4 DEF ApplyBackup, history, Typed, HistoryTyped
    <2> QED BY <1>1, <1>3, <1>4, <2>1, <2>2, Keeps DEF ApplyBackup, history, Typed
  <1>5. CASE MigrateIn(d, w)
    <2>1. HeldTyped'
      <3>1. held' = [held EXCEPT ![d][w] = pak]
        BY <1>5 DEF MigrateIn
      <3> QED BY <1>1, <1>2, <3>1, HeldSet
    <2>2. /\ RowTyped' /\ FilesTyped'
          /\ live' \in [Devices -> Written'] /\ dropped' \subseteq 1 .. writes'
      BY <1>1, <1>2, <1>5, RestoreEffect DEF MigrateIn
    <2>3. parked' \in [Devices -> Written']
      BY <1>1, <1>5, SameTypes DEF MigrateIn, Typed, DataTyped
    <2>4. DataTyped'
      BY <2>2, <2>3 DEF DataTyped
    <2>5. clash' \subseteq Clashes
      BY <1>5, ClashNames DEF MigrateIn, Typed, HistoryTyped
    <2>6. HistoryTyped'
      <3>1. 0 \in Times /\ Times' = Times
        BY <1>1, Parts DEF Times
      <3>2. moving' = [moving EXCEPT ![d] = IF moving[d] <= pak.t THEN 0 ELSE moving[d]]
        BY <1>5 DEF MigrateIn, Typed, HistoryTyped
      <3>3. moving' \in [Devices -> Times']
        BY <3>1, <3>2 DEF Typed, HistoryTyped
      <3> QED BY <2>5, <3>3 DEF HistoryTyped
    <2> QED BY <1>1, <1>3, <1>5, <2>1, <2>2, <2>4, <2>6, Keeps DEF MigrateIn, Typed
  <1> QED BY <1>4, <1>5

\* The initial state has its types.
LEMMA TypedInit == Init => Typed
  <1> SUFFICES ASSUME Init PROVE Typed
    OBVIOUS
  <1> USE DEF Init
  <1>0. ClockTyped
    BY AppHomeAssumption DEF ClockTyped
  <1>1. PICK home \in Keys, new \in SUBSET Devices :
         /\ home \notin new
         /\ row = [d \in Devices |-> IF d \in new THEN NoRow ELSE Row(home, 1, FALSE)]
         /\ pkg = Devices \ new
         /\ seen = [d \in Devices |-> [k \in Keys |->
                       IF k = None /\ d \notin new THEN 1 ELSE 0]]
         /\ remote = [k \in Keys |->
              [obj |-> IF k = None THEN Row(home, 1, FALSE) ELSE NoPak, by |-> None]]
         /\ clash = IF home = None THEN {"unplaced"} ELSE {}
    OBVIOUS
  <1> USE AppHomeAssumption
  <1>2. /\ 0 \in Times /\ 1 \in Times /\ Row(home, 1, FALSE) \in RowsNow
        /\ NoRow \in RowsNow /\ NoPak \in PaksNow /\ {} \in Written
    <2>1. 0 \in Times /\ 1 \in Times
      BY DEF Times
    <2> QED BY <1>0, <2>1, RowNow, Nothing DEF Written
  <1>3. RowTyped
    BY <1>1, <1>2 DEF RowTyped
  <1>4. FilesTyped
    BY <1>1 DEF FilesTyped, Open
  <1>5. DataTyped
    BY <1>2 DEF DataTyped
  <1>6. HeldTyped
    BY <1>2 DEF HeldTyped
  <1>7. CmdTyped
    BY DEF CmdTyped, Doing, Keys
  <1>8. PendTyped
    BY <1>0, Nothing DEF PendTyped
  <1>9. SeenTyped
    BY <1>1, <1>2 DEF SeenTyped
  <1>10. RemoteTyped
    <2>1. \A k \in Keys : /\ remote[k].obj = (IF k = None THEN Row(home, 1, FALSE) ELSE NoPak)
                          /\ remote[k].by = None
      BY <1>1
    <2>2. None \in Keys /\ \A w \in Devices : w \in Keys /\ w # None
      BY DEF Keys
    <2>3. remote \in [Keys -> [obj : RowsNow \cup PaksNow, by : Keys]]
      BY <1>1, <1>2, <2>2
    <2>4. remote[None].obj \in RowsNow
      BY <1>2, <2>1, <2>2
    <2>n. \A w \in Devices : remote[w].obj = NoPak
      BY <2>1, <2>2
    <2>5. \A w \in Devices : remote[w].obj \in PaksNow
      BY <1>2, <2>n
    <2> QED BY <2>3, <2>4, <2>5 DEF RemoteTyped
  <1>11. HistoryTyped
    BY <1>1, <1>2 DEF HistoryTyped, Clashes
  <1> QED BY <1>0, <1>3, <1>4, <1>5, <1>6, <1>7, <1>8, <1>9, <1>10, <1>11 DEF Typed

\* Every step keeps the types.
LEMMA TypedNext == Typed /\ [Next]_vars => Typed'
  <1> SUFFICES ASSUME Typed, [Next]_vars PROVE Typed'
    OBVIOUS
  <1>1. CASE UNCHANGED vars
    BY <1>1, Keeps, SameTypes DEF vars, Typed, HistoryTyped
  <1>2. ASSUME NEW d \in Devices,
               Command(d) \/ Carry(d) \/ RunStart(d) \/ RunEnd(d) \/ Sync(d) \/ SyncFails(d)
        PROVE  Typed'
    BY <1>2, TypedStamp, TypedPak, TypedEnd, TypedRun, TypedPush, TypedPull, TypedApplyApp,
       TypedApplyBackup DEF Command, Carry, Sync, Apply
  <1> QED BY <1>1, <1>2 DEF Next

\* Such types are those of the model.
LEMMA TypesOK == Typed => TypeOK
  <1> SUFFICES ASSUME Typed PROVE TypeOK
    OBVIOUS
  <1>1. now \in Nat /\ writes \in 0 .. MaxRuns
    BY Parts DEF Typed, ClockTyped
  <1>2. Written \subseteq Data /\ Times \subseteq Nat
    BY <1>1, AppHomeAssumption DEF Written, Data, Times
  <1>3. RowsNow \subseteq Rows /\ PaksNow \subseteq Paks
    BY <1>2 DEF RowsNow, Rows, PaksNow, Paks
  <1>4. \A d \in Devices : moving[d] \in Times /\ \A k \in Keys : seen[d][k] \in Times
    BY Parts DEF Typed, HistoryTyped
  <1>5. \A d \in Devices : moving[d] <= now /\ \A k \in Keys : seen[d][k] <= now
    BY <1>1, <1>4 DEF Times
  <1>6. writes <= MaxRuns /\ now \in 1 .. MaxTime
    BY <1>1, AppHomeAssumption DEF Typed, ClockTyped
  <1>7. row \in [Devices -> Rows] /\ live \in [Devices -> Data] /\ parked \in [Devices -> Data]
    BY <1>2, <1>3 DEF Typed, RowTyped, DataTyped
  <1>8. /\ \A d, w \in Devices : held[d][w] \in Paks /\ pend[d][w] \in Paks
        /\ \A d \in Devices : pend[d][None] \in Rows
    BY <1>3, Parts
  <1> QED BY <1>5, <1>6, <1>7, <1>8 DEF TypeOK, Typed, FilesTyped, DataTyped, HistoryTyped

\* Type correctness: every row, mirror and backup has a time that has been, and the
\* data of an app is what its runs wrote.
THEOREM TypeCorrect == Spec => [](Typed /\ TypeOK)
  <1>1. Init => Typed
    BY TypedInit
  <1>2. Typed /\ [Next]_vars => Typed'
    BY TypedNext
  <1> QED BY <1>1, <1>2, TypesOK, PTL DEF Spec

-----------------------------------------------------------------------------
(* The placements that were published: f[t] is the home of the app/ object *)
(* as of version t, and from the newest version on that of the newest.     *)
newest == remote[None].obj
version(d) == seen[d][None]

\* The order of the edits was kept, but for what leaves the placement alone.
Orderly == clash \subseteq {"early", "deleted", "sunk", "late", "ahead"}

\* From version t on the app is x's.
Lasts(f, x, t) == f[t] = x => \A u \in Nat : u >= t => f[u] = x

\* The newest version d knows of makes it the home, and its row hands the app over.
Handing(f, d) == f[version(d)] = d /\ row[d].home # d

\* The object on the transport is the newest version, which some device knows of, and
\* a device that is the home as of its own version is the home of all later ones.
Published(f) ==
    /\ f[newest.t] = newest.home
    /\ \A t \in Nat : t >= newest.t => f[t] = newest.home
    /\ \E d \in Devices : version(d) = newest.t
    /\ \A d \in Devices :
         /\ version(d) <= newest.t
         /\ remote[None].by = d => version(d) = newest.t
         /\ Lasts(f, d, version(d))

\* What a pull fetched is a published placement.
Fetched(f) == \A d \in Devices : pend[d][None] # NoRow =>
    /\ pend[d][None].home = f[pend[d][None].t]
    /\ version(d) < pend[d][None].t /\ pend[d][None].t <= newest.t
    /\ Lasts(f, d, pend[d][None].t)

\* A row says what was published, or hands the app over.
Known(f) == \A d \in Devices :
    /\ d \in pkg => row[d] # NoRow
    /\ row[d] # NoRow =>
         /\ row[d].home \in Devices
         /\ ~Handing(f, d) =>
              /\ row[d].home = f[version(d)]
              /\ row[d].t > version(d) => row[d].home = f[row[d].t]

\* A device that begins to hand the app over has it.
Starts(f) == \A d \in Devices :
    cmd[d][1] = "hand" => row[d].home = d /\ f[version(d)] = d

\* A backup names the home of its time, and no target that is the home.
Named(f, p) == ~p.gone => p.home = f[p.t] /\ p.home \in Devices /\ p.to # p.home

\* No placement was published between version t and the backup.
Since(f, p, t) == ~p.gone => \A u \in Nat : t <= u /\ u <= p.t => f[u] = f[p.t]

\* A deleted backup migrates nowhere.
Gone(p) == p.gone => p.to = None

\* A backup was made of the app at its home, as of a version that its holder knows of,
\* or will once it has applied the placement pulled with it.
Backups(f) ==
    /\ \A d \in Devices : Named(f, remote[d].obj) /\ Gone(remote[d].obj)
    /\ \A d, w \in Devices :
         /\ Named(f, held[d][w]) /\ Since(f, held[d][w], version(d))
         /\ Named(f, pend[d][w]) /\ Gone(pend[d][w])
         /\ Since(f, pend[d][w], version(d)) \/ pend[d][None] # NoRow
         /\ pend[d][None] # NoRow => Since(f, pend[d][w], pend[d][None].t)
    /\ \A d \in Devices :
         /\ Gone(held[d][d]) /\ pend[d][d] = NoPak
         /\ remote[d].by = d \/ remote[d].obj = NoPak

\* A placement that is not published yet is newer than everything else.
Before(p, t) == ~p.gone => p.t < t
Alone(f) == \A d \in Devices : Handing(f, d) /\ row[d].t > newest.t =>
    /\ \A e \in Devices \ {d} : row[e].t < row[d].t
    /\ \A w \in Devices : Before(remote[w].obj, row[d].t)
    /\ \A e, w \in Devices : Before(held[e][w], row[d].t) /\ Before(pend[e][w], row[d].t)

\* The inductive invariant: such placements there are, while the order is kept.
Placed(f) == Published(f) /\ Fetched(f) /\ Known(f) /\ Starts(f) /\ Backups(f) /\ Alone(f)
Placements == Orderly => \E f \in [Nat -> Devices] : Placed(f)

\* The versions that the placements are told apart by are times that have been.
LEMMA Versions ==
    ASSUME Typed
    PROVE  /\ newest.t \in Nat /\ newest.home \in Keys /\ now \in Nat /\ newest.t <= now
           /\ \A d \in Devices : /\ version(d) \in Nat
                                 /\ row[d].t \in Nat /\ row[d].t <= now
                                 /\ pend[d][None].t \in Nat
           /\ \A d, w \in Devices : /\ held[d][w].t \in Nat /\ held[d][w].t <= now
                                    /\ pend[d][w].t \in Nat /\ pend[d][w].t <= now
           /\ \A d \in Devices : remote[d].obj.t \in Nat /\ remote[d].obj.t <= now
  <1>0. now \in Nat /\ \A t \in Times : t \in Nat /\ t <= now
    BY Parts DEF Times
  <1>1. newest.t \in Times /\ newest.home \in Keys
    BY Parts, RowFields DEF newest
  <1>2. \A d \in Devices : version(d) \in Times /\ row[d].t \in Times
    BY Parts DEF version
  <1>3. \A d \in Devices : pend[d][None].t \in Times
    BY Parts, RowFields
  <1>4. \A d, w \in Devices : held[d][w].t \in Times /\ pend[d][w].t \in Times
    BY Parts, PakFields
  <1>5. \A d \in Devices : remote[d].obj.t \in Times
    BY Parts, PakFields
  <1> QED BY <1>0, <1>1, <1>2, <1>3, <1>4, <1>5

\* A device that takes the app for its own, or hands it over, is the newest
\* version's home.
LEMMA OwnersAgree ==
    ASSUME Typed, NEW f \in [Nat -> Devices], Placed(f)
    PROVE  /\ newest.home \in Devices
           /\ \A d \in Devices, u \in Nat :
                f[version(d)] = d /\ u >= version(d) => f[u] = d
           /\ \A d \in Devices : f[version(d)] = d => d = newest.home
           /\ \A d \in Devices : Home(d) => f[version(d)] = d /\ d = newest.home
           /\ \A d \in Devices : Handing(f, d) => d = newest.home
  <1>1. newest.home \in Devices
    BY Versions DEF Placed, Published
  <1>2. \A d \in Devices, u \in Nat : f[version(d)] = d /\ u >= version(d) => f[u] = d
    BY DEF Placed, Published, Lasts
  <1>3. \A d \in Devices : f[version(d)] = d => d = newest.home
    <2> TAKE d \in Devices
    <2>1. newest.t \in Nat /\ version(d) <= newest.t /\ f[newest.t] = newest.home
      BY Versions DEF Placed, Published
    <2> QED BY <1>2, <2>1
  <1>4. \A d \in Devices : Home(d) => f[version(d)] = d
    <2> SUFFICES ASSUME NEW d \in Devices, Home(d) PROVE f[version(d)] = d
      OBVIOUS
    <2>1. row[d] # NoRow
      BY Nothing, AppHomeAssumption DEF Home, Typed
    <2> QED BY <2>1 DEF Placed, Known, Handing, Home
  <1> QED BY <1>1, <1>2, <1>3, <1>4 DEF Handing

\* What went against the order of the edits stays known.
LEMMA ClashGrows == Typed /\ [Next]_vars => clash \subseteq clash'
  <1> SUFFICES ASSUME [Next]_vars PROVE clash \subseteq clash'
    OBVIOUS
  <1>1. CASE UNCHANGED vars
    BY <1>1 DEF vars
  <1>2. ASSUME NEW d \in Devices, Command(d) \/ Carry(d)
        PROVE  clash \subseteq clash'
    BY <1>2 DEF Command, Carry, Deploy, Remove, Backup, BackupDelete, Migrate, Create, Hand, Park,
       Rescue, Restore, ClaimOnly, Dies, history
  <1>3. ASSUME NEW d \in Devices, RunStart(d) \/ RunEnd(d) \/ Sync(d) \/ SyncFails(d)
        PROVE  clash \subseteq clash'
    BY <1>3 DEF RunStart, RunEnd, Sync, SyncFails, PushApp, PushBackups, Pull, Apply, ApplyApp,
       ApplyAppTombstone, ApplyBackup, MigrateIn, history
  <1> QED BY <1>1, <1>2, <1>3 DEF Next

\* While the order of the edits is kept, no action did what clash would show.
LEMMA OrderlyMeans ==
    ASSUME Orderly', NEW d \in Devices, NEW pak, NEW obj
    PROVE  /\ Stale(d) \subseteq clash' =>
                \A e \in Devices : /\ row[e].t > row[d].t => ~(row[e].t > version(d))
                                   /\ version(e) > row[d].t => ~(version(e) > version(d))
           /\ Reborn(d, pak) \subseteq clash' => ~(row[d] = NoRow /\ version(d) > pak.t)
           /\ Undone(d, obj) \subseteq clash' => ~(row[d].t > obj.t \/ version(d) > obj.t)
           /\ Forgot(d, obj) \subseteq clash' => row[d].home \in {None, obj.home}
           /\ "unplaced" \notin clash' /\ "rescue" \notin clash' /\ "hidden" \notin clash'
  <1>1. /\ "stale" \notin clash' /\ "forgot" \notin clash' /\ "undone" \notin clash'
        /\ "unplaced" \notin clash' /\ "rescue" \notin clash' /\ "hidden" \notin clash'
    BY DEF Orderly
  <1>2. Stale(d) \subseteq clash' =>
                \A e \in Devices : /\ row[e].t > row[d].t => ~(row[e].t > version(d))
                                   /\ version(e) > row[d].t => ~(version(e) > version(d))
    BY <1>1 DEF Stale, version
  <1> QED BY <1>1, <1>2 DEF Reborn, Undone, Forgot, version

\* Steps that touch no row, object or backup.
LEMMA PlacedFrame ==
    ASSUME NEW f, Placed(f),
           UNCHANGED <<row, pkg, held, pend, seen, remote>>,
           \A d \in Devices : cmd'[d][1] = "hand" => cmd[d][1] = "hand"
    PROVE  Placed(f)'
  <1> USE DEF newest, version
  <1>1. Published(f)' /\ Fetched(f)'
    BY DEF Placed, Published, Fetched
  <1>2. Known(f)' /\ Starts(f)'
    BY DEF Placed, Known, Starts, Handing
  <1>3. Backups(f)'
    BY DEF Placed, Backups
  <1>4. Alone(f)'
    BY DEF Placed, Alone, Handing
  <1> QED BY <1>1, <1>2, <1>3, <1>4 DEF Placed

-----------------------------------------------------------------------------
(* Each action keeps the placements.                                       *)

\* A stamped write of a row by a device that knows of the newest one.
LEMMA PlacedStamp ==
    ASSUME Typed, NEW f \in [Nat -> Devices], Placed(f), NEW d \in Devices,
           \A e \in Devices : /\ row[e].t > row[d].t => ~(row[e].t > version(d))
                              /\ version(e) > row[d].t => ~(version(e) > version(d)),
           UNCHANGED <<held, pend, seen, remote>>,
           pkg' \subseteq pkg \cup {d},
           row'[d].t = now + 1, row'[d].home \in Devices,
           \A e \in Devices \ {d} : row'[e] = row[e] /\ cmd'[e] = cmd[e],
           cmd'[d][1] # "hand",
           row[d] # NoRow,
           row'[d].home = row[d].home \/ Handing(f, d)'
    PROVE  Placed(f)'
  <1>0. newest' = newest /\ \A e \in Devices : version(e)' = version(e)
    BY DEF newest, version
  <1>v. /\ newest.t \in Nat /\ now \in Nat /\ newest.t <= now
        /\ \A e \in Devices : /\ version(e) \in Nat /\ version(e) <= newest.t
                              /\ row[e].t \in Nat /\ row[e].t <= now
        /\ \A t \in Nat : t >= newest.t => f[t] = newest.home
    BY Versions DEF Placed, Published
  <1>1. version(d) = newest.t \/ (row[d].t >= newest.t /\ row[d].t > version(d))
    <2>1. PICK e \in Devices : version(e) = newest.t
      BY DEF Placed, Published
    <2>2. version(e) > row[d].t => ~(version(e) > version(d))
      OBVIOUS
    <2>3. /\ version(d) \in Nat /\ version(e) \in Nat /\ row[d].t \in Nat
          /\ version(d) <= newest.t
      BY <1>v
    <2> QED BY <2>1, <2>2, <2>3
  <1>2. Published(f)' /\ Fetched(f)'
    <2>1. remote'[None] = remote[None] /\ pend' = pend
      OBVIOUS
    <2> QED BY <1>0, <2>1 DEF Placed, Published, Fetched
  <1>3. Backups(f)'
    BY <1>0 DEF Placed, Backups
  <1>4. \A e \in Devices \ {d} : Handing(f, e)' <=> Handing(f, e)
    BY <1>0 DEF Handing
  <1>5. Known(f)'
    <2>1. row'[d] # NoRow
      BY <1>v, Nothing DEF Typed
    <2>2. ASSUME ~Handing(f, d)'
          PROVE  row'[d].home = f[version(d)] /\ row'[d].home = f[row'[d].t]
      <3>1. row'[d].home = row[d].home
        BY <2>2
      <3>2. ~Handing(f, d)
        BY <1>0, <2>2, <3>1 DEF Handing
      <3>3. /\ row[d].home = f[version(d)]
            /\ row[d].t > version(d) => row[d].home = f[row[d].t]
        BY <3>2 DEF Placed, Known
      <3>4. row[d].home = newest.home
        BY <1>1, <1>v, <3>3
      <3>5. f[now + 1] = newest.home
        BY <1>v
      <3> QED BY <3>1, <3>3, <3>4, <3>5
    <2>3. \A e \in Devices \ {d} :
            /\ e \in pkg' => row'[e] # NoRow
            /\ row'[e] # NoRow =>
                 /\ row'[e].home \in Devices
                 /\ ~Handing(f, e)' =>
                      /\ row'[e].home = f[version(e)']
                      /\ row'[e].t > version(e)' => row'[e].home = f[row'[e].t]
      BY <1>0, <1>4 DEF Placed, Known
    <2> QED BY <1>0, <2>1, <2>2, <2>3 DEF Known
  <1>6. Starts(f)'
    BY <1>0 DEF Placed, Starts
  <1>7. Alone(f)'
    <2>1. \A e \in Devices \ {d} : row'[e].t < row'[d].t
      BY <1>v
    <2>2. /\ \A w \in Devices : Before(remote[w].obj, row'[d].t)
          /\ \A e, w \in Devices : Before(held[e][w], row'[d].t) /\ Before(pend[e][w], row'[d].t)
      BY <1>v, Versions DEF Before
    <2>3. \A e \in Devices \ {d} : ~(Handing(f, e) /\ row[e].t > newest.t)
      <3> SUFFICES ASSUME NEW e \in Devices \ {d}, Handing(f, e), row[e].t > newest.t
                   PROVE  FALSE
        OBVIOUS
      <3>1. row[d].t < row[e].t
        BY DEF Placed, Alone
      <3>2. row[e].t > row[d].t => ~(row[e].t > version(d))
        OBVIOUS
      <3> QED BY <1>v, <3>1, <3>2
    <2> QED BY <1>0, <1>4, <2>1, <2>2, <2>3 DEF Alone
  <1> QED BY <1>2, <1>3, <1>5, <1>6, <1>7 DEF Placed

\* The stamped writes of rows: deploy, remove and the handing over of migrate; a
\* rescue goes against the order.
LEMMA PlacedStamps ==
    ASSUME Typed, NEW f \in [Nat -> Devices], Placed(f), Orderly', NEW d \in Devices,
           Deploy(d) \/ Remove(d) \/ Hand(d) \/ Rescue(d)
    PROVE  Placed(f)'
  <1>0. /\ row[d].home \in Keys /\ row[d].gone \in BOOLEAN /\ TRUE \in BOOLEAN /\ FALSE \in BOOLEAN
        /\ cmd[d][2] \in Keys
    BY Parts
  <1>1. ~Rescue(d)
    BY OrderlyMeans DEF Rescue
  <1>2. \A e \in Devices : /\ row[e].t > row[d].t => ~(row[e].t > version(d))
                           /\ version(e) > row[d].t => ~(version(e) > version(d))
    <2>1. Stale(d) \subseteq clash'
      BY <1>1 DEF Deploy, Remove, Hand
    <2> QED BY <2>1, OrderlyMeans
  <1>3. UNCHANGED <<held, pend, seen, remote>> /\ pkg' \subseteq pkg \cup {d}
    BY <1>1 DEF Deploy, Remove, Hand, exchange, Place
  <1>4. CASE Deploy(d) \/ Remove(d)
    <2>1. PICK gone \in BOOLEAN : Stamp(d, row[d].home, gone) /\ writes' = writes
      BY <1>4, <1>0 DEF Deploy, Remove
    <2>2. /\ row'[d].home = row[d].home /\ row'[d].t = now + 1
          /\ \A e \in Devices \ {d} : row'[e] = row[e]
      BY <1>0, <2>1, StampEffect
    <2>3. cmd' = cmd /\ cmd[d][1] # "hand"
      <3>1. cmd' = cmd /\ cmd[d] = <<"idle", None>>
        BY <1>4 DEF Deploy, Remove, Idle
      <3> QED BY <3>1
    <2>4. row[d] # NoRow
      <3>1. CASE Deploy(d)
        <4>1. row[d].home # None
          BY <3>1, OrderlyMeans DEF Deploy
        <4> QED BY <4>1, Nothing DEF Typed
      <3>2. CASE Remove(d)
        BY <3>2 DEF Remove, Placed, Known
      <3> QED BY <1>4, <3>1, <3>2
    <2>5. row[d].home \in Devices
      BY <2>4 DEF Placed, Known
    <2> QED BY <1>2, <1>3, <2>2, <2>3, <2>4, <2>5, PlacedStamp
  <1>5. CASE Hand(d)
    <2>1. Stamp(d, cmd[d][2], row[d].gone) /\ writes' = writes
      BY <1>5 DEF Hand
    <2>2. /\ row'[d].home = cmd[d][2] /\ row'[d].t = now + 1
          /\ \A e \in Devices \ {d} : row'[e] = row[e]
      BY <1>0, <2>1, StampEffect
    <2>3. cmd[d][2] \in Devices \ {d} /\ row[d].home = d /\ f[version(d)] = d
      BY <1>5 DEF Hand, Typed, CmdTyped, Placed, Starts
    <2>4. cmd'[d][1] # "hand" /\ \A e \in Devices \ {d} : cmd'[e] = cmd[e]
      <3>1. "park" \in Doing
        BY DEF Doing
      <3> QED BY <1>0, <1>5, <3>1, CmdSet DEF Hand
    <2>5. row[d] # NoRow
      BY <2>3, Nothing, AppHomeAssumption DEF Typed
    <2>6. Handing(f, d)'
      BY <1>3, <2>2, <2>3 DEF Handing, version
    <2> QED BY <1>2, <1>3, <2>2, <2>3, <2>4, <2>5, <2>6, PlacedStamp
  <1> QED BY <1>1, <1>4, <1>5

\* A backup takes the place of another.
LEMMA PlacedHeld ==
    ASSUME Typed, NEW f \in [Nat -> Devices], Placed(f), NEW d \in Devices, NEW w \in Devices,
           NEW p, p.t \in Nat,
           UNCHANGED <<row, pkg, pend, seen, remote>>,
           held'[d][w] = p,
           \A e, x \in Devices : e # d \/ x # w => held'[e][x] = held[e][x],
           Named(f, p), Since(f, p, version(d)), Gone(p),
           p.gone \/ (Home(d)),
           \A e \in Devices : cmd'[e][1] = "hand" => cmd[e][1] = "hand" \/ (e = d /\ Home(d))
    PROVE  Placed(f)'
  <1>0. newest' = newest /\ \A e \in Devices : version(e)' = version(e)
    BY DEF newest, version
  <1>1. \A e \in Devices : Handing(f, e)' <=> Handing(f, e)
    BY <1>0 DEF Handing
  <1>2. Published(f)' /\ Fetched(f)'
    <2>1. remote'[None] = remote[None] /\ pend' = pend
      OBVIOUS
    <2> QED BY <1>0, <2>1 DEF Placed, Published, Fetched
  <1>3. Known(f)'
    BY <1>0, <1>1 DEF Placed, Known
  <1>4. Starts(f)'
    BY <1>0, OwnersAgree DEF Placed, Starts, Home
  <1>5. Backups(f)'
    <2>1. \A e, x \in Devices : Named(f, held'[e][x]) /\ Since(f, held'[e][x], version(e))
      BY DEF Placed, Backups
    <2>2. \A e \in Devices : Gone(held'[e][e])
      BY DEF Placed, Backups
    <2> QED BY <1>0, <2>1, <2>2 DEF Placed, Backups
  <1>6. Alone(f)'
    <2> SUFFICES ASSUME NEW c \in Devices, Handing(f, c), row[c].t > newest.t
                 PROVE  \A e, x \in Devices : Before(held'[e][x], row[c].t)
      BY <1>0, <1>1 DEF Placed, Alone
    <2>1. Home(d) => d = newest.home /\ ~Handing(f, d)
      BY OwnersAgree DEF Handing, Home
    <2>2. c = newest.home
      BY OwnersAgree
    <2>3. Before(p, row[c].t)
      BY <2>1, <2>2 DEF Before
    <2> QED BY <2>3 DEF Placed, Alone
  <1> QED BY <1>2, <1>3, <1>4, <1>5, <1>6 DEF Placed

\* A backup is made of the app at its home, for a migration too, or deleted.
LEMMA PlacedPaks ==
    ASSUME Typed, NEW f \in [Nat -> Devices], Placed(f), Orderly', NEW d \in Devices,
           Backup(d) \/ Migrate(d) \/ BackupDelete(d)
    PROVE  Placed(f)'
  <1>1. UNCHANGED <<row, pkg, pend, seen, remote>>
    BY DEF Backup, Migrate, BackupDelete, Create, exchange
  <1>v. /\ now \in Nat /\ newest.t \in Nat /\ newest.t <= now /\ version(d) \in Nat
        /\ version(d) <= newest.t
    BY Versions DEF Placed, Published
  <1>2. ASSUME NEW to \in Keys, Create(d, to), to # d,
               \A e \in Devices : cmd'[e][1] = "hand" => cmd[e][1] = "hand" \/ e = d
        PROVE  Placed(f)'
    <2> DEFINE p == Pak(now + 1, live[d], row[d].home, to, FALSE)
    <2>0. p.t = now + 1 /\ p.home = row[d].home /\ p.to = to /\ p.gone = FALSE
      BY DEF Pak
    <2>1. held' = [held EXCEPT ![d][d] = p]
      BY <1>2 DEF Create
    <2> HIDE DEF p
    <2>2. held'[d][d] = p /\ \A e, x \in Devices : e # d \/ x # d => held'[e][x] = held[e][x]
      BY <2>1 DEF Typed, HeldTyped
    <2>3. Home(d)
      <3>1. row[d].home \in {None, d} /\ d \in pkg
        BY <1>2 DEF Create, Elsewhere
      <3>2. row[d].home \in Devices
        BY <3>1 DEF Placed, Known
      <3> QED BY <3>1, <3>2, AppHomeAssumption DEF Home
    <2>4. \A u \in Nat : u >= version(d) => f[u] = d
      BY <2>3, OwnersAgree
    <2>5. Named(f, p)
      BY <1>2, <1>v, <2>0, <2>3, <2>4 DEF Named, Home
    <2>6. Since(f, p, version(d))
      BY <1>v, <2>0, <2>4 DEF Since
    <2>7. Gone(p) /\ p.t \in Nat
      BY <1>v, <2>0 DEF Gone
    <2> QED BY <1>1, <1>2, <2>2, <2>3, <2>5, <2>6, <2>7, PlacedHeld
  <1>3. CASE Backup(d)
    <2>1. None \in Keys /\ None # d /\ Create(d, None) /\ cmd' = cmd
      BY <1>3, Parts, AppHomeAssumption DEF Backup
    <2> QED BY <1>2, <2>1
  <1>4. CASE Migrate(d)
    <2>1. PICK to \in Devices \ {d} : Create(d, to) /\ Do(d, "hand", to)
      BY <1>4 DEF Migrate
    <2>2. to \in Keys
      BY Parts
    <2>3. \A e \in Devices \ {d} : cmd'[e] = cmd[e]
      BY <2>1 DEF Do, Typed, CmdTyped
    <2> QED BY <1>2, <2>1, <2>2, <2>3
  <1>5. CASE BackupDelete(d)
    <2> DEFINE p == Pak(now + 1, {}, None, None, TRUE)
    <2>0. p.t = now + 1 /\ p.to = None /\ p.gone = TRUE
      BY DEF Pak
    <2>1. held' = [held EXCEPT ![d][d] = p] /\ cmd' = cmd
      BY <1>5 DEF BackupDelete
    <2> HIDE DEF p
    <2>2. held'[d][d] = p /\ \A e, x \in Devices : e # d \/ x # d => held'[e][x] = held[e][x]
      BY <2>1 DEF Typed, HeldTyped
    <2>3. Named(f, p) /\ Since(f, p, version(d)) /\ Gone(p) /\ p.t \in Nat
      BY <1>v, <2>0 DEF Named, Since, Gone
    <2> QED BY <1>1, <2>0, <2>1, <2>2, <2>3, PlacedHeld
  <1> QED BY <1>3, <1>4, <1>5

\* A row comes back from a backup that d has, or that migrates to d.
LEMMA PlacedRow ==
    ASSUME Typed, NEW f \in [Nat -> Devices], Placed(f), NEW d \in Devices, NEW pak,
           pak.t \in Nat, ~pak.gone, Named(f, pak), Since(f, pak, version(d)),
           \A e \in Devices : Handing(f, e) /\ row[e].t > newest.t => Before(pak, row[e].t),
           pak.to = d \/ row[d].home \in {None, d},
           ~(row[d] = NoRow /\ version(d) > pak.t),
           newest' = newest, \A e \in Devices : version(e)' = version(e),
           pkg' = pkg \cup {d},
           row'[d].home = (IF row[d] = NoRow THEN pak.home ELSE row[d].home),
           row'[d].t = pak.t,
           \A e \in Devices \ {d} : row'[e] = row[e]
    PROVE  /\ Known(f)'
           /\ \A e \in Devices : Handing(f, e)' /\ row'[e].t > newest'.t =>
                /\ Handing(f, e) /\ row'[e].t = row[e].t
                /\ \A x \in Devices \ {e} : row'[x].t < row'[e].t
  <1>v. /\ newest.t \in Nat /\ version(d) \in Nat /\ version(d) <= newest.t
        /\ \A e \in Devices : row[e].t \in Nat
    BY Versions DEF Placed, Published
  <1>1. pak.home = f[pak.t] /\ pak.home \in Devices /\ pak.to # pak.home
    BY DEF Named
  <1>2. \A u \in Nat : version(d) <= u /\ u <= pak.t => f[u] = f[pak.t]
    BY DEF Since
  <1>3. \A e \in Devices \ {d} : Handing(f, e)' <=> Handing(f, e)
    BY DEF Handing
  <1>o. \A e \in Devices \ {d} :
            /\ e \in pkg' => row'[e] # NoRow
            /\ row'[e] # NoRow =>
                 /\ row'[e].home \in Devices
                 /\ ~Handing(f, e)' =>
                      /\ row'[e].home = f[version(e)']
                      /\ row'[e].t > version(e)' => row'[e].home = f[row'[e].t]
    BY <1>3 DEF Placed, Known
  <1>4. CASE row[d] = NoRow
    <2>1. row'[d].home = pak.home /\ version(d) <= pak.t
      BY <1>v, <1>4
    <2>2. f[version(d)] = f[pak.t]
      BY <1>v, <1>2, <2>1
    <2>3. ~Handing(f, d)'
      BY <1>1, <2>1, <2>2 DEF Handing
    <2>4. /\ row'[d] # NoRow /\ row'[d].home \in Devices
          /\ row'[d].home = f[version(d)] /\ row'[d].home = f[row'[d].t]
      BY <1>1, <2>1, <2>2, Nothing, AppHomeAssumption DEF Typed
    <2>5. Known(f)'
      BY <1>o, <2>4 DEF Known
    <2>6. \A e \in Devices : Handing(f, e)' /\ row'[e].t > newest'.t =>
                /\ Handing(f, e) /\ row'[e].t = row[e].t
                /\ \A x \in Devices \ {e} : row'[x].t < row'[e].t
      BY <1>3, <2>3 DEF Placed, Alone, Before
    <2> QED BY <2>5, <2>6
  <1>5. CASE row[d] # NoRow
    <2>1. row'[d].home = row[d].home /\ row[d].home \in Devices
      BY <1>5 DEF Placed, Known
    <2>2. Handing(f, d)' <=> Handing(f, d)
      BY <2>1 DEF Handing
    <2>3. row'[d] # NoRow
      BY <2>1, Nothing, AppHomeAssumption DEF Typed
    <2>4. ~Handing(f, d)' => /\ row'[d].home = f[version(d)]
                             /\ row'[d].t > version(d) => row'[d].home = f[row'[d].t]
      BY <1>v, <1>2, <1>5, <2>1, <2>2 DEF Placed, Known
    <2>5. Known(f)'
      BY <1>o, <2>1, <2>3, <2>4 DEF Known
    <2>6. ~(Handing(f, d)' /\ row'[d].t > newest.t)
      <3> SUFFICES ASSUME Handing(f, d), pak.t > newest.t PROVE FALSE
        BY <2>2
      <3>1. f[version(d)] = d /\ row[d].home # d
        BY DEF Handing
      <3>2. f[pak.t] = d
        BY <1>v, <3>1, OwnersAgree
      <3>3. row[d].home \notin {None, d}
        BY <2>1, <3>1, AppHomeAssumption
      <3> QED BY <1>1, <3>2, <3>3
    <2>7. \A e \in Devices : Handing(f, e)' /\ row'[e].t > newest'.t =>
                /\ Handing(f, e) /\ row'[e].t = row[e].t
                /\ \A x \in Devices \ {e} : row'[x].t < row'[e].t
      BY <1>3, <2>6 DEF Placed, Alone, Before
    <2> QED BY <2>5, <2>7
  <1> QED BY <1>4, <1>5

\* A restore puts back a placement that still holds.
LEMMA PlacedRestore ==
    ASSUME Typed, NEW f \in [Nat -> Devices], Placed(f), Orderly', NEW d \in Devices, Restore(d)
    PROVE  Placed(f)'
  <1>1. PICK w \in Stored(d) : RestoreFrom(d, held[d][w]) /\ Reborn(d, held[d][w]) \subseteq clash'
    BY DEF Restore
  <1> DEFINE pak == held[d][w]
  <1>2. pak \in PaksNow /\ ~pak.gone /\ w \in Devices /\ pak.t \in Nat
    BY Parts, Versions DEF Stored
  <1>3. now' = now /\ writes' = writes /\ UNCHANGED <<held, pend, seen, remote>>
    BY DEF Restore, exchange
  <1>4. /\ pkg' = pkg \cup {d}
        /\ row'[d].home = (IF row[d] = NoRow THEN pak.home ELSE row[d].home)
        /\ row'[d].t = pak.t
        /\ \A e \in Devices \ {d} : row'[e] = row[e]
    BY <1>1, <1>2, <1>3, RestoreEffect
  <1>5. newest' = newest /\ \A e \in Devices : version(e)' = version(e)
    BY <1>3 DEF newest, version
  <1>6. /\ Named(f, pak) /\ Since(f, pak, version(d))
        /\ \A e \in Devices : Handing(f, e) /\ row[e].t > newest.t => Before(pak, row[e].t)
    BY <1>2 DEF Placed, Backups, Alone
  <1>7. row[d].home \in {None, d}
    BY DEF Restore, Elsewhere
  <1>8. ~(row[d] = NoRow /\ version(d) > pak.t)
    BY <1>1, OrderlyMeans
  <1> HIDE DEF pak
  <1>9. /\ Known(f)'
        /\ \A e \in Devices : Handing(f, e)' /\ row'[e].t > newest'.t =>
             /\ Handing(f, e) /\ row'[e].t = row[e].t
             /\ \A x \in Devices \ {e} : row'[x].t < row'[e].t
    BY <1>2, <1>4, <1>5, <1>6, <1>7, <1>8, PlacedRow
  <1>10. Published(f)' /\ Fetched(f)' /\ Backups(f)'
    <2>1. remote' = remote /\ pend' = pend /\ held' = held
      BY <1>3
    <2> QED BY <1>5, <2>1 DEF Placed, Published, Fetched, Backups
  <1>11. Starts(f)'
    <2>1. \A e \in Devices : cmd'[e][1] = "hand" => e # d /\ cmd'[e] = cmd[e]
      <3>1. cmd' = [cmd EXCEPT ![d] = <<"idle", None>>]
        BY DEF Restore, Do
      <3>2. cmd'[d][1] = "idle"
        BY <3>1 DEF Typed, CmdTyped
      <3> QED BY <3>1, <3>2 DEF Typed, CmdTyped
    <2> QED BY <1>4, <1>5, <2>1 DEF Placed, Starts
  <1>12. Alone(f)'
    BY <1>3, <1>5, <1>9 DEF Placed, Alone
  <1> QED BY <1>9, <1>10, <1>11, <1>12 DEF Placed

\* So does the backup of a migration, where it arrives.
LEMMA PlacedMigrateIn ==
    ASSUME Typed, NEW f \in [Nat -> Devices], Placed(f), Orderly', NEW d \in Devices,
           NEW w \in Devices, MigrateIn(d, w)
    PROVE  Placed(f)'
  <1> DEFINE pak == pend[d][w]
  <1>1. now' = now /\ writes' = writes /\ UNCHANGED <<cmd, remote>>
    BY DEF MigrateIn
  <1>2. pak \in PaksNow /\ pak.t \in Nat /\ pak.to = d /\ pend[d][None] = NoRow
    BY Parts, Versions DEF MigrateIn, Due
  <1>3. /\ ~pak.gone /\ Named(f, pak) /\ Gone(pak) /\ Since(f, pak, version(d)) /\ d # w
        /\ \A e \in Devices : Handing(f, e) /\ row[e].t > newest.t => Before(pak, row[e].t)
    <2>1. /\ Named(f, pak) /\ Gone(pak) /\ Since(f, pak, version(d)) /\ pend[d][d] = NoPak
          /\ \A e \in Devices : Handing(f, e) /\ row[e].t > newest.t => Before(pak, row[e].t)
      BY <1>2 DEF Placed, Backups, Alone
    <2>2. ~pak.gone
      BY <1>2, <2>1, AppHomeAssumption DEF Gone
    <2>3. d # w
      BY <2>1 DEF MigrateIn, Due
    <2> QED BY <2>1, <2>2, <2>3
  <1>4. /\ pend'[d][w] = NoPak
        /\ \A e \in Devices, x \in Keys : e # d \/ x # w =>
             pend'[e][x] = pend[e][x] /\ seen'[e][x] = seen[e][x]
    <2>1. w \in Keys /\ Applied(d, w) /\ Empty[w] = NoPak
      BY Parts, Nothing DEF MigrateIn, Typed
    <2> QED BY <1>1, <2>1, AppliedEffect
  <1>5. newest' = newest /\ \A e \in Devices : version(e)' = version(e)
                         /\ pend'[e][None] = pend[e][None]
    BY <1>1, <1>4, Parts, AppHomeAssumption DEF newest, version
  <1>6. held'[d][w] = pak /\ \A e, x \in Devices : e # d \/ x # w => held'[e][x] = held[e][x]
    BY DEF MigrateIn, Typed, HeldTyped
  <1>7. /\ pkg' = pkg \cup {d}
        /\ row'[d].home = (IF row[d] = NoRow THEN pak.home ELSE row[d].home)
        /\ row'[d].t = pak.t
        /\ \A e \in Devices \ {d} : row'[e] = row[e]
    BY <1>1, <1>2, RestoreEffect DEF MigrateIn
  <1>8. ~(row[d] = NoRow /\ version(d) > pak.t)
    <2>1. Reborn(d, pak) \subseteq clash'
      BY DEF MigrateIn
    <2> QED BY <2>1, OrderlyMeans
  <1>9. NoPak.gone
    BY Nothing DEF Typed
  <1> HIDE DEF pak
  <1>10. /\ Known(f)'
         /\ \A e \in Devices : Handing(f, e)' /\ row'[e].t > newest'.t =>
              /\ Handing(f, e) /\ row'[e].t = row[e].t
              /\ \A x \in Devices \ {e} : row'[x].t < row'[e].t
    BY <1>2, <1>3, <1>5, <1>7, <1>8, PlacedRow
  <1>11. Published(f)' /\ Fetched(f)'
    <2>1. remote' = remote
      BY <1>1
    <2> QED BY <1>5, <2>1 DEF Placed, Published, Fetched
  <1>12. Starts(f)'
    <2>1. cmd' = cmd /\ \A e \in Devices : row[e].home = e => row'[e].home = e
      BY <1>1, <1>7, Nothing, AppHomeAssumption DEF Typed
    <2> QED BY <1>5, <2>1 DEF Placed, Starts
  <1>13. Backups(f)'
    <2>0. \A t : Named(f, NoPak) /\ Since(f, NoPak, t) /\ Gone(NoPak)
      BY <1>9, Nothing DEF Named, Since, Gone, Typed
    <2>1. \A e, x \in Devices : pend'[e][x] = pend[e][x] \/ pend'[e][x] = NoPak
      BY <1>4 DEF Keys
    <2>2. \A e, x \in Devices : held'[e][x] = held[e][x] \/ (held'[e][x] = pak /\ e = d /\ x = w)
      BY <1>6
    <2>3. \A e, x \in Devices : Named(f, held'[e][x]) /\ Since(f, held'[e][x], version(e))
      BY <1>3, <2>2 DEF Placed, Backups
    <2>4. \A e, x \in Devices :
             /\ Named(f, pend'[e][x]) /\ Gone(pend'[e][x])
             /\ Since(f, pend'[e][x], version(e)) \/ pend[e][None] # NoRow
             /\ pend[e][None] # NoRow => Since(f, pend'[e][x], pend[e][None].t)
      BY <2>0, <2>1 DEF Placed, Backups
    <2>5. \A e \in Devices : Gone(held'[e][e]) /\ pend'[e][e] = NoPak
      BY <1>3, <2>1, <2>2 DEF Placed, Backups
    <2>6. \A e \in Devices : /\ Named(f, remote'[e].obj) /\ Gone(remote'[e].obj)
                             /\ remote'[e].by = e \/ remote'[e].obj = NoPak
      BY <1>1 DEF Placed, Backups
    <2>7. \A e, x \in Devices :
             /\ Since(f, pend'[e][x], version(e)') \/ pend'[e][None] # NoRow
             /\ pend'[e][None] # NoRow => Since(f, pend'[e][x], pend'[e][None].t)
             /\ Since(f, held'[e][x], version(e)')
      <3> TAKE e, x \in Devices
      <3>1. version(e)' = version(e) /\ pend'[e][None] = pend[e][None]
        BY <1>5
      <3> QED BY <2>3, <2>4, <3>1
    <2> QED BY <2>3, <2>4, <2>5, <2>6, <2>7 DEF Backups
  <1>14. Alone(f)'
    <2>1. \A e, x \in Devices : pend'[e][x] = pend[e][x] \/ pend'[e][x] = NoPak
      BY <1>4 DEF Keys
    <2>2. \A e, x \in Devices : held'[e][x] = held[e][x] \/ held'[e][x] = pak
      BY <1>6
    <2>3. \A t : Before(NoPak, t)
      BY <1>9 DEF Before
    <2>4. \A c \in Devices : Handing(f, c) /\ row[c].t > newest.t =>
            \A e, x \in Devices : Before(held'[e][x], row[c].t) /\ Before(pend'[e][x], row[c].t)
      BY <1>3, <2>1, <2>2, <2>3 DEF Placed, Alone
    <2> QED BY <1>1, <1>5, <1>10, <2>4 DEF Placed, Alone
  <1> QED BY <1>10, <1>11, <1>12, <1>13, <1>14 DEF Placed

\* A placement that was pulled is applied, or its removal.
LEMMA PlacedApplyApp ==
    ASSUME Typed, NEW f \in [Nat -> Devices], Placed(f), Orderly', NEW d \in Devices,
           ApplyApp(d) \/ ApplyAppTombstone(d)
    PROVE  Placed(f)'
  <1> DEFINE obj == pend[d][None]
  <1>1. now' = now /\ writes' = writes /\ UNCHANGED <<cmd, remote, held>>
    BY DEF ApplyApp, ApplyAppTombstone
  <1>2. /\ obj # NoRow /\ obj.t \in Nat /\ obj \in RowsNow
        /\ ~(row[d].t > obj.t) /\ ~(version(d) > obj.t)
    <2>1. obj # NoRow /\ Undone(d, obj) \subseteq clash'
      BY DEF ApplyApp, ApplyAppTombstone
    <2> QED BY <2>1, Parts, Versions, OrderlyMeans
  <1>3. /\ version(d) < obj.t /\ obj.t <= newest.t /\ obj.home = f[obj.t] /\ obj.home \in Devices
        /\ Lasts(f, d, obj.t)
    BY <1>2 DEF Placed, Fetched
  <1>4. /\ pend'[d][None] = NoRow /\ version(d)' = obj.t
        /\ \A e \in Devices, x \in Keys : e # d \/ x # None =>
             pend'[e][x] = pend[e][x] /\ seen'[e][x] = seen[e][x]
    <2>1. None \in Keys /\ Applied(d, None) /\ Empty[None] = NoRow
      BY Parts, Nothing DEF ApplyApp, ApplyAppTombstone, Typed
    <2> QED BY <1>1, <2>1, AppliedEffect DEF version
  <1>5. newest' = newest /\ \A e \in Devices \ {d} : version(e)' = version(e)
                         /\ pend'[e][None] = pend[e][None]
    BY <1>1, <1>4, Parts, AppHomeAssumption DEF newest, version
  <1>6. \A e, x \in Devices : pend'[e][x] = pend[e][x]
    BY <1>4, Parts, AppHomeAssumption
  <1>7. /\ \A e \in Devices \ {d} : row'[e] = row[e]
        /\ \/ row'[d].home = obj.home /\ row'[d].t = obj.t /\ row'[d] # NoRow
           \/ row'[d] = NoRow /\ row[d] = NoRow /\ d \notin pkg'
    <2>1. CASE ApplyApp(d)
      <3>1. row' = [row EXCEPT ![d] = obj]
        BY <2>1 DEF ApplyApp
      <3> QED BY <1>2, <3>1 DEF Typed, RowTyped
    <2>2. CASE ApplyAppTombstone(d) /\ row[d] = NoRow
      BY <2>2 DEF ApplyAppTombstone
    <2>3. CASE ApplyAppTombstone(d) /\ row[d] # NoRow
      <3> DEFINE r == Row(row[d].home, obj.t, TRUE)
      <3>1. r.home = row[d].home /\ r.t = obj.t
        BY DEF Row
      <3>2. row' = [row EXCEPT ![d] = r]
        BY <2>3 DEF ApplyAppTombstone
      <3> HIDE DEF r
      <3>3. row'[d] = r /\ \A e \in Devices \ {d} : row'[e] = row[e]
        BY <3>2 DEF Typed, RowTyped
      <3>4. row[d].home \in {None, obj.home} /\ row[d].home \in Devices
        <4>1. Forgot(d, obj) \subseteq clash'
          BY <2>3 DEF ApplyAppTombstone
        <4>2. row[d].home \in {None, obj.home}
          BY <4>1, OrderlyMeans
        <4> QED BY <2>3, <4>2 DEF Placed, Known
      <3>5. row[d].home = obj.home
        BY <3>4, AppHomeAssumption
      <3>6. r # NoRow
        BY <1>3, <3>1, <3>5, Nothing, AppHomeAssumption DEF Typed
      <3> QED BY <3>1, <3>3, <3>5, <3>6
    <2> QED BY <2>1, <2>2, <2>3
  <1>8. pkg' \subseteq pkg \cup {d}
    BY DEF ApplyApp, ApplyAppTombstone, Place
  <1>v. /\ newest.t \in Nat /\ \A e \in Devices : version(e) \in Nat /\ row[e].t \in Nat
        /\ \A w \in Devices : held[d][w].t \in Nat
    BY Versions
  <1> HIDE DEF obj
  <1>9. Published(f)'
    <2>1. PICK e \in Devices : version(e) = newest.t
      BY DEF Placed, Published
    <2>2. version(d) # newest.t
      BY <1>v, <1>2, <1>3
    <2>3. version(e)' = newest'.t
      BY <1>5, <2>1, <2>2
    <2>4. remote' = remote /\ remote[None].by # d
      BY <1>1, <2>2 DEF Placed, Published
    <2>5. \A c \in Devices :
         /\ version(c)' <= newest'.t
         /\ remote'[None].by = c => version(c)' = newest'.t
         /\ Lasts(f, c, version(c)')
      BY <1>3, <1>4, <1>5, <2>4 DEF Placed, Published
    <2> QED BY <1>5, <2>3, <2>5 DEF Placed, Published
  <1>10. Fetched(f)'
    BY <1>4, <1>5 DEF Placed, Fetched
  <1>11. \A e \in Devices \ {d} : Handing(f, e)' <=> Handing(f, e)
    BY <1>5, <1>7 DEF Handing
  <1>12. Known(f)'
    <2>1. \A e \in Devices \ {d} :
            /\ e \in pkg' => row'[e] # NoRow
            /\ row'[e] # NoRow =>
                 /\ row'[e].home \in Devices
                 /\ ~Handing(f, e)' =>
                      /\ row'[e].home = f[version(e)']
                      /\ row'[e].t > version(e)' => row'[e].home = f[row'[e].t]
      BY <1>5, <1>7, <1>8, <1>11 DEF Placed, Known
    <2>2. /\ d \in pkg' => row'[d] # NoRow
          /\ row'[d] # NoRow =>
                 /\ row'[d].home \in Devices
                 /\ row'[d].home = f[version(d)']
                 /\ row'[d].t > version(d)' => row'[d].home = f[row'[d].t]
      BY <1>3, <1>4, <1>7
    <2> QED BY <2>1, <2>2 DEF Known
  <1>13. Starts(f)'
    <2> SUFFICES ASSUME NEW e \in Devices, cmd'[e][1] = "hand"
                 PROVE  row'[e].home = e /\ f[version(e)'] = e
      BY DEF Starts
    <2>1. row[e].home = e /\ f[version(e)] = e
      BY <1>1 DEF Placed, Starts
    <2>2. CASE e # d
      BY <1>5, <1>7, <2>1, <2>2
    <2>3. CASE e = d
      <3>1. f[obj.t] = d
        BY <1>v, <1>2, <1>3, <2>1, <2>3, OwnersAgree
      <3>2. row[d] # NoRow
        BY <2>1, <2>3, Nothing, AppHomeAssumption DEF Typed
      <3> QED BY <1>3, <1>4, <1>7, <2>3, <3>1, <3>2
    <2> QED BY <2>2, <2>3
  <1>14. Backups(f)'
    <2>1. \A w \in Devices : Since(f, held[d][w], obj.t) /\ Since(f, pend[d][w], obj.t)
      <3> TAKE w \in Devices
      <3>1. Since(f, pend[d][w], obj.t)
        BY <1>2 DEF Placed, Backups, obj
      <3>2. Since(f, held[d][w], version(d))
        BY DEF Placed, Backups
      <3>3. Since(f, held[d][w], obj.t)
        BY <1>v, <1>2, <1>3, <3>2 DEF Since
      <3> QED BY <3>1, <3>3
    <2>2. \A e, x \in Devices :
             /\ Since(f, held'[e][x], version(e)')
             /\ Since(f, pend'[e][x], version(e)') \/ pend'[e][None] # NoRow
             /\ pend'[e][None] # NoRow => Since(f, pend'[e][x], pend'[e][None].t)
      <3> TAKE e, x \in Devices
      <3>1. CASE e = d
        BY <1>1, <1>4, <1>6, <2>1, <3>1
      <3>2. CASE e # d
        BY <1>1, <1>5, <1>6, <3>2 DEF Placed, Backups
      <3> QED BY <3>1, <3>2
    <2> QED BY <1>1, <1>6, <2>2 DEF Placed, Backups
  <1>15. Alone(f)'
    <2> SUFFICES ASSUME NEW c \in Devices, Handing(f, c)', row'[c].t > newest'.t
                 PROVE  /\ \A e \in Devices \ {c} : row'[e].t < row'[c].t
                        /\ \A w \in Devices : Before(remote'[w].obj, row'[c].t)
                        /\ \A e, w \in Devices :
                             Before(held'[e][w], row'[c].t) /\ Before(pend'[e][w], row'[c].t)
      BY DEF Alone
    <2>1. c # d
      BY <1>v, <1>2, <1>3, <1>5, <1>7, Nothing DEF Typed
    <2>2. Handing(f, c) /\ row'[c] = row[c] /\ row[c].t > newest.t
      BY <1>5, <1>7, <1>11, <2>1
    <2>3. row'[d].t < row[c].t
      BY <1>v, <1>2, <1>3, <1>7, <2>2, Nothing DEF Typed
    <2> QED BY <1>1, <1>6, <1>7, <2>2, <2>3 DEF Placed, Alone
  <1> QED BY <1>9, <1>10, <1>12, <1>13, <1>14, <1>15 DEF Placed

\* A row is published: the placements up to its version stay, and it is the newest.
LEMMA PlacedShip ==
    ASSUME Typed, NEW f \in [Nat -> Devices], Placed(f), NEW d \in Devices,
           row[d].t > version(d), newest.t < row[d].t, pend[d] = Empty,
           UNCHANGED <<row, pkg, held, cmd, pend>>,
           newest' = row[d], remote'[None].by = d,
           \A w \in Devices : remote'[w] = remote[w],
           version(d)' = row[d].t,
           \A e \in Devices \ {d} : version(e)' = version(e)
    PROVE  \E g \in [Nat -> Devices] :
             /\ Placed(g)'
             /\ \A t \in Nat : t < row[d].t => g[t] = f[t]
             /\ ~Handing(f, d) => \A t \in Nat : g[t] = f[t]
  <1> DEFINE T == row[d].t
  <1>v. /\ newest.t \in Nat /\ T \in Nat /\ newest.t < T
        /\ \A e \in Devices : /\ version(e) \in Nat /\ version(e) <= newest.t
                              /\ row[e].t \in Nat /\ pend[e][None].t \in Nat
        /\ \A e, w \in Devices : held[e][w].t \in Nat /\ pend[e][w].t \in Nat
        /\ \A w \in Devices : remote[w].obj.t \in Nat
        /\ \A t \in Nat : t >= newest.t => f[t] = newest.home
    BY Versions DEF Placed, Published
  <1>1. row[d].home \in Devices
    BY <1>v, Nothing DEF Placed, Known, Typed
  <1>2. PICK g \in [Nat -> Devices] :
            /\ \A t \in Nat : t < T => g[t] = f[t]
            /\ \A t \in Nat : t >= T => g[t] = row[d].home
    <2> DEFINE g == [t \in Nat |-> IF t < T THEN f[t] ELSE row[d].home]
    <2>1. /\ g \in [Nat -> Devices] /\ \A t \in Nat : t < T => g[t] = f[t]
          /\ \A t \in Nat : t >= T => g[t] = row[d].home
      BY <1>1, <1>v
    <2> HIDE DEF g
    <2> QED BY <2>1
  <1>3. pend[d][None] = NoRow /\ (\A w \in Devices : pend[d][w] = NoPak) /\ NoPak.gone
    BY Nothing DEF Typed
  <1>w. /\ newest.t \in Nat /\ T \in Nat /\ newest.t < T
        /\ \A e \in Devices : version(e) \in Nat /\ version(e) <= newest.t /\ version(e) < T
    <2>1. \A e \in Devices : version(e) < T
      BY <1>v
    <2> QED BY <1>v, <2>1
  <1>T. /\ newest'.t = T /\ newest'.home = row[d].home /\ row[d].t = T
        /\ version(d)' = T
    OBVIOUS
  <1> HIDE DEF T
  <1>4. ASSUME ~Handing(f, d) PROVE \A t \in Nat : g[t] = f[t]
    <2>1. row[d] # NoRow
      BY <1>v, Nothing DEF Typed
    <2>2. row[d].home = f[T]
      BY <1>4, <2>1, <1>T, <1>w DEF Placed, Known
    <2>3. row[d].home = newest.home
      BY <1>v, <1>w, <2>2
    <2>4. ASSUME NEW t \in Nat PROVE g[t] = f[t]
      <3>1. CASE t < T
        BY <1>2, <3>1
      <3>2. CASE t >= T
        <4>1. t >= newest.t
          BY <1>w, <3>2
        <4>2. f[t] = newest.home
          BY <1>v, <4>1
        <4> QED BY <1>2, <2>3, <3>2, <4>2
      <3> QED BY <1>w, <3>1, <3>2
    <2> QED BY <2>4
  <1>5. ASSUME Handing(f, d)
        PROVE  /\ d = newest.home
               /\ \A e \in Devices \ {d} : row[e].t < T
               /\ \A w \in Devices : Before(remote[w].obj, T)
               /\ \A e, w \in Devices : Before(held[e][w], T) /\ Before(pend[e][w], T)
    <2>1. row[d].t > newest.t
      BY <1>T, <1>w
    <2> QED BY <1>5, <2>1, <1>T, OwnersAgree DEF Placed, Alone
  <1>n. f[newest.t] = newest.home
    BY DEF Placed, Published
  <1>h. Handing(f, d) => d = newest.home
    BY <1>5
  <1>6. \A e \in Devices : version(e)' = (IF e = d THEN T ELSE version(e))
    BY <1>T
  <1>7. \A e \in Devices \ {d} : Handing(g, e)' <=> Handing(f, e)
    BY <1>2, <1>w, <1>6 DEF Handing
  \* Who is not the home before does not become it by a version of the past.
  <1>8. \A e \in Devices \ {d}, t \in Nat : t <= newest.t /\ Lasts(f, e, t) => Lasts(g, e, t)
    <2> SUFFICES ASSUME NEW e \in Devices \ {d}, NEW t \in Nat, t <= newest.t, Lasts(f, e, t),
                        g[t] = e, NEW u \in Nat, u >= t
                 PROVE  g[u] = e
      BY DEF Lasts
    <2>1. f[t] = e
      BY <1>2, <1>v
    <2>2. f[u] = e /\ f[newest.t] = e
      BY <1>v, <2>1 DEF Lasts
    <2>3. newest.home = e
      BY <1>n, <2>2
    <2>4. ~Handing(f, d)
      BY <1>h, <2>3
    <2> QED BY <1>4, <2>2, <2>4
  <1>9. Published(g)'
    <2>1. g[newest'.t] = newest'.home /\ \A t \in Nat : t >= newest'.t => g[t] = newest'.home
      BY <1>2, <1>w, <1>T
    <2>2. \A e \in Devices :
            version(e)' <= newest'.t /\ (remote'[None].by = e => version(e)' = newest'.t)
      BY <1>6, <1>w, <1>T
    <2>3. \A e \in Devices : Lasts(g, e, version(e)')
      <3> TAKE e \in Devices
      <3>1. CASE e = d
        <4>1. version(e)' = T /\ \A u \in Nat : u >= T => g[u] = g[T]
          BY <1>2, <1>6, <1>w, <3>1
        <4> QED BY <4>1 DEF Lasts
      <3>2. CASE e # d
        <4>1. Lasts(f, e, version(e))
          BY DEF Placed, Published
        <4> QED BY <1>6, <1>8, <1>w, <3>2, <4>1
      <3> QED BY <3>1, <3>2
    <2>4. version(d)' = newest'.t
      BY <1>T
    <2> QED BY <2>1, <2>2, <2>3, <2>4 DEF Published
  <1>10. Fetched(g)'
    <2> SUFFICES ASSUME NEW e \in Devices, pend[e][None] # NoRow
                 PROVE  /\ pend[e][None].home = g[pend[e][None].t]
                        /\ version(e)' < pend[e][None].t /\ pend[e][None].t <= newest'.t
                        /\ Lasts(g, e, pend[e][None].t)
      BY DEF Fetched
    <2>1. e # d
      BY <1>3
    <2>2. /\ pend[e][None].home = f[pend[e][None].t]
          /\ version(e) < pend[e][None].t /\ pend[e][None].t <= newest.t
          /\ Lasts(f, e, pend[e][None].t)
      BY DEF Placed, Fetched
    <2>t. pend[e][None].t \in Nat
      BY <1>v
    <2>3. Lasts(g, e, pend[e][None].t)
      BY <1>8, <2>1, <2>2, <2>t
    <2>4. pend[e][None].t \in Nat /\ pend[e][None].t < T
      BY <1>w, <2>2, <2>t
    <2>5. pend[e][None].home = g[pend[e][None].t]
      BY <1>2, <2>2, <2>4
    <2>6. version(e)' = version(e) /\ pend[e][None].t <= newest'.t
      BY <1>6, <1>T, <1>w, <2>1, <2>4
    <2> QED BY <2>2, <2>3, <2>5, <2>6
  <1>11. Known(g)'
    <2> SUFFICES ASSUME NEW e \in Devices, row[e] # NoRow
                 PROVE  /\ row[e].home \in Devices
                        /\ ~Handing(g, e)' =>
                             /\ row[e].home = g[version(e)']
                             /\ row[e].t > version(e)' => row[e].home = g[row[e].t]
      BY DEF Known, Placed
    <2>1. row[e].home \in Devices
      BY DEF Placed, Known
    <2>2. CASE e = d
      BY <1>2, <1>6, <1>w, <1>T, <2>1, <2>2
    <2>3. CASE e # d
      <3> SUFFICES ASSUME ~Handing(g, e)'
                   PROVE  /\ row[e].home = g[version(e)]
                          /\ row[e].t > version(e) => row[e].home = g[row[e].t]
        BY <1>6, <2>1, <2>3
      <3>1. /\ row[e].home = f[version(e)]
            /\ row[e].t > version(e) => row[e].home = f[row[e].t]
        BY <1>7, <2>3 DEF Placed, Known
      <3>2. CASE Handing(f, d)
        <4>1. row[e].t \in Nat /\ row[e].t < T
          BY <1>5, <1>v, <2>3, <3>2
        <4> QED BY <1>2, <1>w, <3>1, <4>1
      <3>3. CASE ~Handing(f, d)
        BY <1>4, <1>v, <1>w, <3>1, <3>3
      <3> QED BY <3>2, <3>3
    <2> QED BY <2>2, <2>3
  <1>12. Starts(g)'
    <2> SUFFICES ASSUME NEW e \in Devices, cmd[e][1] = "hand"
                 PROVE  row[e].home = e /\ g[version(e)'] = e
      BY DEF Starts
    <2>1. row[e].home = e /\ f[version(e)] = e
      BY DEF Placed, Starts
    <2> QED BY <1>2, <1>6, <1>w, <1>T, <2>1
  \* Every backup is older than the version, or no placement changed.
  <1>13. \A p, t : /\ p.t \in Nat /\ t \in Nat /\ Named(f, p) /\ Since(f, p, t)
                   /\ Handing(f, d) => Before(p, T)
                   => Named(g, p) /\ Since(g, p, t)
    <2> SUFFICES ASSUME NEW p, NEW t \in Nat, p.t \in Nat, Named(f, p), Since(f, p, t), ~p.gone,
                        Handing(f, d) => Before(p, T)
                 PROVE  Named(g, p) /\ Since(g, p, t)
      BY DEF Named, Since
    <2>1. \A u \in Nat : u <= p.t => g[u] = f[u]
      <3>1. CASE Handing(f, d)
        BY <1>2, <1>w, <3>1 DEF Before
      <3>2. CASE ~Handing(f, d)
        BY <1>4, <3>2
      <3> QED BY <3>1, <3>2
    <2> QED BY <2>1 DEF Named, Since
  <1>14. Backups(g)'
    <2>1. \A w \in Devices : Named(g, remote[w].obj)
      <3> TAKE w \in Devices
      <3>1. Named(f, remote[w].obj)
        BY DEF Placed, Backups
      <3>2. remote[w].obj.t \in Nat /\ remote[w].obj.t + 1 \in Nat
        <4>1. remote[w].obj.t \in Nat
          BY <1>v
        <4> HIDE DEF T
        <4> QED BY <4>1
      <3>3. Since(f, remote[w].obj, remote[w].obj.t + 1)
        BY <3>2 DEF Since
      <3>4. Handing(f, d) => Before(remote[w].obj, T)
        BY <1>5
      <3> QED BY <1>13, <3>1, <3>2, <3>3, <3>4
    <2>2. \A e, w \in Devices : Named(g, held[e][w]) /\ Since(g, held[e][w], version(e)')
      <3> TAKE e, w \in Devices
      <3>1. Named(f, held[e][w]) /\ Since(f, held[e][w], version(e)) /\ version(e)' \in Nat
            /\ version(e) <= version(e)'
        <4>1. version(e)' \in Nat /\ version(e) <= version(e)'
          BY <1>6, <1>w
        <4> QED BY <4>1 DEF Placed, Backups
      <3>2. Since(f, held[e][w], version(e)')
        BY <1>w, <3>1 DEF Since
      <3>3. held[e][w].t \in Nat /\ (Handing(f, d) => Before(held[e][w], T))
        BY <1>5, <1>v
      <3> QED BY <1>13, <3>1, <3>2, <3>3
    <2>3. \A e, w \in Devices :
            /\ Named(g, pend[e][w])
            /\ Since(g, pend[e][w], version(e)') \/ pend[e][None] # NoRow
            /\ pend[e][None] # NoRow => Since(g, pend[e][w], pend[e][None].t)
      <3> TAKE e, w \in Devices
      <3>1. CASE e = d
        BY <1>3, <3>1 DEF Named, Since
      <3>2. CASE e # d
        <4>1. /\ Named(f, pend[e][w])
              /\ Since(f, pend[e][w], version(e)) \/ pend[e][None] # NoRow
              /\ pend[e][None] # NoRow => Since(f, pend[e][w], pend[e][None].t)
          BY DEF Placed, Backups
        <4>2. Handing(f, d) => Before(pend[e][w], T)
          BY <1>5
        <4>3. \A t \in Nat :
                Since(f, pend[e][w], t) => Named(g, pend[e][w]) /\ Since(g, pend[e][w], t)
          BY <1>13, <1>v, <4>1, <4>2
        <4> QED BY <1>6, <1>v, <1>w, <3>2, <4>1, <4>3
      <3> QED BY <3>1, <3>2
    <2>4. /\ \A w \in Devices : Gone(remote'[w].obj) /\ Named(g, remote'[w].obj)
          /\ \A e, w \in Devices : Gone(pend[e][w])
          /\ \A w \in Devices : /\ Gone(held[w][w]) /\ pend[w][w] = NoPak
                                /\ remote'[w].by = w \/ remote'[w].obj = NoPak
      BY <2>1 DEF Placed, Backups
    <2> QED BY <2>2, <2>3, <2>4 DEF Backups
  <1>15. Alone(g)'
    <2> SUFFICES ASSUME NEW c \in Devices, Handing(g, c)', row[c].t > newest'.t
                 PROVE  /\ \A e \in Devices \ {c} : row[e].t < row[c].t
                        /\ \A w \in Devices : Before(remote[w].obj, row[c].t)
                        /\ \A e, w \in Devices :
                             Before(held[e][w], row[c].t) /\ Before(pend[e][w], row[c].t)
      BY DEF Alone
    <2>0. newest.t \in Nat /\ row[c].t \in Nat /\ newest'.t \in Nat
      BY <1>v, <1>w, <1>T
    <2>1. c # d /\ row[c].t > newest.t
      BY <1>w, <1>T, <2>0
    <2>2. Handing(f, c)
      BY <1>7, <2>1
    <2> QED BY <2>1, <2>2 DEF Placed, Alone
  <1>16. Placed(g)'
    BY <1>9, <1>10, <1>11, <1>12, <1>14, <1>15 DEF Placed
  <1>17. \A t \in Nat : t < row[d].t => g[t] = f[t]
    BY <1>2, <1>T
  <1> QED BY <1>4, <1>16, <1>17

\* The push of the row publishes its placement.
LEMMA PlacedPush ==
    ASSUME Typed, NEW f \in [Nat -> Devices], Placed(f), Orderly', NEW d \in Devices, PushApp(d)
    PROVE  \E g \in [Nat -> Devices] :
             /\ Placed(g)'
             /\ \A t \in Nat : t < row[d].t => g[t] = f[t]
             /\ ~Handing(f, d) => \A t \in Nat : g[t] = f[t]
  <1>1. /\ UNCHANGED <<row, pkg, held, cmd, pend>> /\ pend[d] = Empty
        /\ now' = now /\ writes' = writes
    BY DEF PushApp, app
  <1>2. CASE ~Ships(d)
    <2>1. remote' = remote /\ seen' = seen
      BY <1>2 DEF PushApp
    <2>2. Placed(f)'
      BY <1>1, <2>1, PlacedFrame
    <2> QED BY <2>2
  <1>3. CASE Ships(d)
    <2>1. /\ remote' = [remote EXCEPT ![None] = [obj |-> row[d], by |-> d]]
          /\ seen' = [seen EXCEPT ![d][None] = row[d].t]
          /\ clash' = clash \cup IF newest.t >= row[d].t THEN {"hidden"} ELSE {}
      BY <1>3 DEF PushApp, newest
    <2>2. newest.t \in Nat /\ row[d].t \in Nat /\ row[d] \in RowsNow /\ row[d].t \in Times
      BY Versions, Parts
    <2>3. newest.t < row[d].t
      <3>1. "hidden" \notin clash'
        BY OrderlyMeans
      <3>2. ~(newest.t >= row[d].t)
        BY <2>1, <3>1
      <3> QED BY <2>2, <3>2
    <2>4. RowsNow' = RowsNow /\ PaksNow' = PaksNow /\ Times \subseteq Times'
      BY <1>1, SameTypes
    <2>5. /\ remote'[None].obj = row[d] /\ remote'[None].by = d
          /\ \A x \in Keys \ {None} : remote'[x] = remote[x]
      <3>1. None \in Keys
        BY Parts
      <3> QED BY <2>1, <3>1, RemotePut
    <2>6. \A w \in Devices : remote'[w] = remote[w]
      BY <2>5, Parts, AppHomeAssumption
    <2>7. seen'[d][None] = row[d].t /\ \A e \in Devices \ {d} : seen'[e] = seen[e]
      BY <2>1, Parts DEF Typed, SeenTyped
    <2>8. version(d)' = row[d].t /\ \A e \in Devices \ {d} : version(e)' = version(e)
      BY <2>7 DEF version
    <2>9. newest' = row[d] /\ row[d].t > version(d)
      BY <1>3, <2>5 DEF newest, version, Ships
    <2> QED BY <1>1, <2>3, <2>5, <2>6, <2>8, <2>9, PlacedShip
  <1> QED BY <1>2, <1>3

\* The own backup is published.
LEMMA PlacedPushBackups ==
    ASSUME Typed, NEW f \in [Nat -> Devices], Placed(f), NEW d \in Devices, PushBackups(d)
    PROVE  Placed(f)'
  <1>1. /\ UNCHANGED <<row, pkg, held, cmd, pend>>
        /\ now' = now /\ writes' = writes
    BY DEF PushBackups, app, history
  <1>2. CASE ~(held[d][d].t > seen[d][d])
    <2>1. remote' = remote /\ seen' = seen
      BY <1>2 DEF PushBackups
    <2> QED BY <1>1, <2>1, PlacedFrame
  <1>3. CASE held[d][d].t > seen[d][d]
    <2>1. /\ remote' = [remote EXCEPT ![d] = [obj |-> held[d][d], by |-> d]]
          /\ seen' = [seen EXCEPT ![d][d] = held[d][d].t]
      BY <1>3 DEF PushBackups
    <2>2. /\ held[d][d] \in PaksNow /\ d \in Keys /\ d # None /\ None \in Keys
          /\ held[d][d].t \in Times
      BY Parts, PakFields, AppHomeAssumption
    <2>3. RowsNow' = RowsNow /\ PaksNow' = PaksNow /\ Times \subseteq Times' /\ Times' = Times
      BY <1>1, SameTypes
    <2>4. /\ remote'[d].obj = held[d][d] /\ remote'[d].by = d
          /\ \A x \in Keys \ {d} : remote'[x] = remote[x]
      BY <2>1, <2>2, RemotePut
    <2>5. \A e \in Devices, x \in Keys : e # d \/ x # d => seen'[e][x] = seen[e][x]
      BY <2>1, <2>2, <2>3, SeenSet
    <2>6. /\ newest' = newest /\ remote'[None] = remote[None]
          /\ \A e \in Devices : version(e)' = version(e)
      BY <2>2, <2>4, <2>5 DEF newest, version
    <2>7. Published(f)' /\ Fetched(f)'
      BY <1>1, <2>6 DEF Placed, Published, Fetched
    <2>8. Known(f)' /\ Starts(f)'
      BY <1>1, <2>6 DEF Placed, Known, Starts, Handing
    <2>9. \A w \in Devices :
            remote'[w] = remote[w] \/ (w = d /\ remote'[w].obj = held[d][d] /\ remote'[w].by = d)
      BY <2>4, Parts
    <2>10. Backups(f)'
      <3>1. \A w \in Devices : /\ Named(f, remote'[w].obj) /\ Gone(remote'[w].obj)
                               /\ remote'[w].by = w \/ remote'[w].obj = NoPak
        BY <2>9 DEF Placed, Backups
      <3> QED BY <1>1, <2>6, <3>1 DEF Placed, Backups
    <2>11. Alone(f)'
      <3>1. \A c \in Devices : Handing(f, c) /\ row[c].t > newest.t =>
              \A w \in Devices : Before(remote'[w].obj, row[c].t)
        BY <2>9 DEF Placed, Alone
      <3> QED BY <1>1, <2>6, <3>1 DEF Placed, Alone, Handing
    <2> QED BY <2>7, <2>8, <2>10, <2>11 DEF Placed
  <1> QED BY <1>2, <1>3

\* What a device pulls: what is newer, or nothing.
LEMMA PlacedFetch ==
    ASSUME Typed, NEW f \in [Nat -> Devices], Placed(f), NEW d \in Devices,
           UNCHANGED <<row, pkg, held, cmd, seen, remote>>,
           \A e \in Devices \ {d} : pend'[e] = pend[e],
           \/ /\ pend'[d][None] = NoRow
              /\ version(d) = newest.t \/ \A w \in Devices : pend'[d][w] = NoPak
           \/ pend'[d][None] = newest /\ version(d) < newest.t,
           \A w \in Devices : pend'[d][w] \in {remote[w].obj, NoPak},
           pend'[d][d] = NoPak
    PROVE  Placed(f)'
  <1>v. /\ newest.t \in Nat /\ \A t \in Nat : t >= newest.t => f[t] = newest.home
        /\ f[newest.t] = newest.home
        /\ \A w \in Devices : remote[w].obj.t \in Nat
    BY Versions DEF Placed, Published
  <1>0. newest' = newest /\ remote' = remote /\ \A e \in Devices : version(e)' = version(e)
    BY DEF newest, version
  <1>n. /\ NoPak.gone /\ NoPak.to = None /\ NoPak.t = 0
        /\ \A t : Named(f, NoPak) /\ Since(f, NoPak, t) /\ Gone(NoPak) /\ Before(NoPak, t)
    BY Nothing DEF Typed, Named, Since, Gone, Before
  <1>1. Published(f)' /\ Known(f)' /\ Starts(f)'
    BY <1>0 DEF Placed, Published, Known, Starts, Handing
  <1>2. Fetched(f)'
    <2> SUFFICES ASSUME NEW e \in Devices, pend'[e][None] # NoRow
                 PROVE  /\ pend'[e][None].home = f[pend'[e][None].t]
                        /\ version(e) < pend'[e][None].t /\ pend'[e][None].t <= newest.t
                        /\ Lasts(f, e, pend'[e][None].t)
      BY <1>0 DEF Fetched
    <2>1. CASE e # d
      BY <2>1 DEF Placed, Fetched
    <2>2. CASE e = d
      <3>1. pend'[e][None] = newest /\ version(e) < newest.t
        BY <2>2
      <3>2. Lasts(f, e, newest.t)
        BY <1>v DEF Lasts
      <3> QED BY <1>v, <3>1, <3>2
    <2> QED BY <2>1, <2>2
  \* From the newest version on nothing changes.
  <1>3. \A w \in Devices : Since(f, pend'[d][w], newest.t)
    <2> TAKE w \in Devices
    <2>1. CASE pend'[d][w] = NoPak
      BY <1>n, <2>1
    <2>2. CASE pend'[d][w] = remote[w].obj
      <3> DEFINE o == remote[w].obj
      <3>1. o.t \in Nat
        BY <1>v
      <3> HIDE DEF o
      <3>2. Since(f, o, newest.t)
        <4> SUFFICES ASSUME NEW u \in Nat, newest.t <= u, u <= o.t
                     PROVE  f[u] = f[o.t]
          BY DEF Since
        <4>1. o.t >= newest.t
          BY <1>v, <3>1
        <4> QED BY <1>v, <3>1, <4>1
      <3> QED BY <2>2, <3>2 DEF o
    <2> QED BY <2>1, <2>2
  <1>4. Backups(f)'
    <2>1. \A e, w \in Devices :
            /\ Named(f, pend'[e][w]) /\ Gone(pend'[e][w])
            /\ Since(f, pend'[e][w], version(e)) \/ pend'[e][None] # NoRow
            /\ pend'[e][None] # NoRow => Since(f, pend'[e][w], pend'[e][None].t)
      <3> TAKE e, w \in Devices
      <3>1. CASE e # d
        BY <3>1 DEF Placed, Backups
      <3>2. CASE e = d
        <4>1. Named(f, pend'[d][w]) /\ Gone(pend'[d][w])
          BY <1>n DEF Placed, Backups
        <4>2. Since(f, pend'[d][w], version(d)) \/ pend'[d][None] # NoRow
          <5>1. newest.t > version(d) => newest # NoRow
            BY Versions, Nothing DEF Typed
          <5>2. CASE pend'[d][None] = newest /\ version(d) < newest.t
            BY <1>v, <5>1, <5>2, Versions
          <5>3. CASE version(d) = newest.t
            BY <1>3, <5>3
          <5>4. CASE pend'[d][w] = NoPak
            BY <1>n, <5>4
          <5> QED BY <5>2, <5>3, <5>4
        <4>3. pend'[d][None] # NoRow => Since(f, pend'[d][w], pend'[d][None].t)
          BY <1>3
        <4> QED BY <3>2, <4>1, <4>2, <4>3
      <3> QED BY <3>1, <3>2
    <2>2. \A e \in Devices : pend'[e][e] = NoPak
      BY DEF Placed, Backups
    <2> QED BY <1>0, <2>1, <2>2 DEF Placed, Backups
  <1>5. Alone(f)'
    <2> SUFFICES ASSUME NEW c \in Devices, Handing(f, c), row[c].t > newest.t
                 PROVE  \A e, w \in Devices : Before(pend'[e][w], row[c].t)
      BY <1>0 DEF Placed, Alone, Handing
    <2> TAKE e, w \in Devices
    <2>1. CASE e # d
      BY <2>1 DEF Placed, Alone
    <2>2. CASE e = d
      BY <1>n, <2>2 DEF Placed, Alone
    <2> QED BY <2>1, <2>2
  <1> QED BY <1>1, <1>2, <1>4, <1>5 DEF Placed

\* A pull, and one that is cut off.
LEMMA PlacedPull ==
    ASSUME Typed, NEW f \in [Nat -> Devices], Placed(f), NEW d \in Devices,
           Pull(d) \/ SyncFails(d)
    PROVE  Placed(f)'
  <1>1. UNCHANGED <<row, pkg, held, cmd, seen, remote>>
    BY DEF Pull, SyncFails, app
  <1>n. /\ Empty[None] = NoRow /\ (\A w \in Devices : Empty[w] = NoPak)
        /\ NoPak.t = 0 /\ None \in Keys /\ Devices \subseteq Keys /\ None # d
    BY Nothing, Parts, AppHomeAssumption DEF Typed
  <1>2. CASE SyncFails(d)
    <2>1. pend' = [pend EXCEPT ![d] = Empty]
      BY <1>2 DEF SyncFails
    <2>2. pend'[d] = Empty /\ \A e \in Devices \ {d} : pend'[e] = pend[e]
      BY <2>1 DEF Typed, PendTyped
    <2> QED BY <1>1, <1>n, <2>2, PlacedFetch
  <1>3. CASE Pull(d)
    <2> DEFINE p == [k \in Keys |-> IF k \in Newer(d) THEN remote[k].obj ELSE pend[d][k]]
    <2>1. pend' = [pend EXCEPT ![d] = p] /\ pend[d] = Empty
      BY <1>3 DEF Pull, Typed, PendTyped
    <2>2. \A k \in Keys : p[k] = IF k \in Newer(d) THEN remote[k].obj ELSE Empty[k]
      BY <2>1
    <2> HIDE DEF p
    <2>3. pend'[d] = p /\ \A e \in Devices \ {d} : pend'[e] = pend[e]
      BY <2>1 DEF Typed, PendTyped
    <2>v. /\ newest.t \in Nat /\ version(d) \in Nat /\ version(d) <= newest.t
          /\ remote[None].by = d => version(d) = newest.t
          /\ \A k \in Keys : seen[d][k] \in Nat
      <3>1. \A k \in Keys : seen[d][k] \in Nat
        BY Parts DEF Times
      <3> QED BY <3>1, Versions DEF Placed, Published
    <2>4. \/ p[None] = NoRow /\ version(d) = newest.t
          \/ p[None] = newest /\ version(d) < newest.t
      <3>1. None \in Newer(d) <=> remote[None].by # d /\ newest.t > version(d)
        BY <1>n DEF Newer, newest, version
      <3>2. CASE None \in Newer(d)
        <4>1. p[None] = newest
          BY <1>n, <2>2, <3>2 DEF newest
        <4> QED BY <2>v, <3>1, <3>2, <4>1
      <3>3. CASE None \notin Newer(d)
        <4>1. p[None] = NoRow
          BY <1>n, <2>2, <3>3
        <4> QED BY <2>v, <3>1, <3>3, <4>1
      <3> QED BY <3>2, <3>3
    <2>5. \A w \in Devices : p[w] \in {remote[w].obj, NoPak}
      BY <1>n, <2>2
    <2>6. p[d] = NoPak
      <3>1. d \in Newer(d) => remote[d].by # d
        BY DEF Newer
      <3>2. remote[d].by = d \/ remote[d].obj = NoPak
        BY DEF Placed, Backups
      <3> QED BY <1>n, <2>2, <3>1, <3>2
    <2> QED BY <1>1, <2>3, <2>4, <2>5, <2>6, PlacedFetch
  <1> QED BY <1>2, <1>3

\* A backup that was pulled is stored, or its removal.
LEMMA PlacedApplyBackup ==
    ASSUME Typed, NEW f \in [Nat -> Devices], Placed(f), NEW d \in Devices, NEW w \in Devices,
           ApplyBackup(d, w)
    PROVE  Placed(f)'
  <1> DEFINE pak == pend[d][w]
             old == held[d][w]
             p == IF pak.gone THEN Pak(old.t, {}, old.home, old.to, TRUE) ELSE pak
  <1>1. now' = now /\ writes' = writes /\ UNCHANGED <<row, pkg, cmd, remote>>
    BY DEF ApplyBackup, history
  <1>2. pend[d][None] = NoRow /\ d # w
    BY DEF ApplyBackup, Due, Placed, Backups
  <1>3. held' = [held EXCEPT ![d][w] = p]
    BY DEF ApplyBackup, Typed, HeldTyped
  <1>4. p.gone \/ p = pak
    BY DEF Pak
  <1>5. /\ pend'[d][w] = NoPak
        /\ \A e \in Devices, x \in Keys : e # d \/ x # w =>
             pend'[e][x] = pend[e][x] /\ seen'[e][x] = seen[e][x]
    <2>1. w \in Keys /\ Applied(d, w) /\ Empty[w] = NoPak
      BY Parts, Nothing DEF ApplyBackup, Typed
    <2> QED BY <1>1, <2>1, AppliedEffect
  <1> HIDE DEF p, pak
  <1>6. held'[d][w] = p /\ \A e, x \in Devices : e # d \/ x # w => held'[e][x] = held[e][x]
    BY <1>3 DEF Typed, HeldTyped
  <1>7. newest' = newest /\ \A e \in Devices : version(e)' = version(e)
                         /\ pend'[e][None] = pend[e][None]
    BY <1>1, <1>5, Parts, AppHomeAssumption DEF newest, version
  <1>n. \A t : Named(f, NoPak) /\ Since(f, NoPak, t) /\ Gone(NoPak) /\ Before(NoPak, t)
    BY Nothing DEF Typed, Named, Since, Gone, Before
  <1>8. \A e, x \in Devices : pend'[e][x] = pend[e][x] \/ pend'[e][x] = NoPak
    BY <1>5 DEF Keys
  <1>9. \A e, x \in Devices : held'[e][x] = held[e][x] \/ (held'[e][x] = p /\ e = d /\ x = w)
    BY <1>6
  <1>10. Published(f)' /\ Fetched(f)'
    <2>1. remote' = remote
      BY <1>1
    <2> QED BY <1>7, <2>1 DEF Placed, Published, Fetched
  <1>11. Known(f)' /\ Starts(f)'
    BY <1>1, <1>7 DEF Placed, Known, Starts, Handing
  <1>12. Named(f, p) /\ Since(f, p, version(d))
    <2>1. CASE p.gone
      BY <2>1 DEF Named, Since
    <2>2. CASE p = pak
      BY <1>2, <2>2 DEF pak, Placed, Backups
    <2> QED BY <1>4, <2>1, <2>2
  <1>13. Backups(f)'
    <2>1. \A e, x \in Devices : Named(f, held'[e][x]) /\ Since(f, held'[e][x], version(e))
      BY <1>9, <1>12 DEF Placed, Backups
    <2>2. \A e, x \in Devices :
            /\ Named(f, pend'[e][x]) /\ Gone(pend'[e][x])
            /\ Since(f, pend'[e][x], version(e)) \/ pend[e][None] # NoRow
            /\ pend[e][None] # NoRow => Since(f, pend'[e][x], pend[e][None].t)
      BY <1>8, <1>n DEF Placed, Backups
    <2>3. \A e \in Devices : Gone(held'[e][e]) /\ pend'[e][e] = NoPak
      BY <1>2, <1>8, <1>9 DEF Placed, Backups
    <2>4. \A e, x \in Devices :
            /\ Since(f, pend'[e][x], version(e)') \/ pend'[e][None] # NoRow
            /\ pend'[e][None] # NoRow => Since(f, pend'[e][x], pend'[e][None].t)
            /\ Since(f, held'[e][x], version(e)')
      <3> TAKE e, x \in Devices
      <3>1. version(e)' = version(e) /\ pend'[e][None] = pend[e][None]
        BY <1>7
      <3> QED BY <2>1, <2>2, <3>1
    <2>5. \A e \in Devices : /\ Named(f, remote'[e].obj) /\ Gone(remote'[e].obj)
                             /\ remote'[e].by = e \/ remote'[e].obj = NoPak
      BY <1>1 DEF Placed, Backups
    <2> QED BY <2>1, <2>2, <2>3, <2>4, <2>5 DEF Backups
  <1>14. Alone(f)'
    <2> SUFFICES ASSUME NEW c \in Devices, Handing(f, c), row[c].t > newest.t
                 PROVE  \A e, x \in Devices : Before(held'[e][x], row[c].t)
                                              /\ Before(pend'[e][x], row[c].t)
      BY <1>1, <1>7 DEF Placed, Alone, Handing
    <2>1. Before(p, row[c].t)
      <3>1. CASE p.gone
        BY <3>1 DEF Before
      <3>2. CASE p = pak
        BY <3>2 DEF pak, Placed, Alone
      <3> QED BY <1>4, <3>1, <3>2
    <2> QED BY <1>8, <1>9, <1>n, <2>1 DEF Placed, Alone
  <1> QED BY <1>10, <1>11, <1>13, <1>14 DEF Placed

\* A run, the end of a command and what breaks off place nothing.
LEMMA PlacedEnd ==
    ASSUME Typed, NEW f \in [Nat -> Devices], Placed(f), NEW d \in Devices,
           RunStart(d) \/ RunEnd(d) \/ Park(d) \/ ClaimOnly(d) \/ Dies(d)
    PROVE  Placed(f)'
  <1>1. UNCHANGED <<row, pkg, held, pend, seen, remote>>
    BY DEF RunStart, RunEnd, Park, ClaimOnly, Dies, exchange, app
  <1>2. \A e \in Devices : cmd'[e][1] = "hand" => cmd[e][1] = "hand"
    <2>1. CASE cmd' = cmd
      BY <2>1
    <2>2. CASE Do(d, "idle", None)
      <3>1. cmd' = [cmd EXCEPT ![d] = <<"idle", None>>]
        BY <2>2 DEF Do
      <3>2. cmd'[d][1] = "idle" /\ \A e \in Devices \ {d} : cmd'[e] = cmd[e]
        BY <3>1 DEF Typed, CmdTyped
      <3> QED BY <3>2
    <2> QED BY <2>1, <2>2 DEF RunStart, RunEnd, Park, ClaimOnly, Dies
  <1> QED BY <1>1, <1>2, PlacedFrame

-----------------------------------------------------------------------------
(* The placements from the start on.                                       *)

\* At first every version places the app where it is.
LEMMA PlacedInit == Init => Placements
  <1> SUFFICES ASSUME Init, Orderly PROVE \E f \in [Nat -> Devices] : Placed(f)
    BY DEF Placements
  <1>1. PICK home \in Keys, new \in SUBSET Devices :
         /\ home \notin new /\ new # Devices
         /\ row = [d \in Devices |-> IF d \in new THEN NoRow ELSE Row(home, 1, FALSE)]
         /\ pkg = Devices \ new
         /\ seen = [d \in Devices |-> [k \in Keys |->
                       IF k = None /\ d \notin new THEN 1 ELSE 0]]
         /\ remote = [k \in Keys |->
              [obj |-> IF k = None THEN Row(home, 1, FALSE) ELSE NoPak, by |-> None]]
         /\ clash = IF home = None THEN {"unplaced"} ELSE {}
    BY DEF Init
  <1>2. home \in Devices
    BY <1>1 DEF Orderly, Keys
  <1>3. PICK f \in [Nat -> Devices] : \A t \in Nat : f[t] = home
    <2> DEFINE f == [t \in Nat |-> home]
    <2>1. f \in [Nat -> Devices] /\ \A t \in Nat : f[t] = home
      BY <1>2
    <2> HIDE DEF f
    <2> QED BY <2>1
  <1> DEFINE r == Row(home, 1, FALSE)
  <1>4. r.home = home /\ r.t = 1
    BY DEF Row
  <1> HIDE DEF r
  <1>n. /\ NoRow.t = 0 /\ NoPak.gone /\ NoPak.to = None
        /\ Empty[None] = NoRow /\ \A w \in Devices : Empty[w] = NoPak
    BY Nothing, TypedInit DEF Typed
  <1>5. /\ newest = r /\ remote[None].by = None
        /\ \A w \in Devices : remote[w].obj = NoPak
    BY <1>1, AppHomeAssumption DEF newest, r, Keys
  <1>6. \A d \in Devices : /\ version(d) = IF d \in new THEN 0 ELSE 1
                           /\ row[d] = IF d \in new THEN NoRow ELSE r
    BY <1>1 DEF version, r, Keys
  <1>7. /\ \A d \in Devices : pend[d] = Empty /\ cmd[d][1] = "idle"
        /\ \A d, w \in Devices : held[d][w] = NoPak
    BY DEF Init
  <1>8. \A t : Lasts(f, t, 0) /\ Lasts(f, t, 1)
    BY <1>3 DEF Lasts
  <1>9. Published(f)
    <2>1. PICK e \in Devices : e \notin new
      BY <1>1
    <2> QED BY <1>3, <1>4, <1>5, <1>6, <1>8, <2>1, AppHomeAssumption DEF Published
  <1>10. Fetched(f) /\ Starts(f)
    BY <1>7, <1>n DEF Fetched, Starts
  <1>11. Known(f)
    <2> SUFFICES ASSUME NEW d \in Devices
                 PROVE  /\ d \in pkg => row[d] # NoRow
                        /\ row[d] # NoRow => row[d].home = home /\ row[d].t = 1 /\ version(d) = 1
      BY <1>2, <1>3 DEF Known
    <2>1. CASE d \in new
      BY <1>1, <1>6, <2>1
    <2>2. CASE d \notin new
      BY <1>4, <1>6, <1>n, <2>2
    <2> QED BY <2>1, <2>2
  <1>12. Backups(f)
    BY <1>5, <1>7, <1>n DEF Backups, Named, Since, Gone
  <1>13. Alone(f)
    BY <1>4, <1>5, <1>6, <1>n DEF Alone
  <1> QED BY <1>9, <1>10, <1>11, <1>12, <1>13 DEF Placed

\* Every step keeps the published placements or adds the newest.
LEMMA PlacementsKept == Typed /\ Placements /\ [Next]_vars => Placements'
  <1> SUFFICES ASSUME Typed, Placements, [Next]_vars, Orderly'
               PROVE  \E f \in [Nat -> Devices] : Placed(f)'
    BY DEF Placements
  <1>1. Orderly
    BY ClashGrows DEF Orderly
  <1>2. PICK f \in [Nat -> Devices] : Placed(f)
    BY <1>1 DEF Placements
  <1>3. CASE UNCHANGED vars
    <2>1. UNCHANGED <<row, pkg, held, pend, seen, remote, cmd>>
      BY <1>3 DEF vars
    <2> QED BY <1>2, <2>1, PlacedFrame
  <1>4. ASSUME NEW d \in Devices, Command(d) \/ Carry(d)
        PROVE  Placed(f)'
    BY <1>2, <1>4, PlacedStamps, PlacedPaks, PlacedRestore, PlacedEnd DEF Command, Carry
  <1>5. ASSUME NEW d \in Devices, RunStart(d) \/ RunEnd(d) \/ SyncFails(d)
        PROVE  Placed(f)'
    BY <1>2, <1>5, PlacedEnd, PlacedPull
  <1>6. ASSUME NEW d \in Devices, Sync(d)
        PROVE  \E g \in [Nat -> Devices] : Placed(g)'
    <2>1. CASE PushApp(d)
      BY <1>2, <2>1, PlacedPush
    <2>2. CASE PushBackups(d) \/ Pull(d)
      BY <1>2, <2>2, PlacedPushBackups, PlacedPull
    <2>3. CASE Apply(d)
      BY <1>2, <2>3, PlacedApplyApp, PlacedApplyBackup, PlacedMigrateIn DEF Apply
    <2> QED BY <1>6, <2>1, <2>2, <2>3 DEF Sync
  <1> QED BY <1>3, <1>4, <1>5, <1>6 DEF Next

\* "Exactly one live instance per placed app" (ADR 0019): no two devices take the app
\* for theirs, except after what OneInstance names.
THEOREM AtMostOneHome == Spec => []OneInstance
  <1>1. Init => Typed /\ Placements
    BY TypedInit, PlacedInit
  <1>2. Typed /\ Placements /\ [Next]_vars => Typed' /\ Placements'
    BY TypedNext, PlacementsKept
  <1>3. Typed /\ Placements => OneInstance
    BY OwnersAgree DEF Placements, Orderly, OneInstance
  <1> QED BY <1>1, <1>2, <1>3, PTL DEF Spec

-----------------------------------------------------------------------------
(* What the steps do to the entries of the tables.                         *)

\* A run that has the old directory open keeps it.
LEMMA FollowEffect ==
    ASSUME Typed, NEW d \in Devices, NEW where \in Open \ {"live"}, Follow(d, where)
    PROVE  /\ running'[d] # "live"
           /\ \A e \in Devices \ {d} : running'[e] = running[e]
  <1>1. running \in [Devices -> Open]
    BY DEF Typed, FilesTyped
  <1> QED BY <1>1 DEF Follow

\* The data of a device is set aside.
LEMMA SetAside ==
    ASSUME Typed, NEW d \in Devices, Deactivate(d)
    PROVE  live'[d] = {} /\ \A e \in Devices \ {d} : live'[e] = live[e]
  BY DEF Deactivate, Typed, DataTyped

\* The backup of a migration is stored and restored.
LEMMA MigrateInEffect ==
    ASSUME Typed, NEW d \in Devices, NEW w \in Devices, MigrateIn(d, w)
    PROVE  /\ pend[d][w] \in PaksNow /\ pend[d][w].to = d
           /\ pend[d][w] # NoPak /\ pend[d][None] = NoRow
           /\ newest' = newest /\ remote' = remote /\ cmd' = cmd /\ writes' = writes
           /\ \A e \in Devices : version(e)' = version(e) /\ pend'[e][None] = pend[e][None]
           /\ pend'[d][w] = NoPak /\ seen'[d][w] = pend[d][w].t
           /\ \A e, x \in Devices : e # d \/ x # w =>
                pend'[e][x] = pend[e][x] /\ seen'[e][x] = seen[e][x]
           /\ held'[d][w] = pend[d][w]
           /\ \A e, x \in Devices : e # d \/ x # w => held'[e][x] = held[e][x]
           /\ pkg' = pkg \cup {d}
           /\ row'[d].home = (IF row[d] = NoRow THEN pend[d][w].home ELSE row[d].home)
           /\ row'[d].t = pend[d][w].t /\ ~row'[d].gone
           /\ \A e \in Devices \ {d} : row'[e] = row[e]
           /\ live'[d] = pend[d][w].data /\ \A e \in Devices \ {d} : live'[e] = live[e]
           /\ dropped' = dropped \cup (live[d] \ pend[d][w].data)
           /\ running'[d] # "live" /\ \A e \in Devices \ {d} : running'[e] = running[e]
           /\ moving'[d] = (IF moving[d] <= pend[d][w].t THEN 0 ELSE moving[d])
           /\ \A e \in Devices \ {d} : moving'[e] = moving[e]
           /\ Sunk(d, pend[d][w]) \subseteq clash' /\ Reborn(d, pend[d][w]) \subseteq clash'
  <1> DEFINE pak == pend[d][w]
  <1>1. now' = now /\ writes' = writes /\ cmd' = cmd /\ remote' = remote
    BY DEF MigrateIn
  <1>2. /\ pak \in PaksNow /\ pak.to = d /\ pak # NoPak /\ pend[d][None] = NoRow
    BY Parts DEF MigrateIn, Due
  <1>3. /\ pend'[d][w] = NoPak /\ seen'[d][w] = pak.t
        /\ \A e \in Devices, x \in Keys : e # d \/ x # w =>
             pend'[e][x] = pend[e][x] /\ seen'[e][x] = seen[e][x]
    <2>1. w \in Keys /\ Applied(d, w) /\ Empty[w] = NoPak
      BY Parts, Nothing DEF MigrateIn, Typed
    <2> QED BY <1>1, <2>1, AppliedEffect
  <1>4. \A e, x \in Devices : e # d \/ x # w =>
          pend'[e][x] = pend[e][x] /\ seen'[e][x] = seen[e][x]
    BY <1>3, Parts
  <1>5. newest' = newest /\ \A e \in Devices : version(e)' = version(e)
                         /\ pend'[e][None] = pend[e][None]
    BY <1>1, <1>3, Parts, AppHomeAssumption DEF newest, version
  <1>6. held'[d][w] = pak /\ \A e, x \in Devices : e # d \/ x # w => held'[e][x] = held[e][x]
    BY DEF MigrateIn, Typed, HeldTyped
  <1>7. RestoreFrom(d, pak)
    BY DEF MigrateIn
  <1>8. /\ pkg' = pkg \cup {d}
        /\ row'[d].home = (IF row[d] = NoRow THEN pak.home ELSE row[d].home)
        /\ row'[d].t = pak.t /\ row'[d].gone = FALSE
        /\ \A e \in Devices \ {d} : row'[e] = row[e]
    BY <1>1, <1>2, <1>7, RestoreEffect
  <1>9. /\ live'[d] = pak.data /\ \A e \in Devices \ {d} : live'[e] = live[e]
        /\ dropped' = dropped \cup (live[d] \ pak.data)
    BY <1>7 DEF RestoreFrom, Typed, DataTyped
  <1>10. running'[d] # "live" /\ \A e \in Devices \ {d} : running'[e] = running[e]
    BY <1>7, FollowEffect DEF RestoreFrom, Place, Open
  <1>11. /\ moving'[d] = (IF moving[d] <= pak.t THEN 0 ELSE moving[d])
         /\ \A e \in Devices \ {d} : moving'[e] = moving[e]
    BY DEF MigrateIn, Typed, HistoryTyped
  <1>12. Sunk(d, pak) \subseteq clash' /\ Reborn(d, pak) \subseteq clash'
    BY DEF MigrateIn
  <1> QED BY <1>1, <1>2, <1>3, <1>4, <1>5, <1>6, <1>8, <1>9, <1>10, <1>11, <1>12

\* A backup is restored by the user.
LEMMA RestoreStep ==
    ASSUME Typed, NEW d \in Devices, Restore(d)
    PROVE  \E w \in Devices :
           /\ held[d][w] \in PaksNow /\ ~held[d][w].gone
           /\ UNCHANGED <<held, pend, seen, remote, writes, moving>>
           /\ newest' = newest /\ \A e \in Devices : version(e)' = version(e)
           /\ pkg' = pkg \cup {d}
           /\ row'[d].home = (IF row[d] = NoRow THEN held[d][w].home ELSE row[d].home)
           /\ row'[d].t = held[d][w].t /\ ~row'[d].gone
           /\ \A e \in Devices \ {d} : row'[e] = row[e]
           /\ live'[d] = held[d][w].data /\ \A e \in Devices \ {d} : live'[e] = live[e]
           /\ dropped' = dropped \cup (live[d] \ held[d][w].data)
           /\ running'[d] # "live" /\ \A e \in Devices \ {d} : running'[e] = running[e]
           /\ cmd'[d][1] = "idle" /\ \A e \in Devices \ {d} : cmd'[e] = cmd[e]
           /\ Early(d) \subseteq clash' /\ Sunk(d, held[d][w]) \subseteq clash'
           /\ Reborn(d, held[d][w]) \subseteq clash'
  <1>1. PICK w \in Stored(d) :
          /\ RestoreFrom(d, held[d][w])
          /\ clash' = clash \cup Early(d) \cup Stale(d) \cup Sunk(d, held[d][w])
                              \cup Reborn(d, held[d][w])
    BY DEF Restore
  <1>2. UNCHANGED <<now, held, pend, seen, remote, writes, moving>>
    BY DEF Restore, exchange
  <1>3. w \in Devices /\ held[d][w] \in PaksNow /\ ~held[d][w].gone
    BY Parts DEF Stored
  <1>4. newest' = newest /\ \A e \in Devices : version(e)' = version(e)
    BY <1>2 DEF newest, version
  <1>5. /\ pkg' = pkg \cup {d}
        /\ row'[d].home = (IF row[d] = NoRow THEN held[d][w].home ELSE row[d].home)
        /\ row'[d].t = held[d][w].t /\ row'[d].gone = FALSE
        /\ \A e \in Devices \ {d} : row'[e] = row[e]
    BY <1>1, <1>2, <1>3, RestoreEffect
  <1>6. /\ live'[d] = held[d][w].data /\ \A e \in Devices \ {d} : live'[e] = live[e]
        /\ dropped' = dropped \cup (live[d] \ held[d][w].data)
    BY <1>1 DEF RestoreFrom, Typed, DataTyped
  <1>7. running'[d] # "live" /\ \A e \in Devices \ {d} : running'[e] = running[e]
    BY <1>1, FollowEffect DEF RestoreFrom, Place, Open
  <1>8. cmd'[d][1] = "idle" /\ \A e \in Devices \ {d} : cmd'[e] = cmd[e]
    <2>1. cmd' = [cmd EXCEPT ![d] = <<"idle", None>>]
      BY DEF Restore, Do
    <2>2. cmd'[d] = <<"idle", None>> /\ \A e \in Devices \ {d} : cmd'[e] = cmd[e]
      BY <2>1 DEF Typed, CmdTyped
    <2> QED BY <2>2
  <1> QED BY <1>1, <1>2, <1>3, <1>4, <1>5, <1>6, <1>7, <1>8

-----------------------------------------------------------------------------
(* What a device knows of the newest version, when no push put an older    *)
(* row back (hidden) and every newer row is shipped (sunk).                *)
Shipping == clash \cap {"hidden", "sunk"} = {}

\* A device that has the app has its package.
Installed(d) == ~row[d].gone => d \in pkg

\* A mirror is not ahead of the transport.
Mirrors(d) == version(d) <= newest.t /\ (remote[None].by = d => version(d) = newest.t)

\* What was pulled is newer than the mirror, and the newest, or an older version of it.
Pulled(d) == pend[d][None] # NoRow =>
    /\ version(d) < pend[d][None].t /\ pend[d][None].t <= newest.t
    /\ pend[d][None].t = newest.t => pend[d][None] = newest

\* A device that has the newest version and nothing newer to ship says the same.
Matches(d) == row[d] # NoRow /\ version(d) = newest.t /\ row[d].t <= newest.t =>
    (row[d].gone <=> newest.gone) /\ (~newest.gone => row[d].home = newest.home)

Synced == \A d \in Devices : Installed(d) /\ Mirrors(d) /\ Pulled(d) /\ Matches(d)

\* Steps that leave the app/ object alone, wherever it is.
LEMMA SyncedRow ==
    ASSUME Synced, NEW d \in Devices,
           remote'[None] = remote[None],
           \A e \in Devices : version(e)' = version(e) /\ pend'[e][None] = pend[e][None],
           \A e \in Devices \ {d} : row'[e] = row[e] /\ (e \in pkg => e \in pkg'),
           Installed(d)', Matches(d)'
    PROVE  Synced'
  <1>1. newest' = newest
    BY DEF newest
  <1>2. \A e \in Devices : Mirrors(e)' /\ Pulled(e)'
    BY <1>1 DEF Synced, Mirrors, Pulled
  <1>3. \A e \in Devices \ {d} : Installed(e)' /\ Matches(e)'
    BY <1>1 DEF Synced, Installed, Matches
  <1> QED BY <1>2, <1>3 DEF Synced

\* Steps that leave the app/ object and every row alone.
LEMMA SyncedFrame ==
    ASSUME Synced, remote'[None] = remote[None], row' = row, pkg' = pkg,
           \A e \in Devices : version(e)' = version(e) /\ pend'[e][None] = pend[e][None]
    PROVE  Synced'
  <1>1. newest' = newest
    BY DEF newest
  <1>2. \A e \in Devices : Mirrors(e)' /\ Pulled(e)'
    BY <1>1 DEF Synced, Mirrors, Pulled
  <1>3. \A e \in Devices : Installed(e)' /\ Matches(e)'
    BY <1>1 DEF Synced, Installed, Matches
  <1> QED BY <1>2, <1>3 DEF Synced

\* The stamped writes of a row are newer than any version.
LEMMA SyncedStamps ==
    ASSUME Typed, Synced, NEW d \in Devices, Deploy(d) \/ Remove(d) \/ Hand(d) \/ Rescue(d)
    PROVE  Synced'
  <1>0. /\ row[d].home \in Keys /\ row[d].gone \in BOOLEAN /\ d \in Keys /\ TRUE \in BOOLEAN
        /\ FALSE \in BOOLEAN /\ cmd[d][2] \in Keys /\ newest.t \in Nat /\ now \in Nat
        /\ newest.t <= now
    BY Parts, Versions
  <1>1. UNCHANGED <<pend, seen, remote>>
    BY DEF Deploy, Remove, Hand, Rescue, exchange
  <1>2. PICK home \in Keys, gone \in BOOLEAN :
          /\ Stamp(d, home, gone) /\ writes' = writes
          /\ gone \/ d \in pkg'
          /\ \A e \in Devices \ {d} : e \in pkg => e \in pkg'
    <2>1. CASE Deploy(d)
      <3>1. Stamp(d, row[d].home, FALSE) /\ writes' = writes /\ pkg' = pkg \cup {d}
        BY <2>1 DEF Deploy, Place
      <3> QED BY <1>0, <3>1
    <2>2. CASE Remove(d)
      <3>1. Stamp(d, row[d].home, TRUE) /\ writes' = writes /\ pkg' = pkg \ {d}
        BY <2>2 DEF Remove
      <3> QED BY <1>0, <3>1
    <2>3. CASE Hand(d)
      <3>1. Stamp(d, cmd[d][2], row[d].gone) /\ writes' = writes /\ pkg' = pkg
        BY <2>3 DEF Hand
      <3>2. row[d].gone \/ d \in pkg
        BY DEF Synced, Installed
      <3> QED BY <1>0, <3>1, <3>2
    <2>4. CASE Rescue(d)
      <3>1. Stamp(d, d, FALSE) /\ writes' = writes /\ pkg' = pkg /\ ~row[d].gone
        BY <2>4 DEF Rescue
      <3>2. row[d].gone \/ d \in pkg
        BY DEF Synced, Installed
      <3> QED BY <1>0, <3>1, <3>2
    <2> QED BY <2>1, <2>2, <2>3, <2>4
  <1>3. /\ row'[d].t = now + 1 /\ row'[d].gone = gone
        /\ \A e \in Devices \ {d} : row'[e] = row[e]
    BY <1>2, StampEffect
  <1>4. newest' = newest /\ \A e \in Devices : version(e)' = version(e)
    BY <1>1 DEF newest, version
  <1>5. Matches(d)'
    BY <1>0, <1>3, <1>4 DEF Matches
  <1>6. Installed(d)'
    BY <1>2, <1>3 DEF Installed
  <1> QED BY <1>1, <1>2, <1>3, <1>4, <1>5, <1>6, SyncedRow

\* A backup that is restored stays to be shipped, or says what the newest version does.
LEMMA SyncedRestore ==
    ASSUME Typed, Synced, Shipping', NEW d \in Devices, NEW pak \in PaksNow,
           Sunk(d, pak) \subseteq clash',
           remote'[None] = remote[None],
           \A e \in Devices : version(e)' = version(e) /\ pend'[e][None] = pend[e][None],
           pkg' = pkg \cup {d},
           row'[d].home = (IF row[d] = NoRow THEN pak.home ELSE row[d].home),
           row'[d].t = pak.t, ~row'[d].gone,
           \A e \in Devices \ {d} : row'[e] = row[e]
    PROVE  Synced'
  <1>1. newest' = newest
    BY DEF newest
  <1>2. NoRow.gone
    BY DEF NoRow, Row
  <1>3. ~(pak.t <= version(d) /\ (row[d].gone \/ row[d].t > version(d)))
    <2>1. "sunk" \notin clash'
      BY DEF Shipping
    <2> QED BY <2>1 DEF Sunk, version
  <1>v. /\ version(d) \in Nat /\ row[d].t \in Nat /\ newest.t \in Nat
    BY Versions
  <1>4. Matches(d)'
    <2> SUFFICES ASSUME version(d) = newest.t, pak.t <= newest.t
                 PROVE  ~newest.gone /\ row'[d].home = newest.home
      BY <1>1 DEF Matches
    <2>1. ~row[d].gone /\ row[d].t <= newest.t /\ row[d] # NoRow
      BY <1>2, <1>3, <1>v
    <2>2. (row[d].gone <=> newest.gone) /\ (~newest.gone => row[d].home = newest.home)
      BY <2>1 DEF Synced, Matches
    <2> QED BY <2>1, <2>2
  <1>5. Installed(d)'
    BY DEF Installed
  <1> QED BY <1>4, <1>5, SyncedRow

\* What was pulled is applied, and the mirror has its version.
LEMMA SyncedApplied ==
    ASSUME Typed, Synced, NEW d \in Devices, NEW obj, obj = pend[d][None], obj # NoRow,
           remote'[None] = remote[None],
           pend'[d][None] = NoRow, version(d)' = obj.t,
           \A e \in Devices \ {d} : /\ version(e)' = version(e) /\ pend'[e][None] = pend[e][None]
                                    /\ row'[e] = row[e] /\ (e \in pkg => e \in pkg'),
           \/ row'[d] = obj /\ ~obj.gone /\ d \in pkg'
           \/ obj.gone /\ row'[d].gone
    PROVE  Synced'
  <1>1. newest' = newest
    BY DEF newest
  <1>v. version(d) \in Nat /\ obj.t \in Nat /\ newest.t \in Nat
    BY Versions
  <1>2. version(d) < obj.t /\ obj.t <= newest.t /\ (obj.t = newest.t => obj = newest)
    BY DEF Synced, Pulled
  <1>3. remote[None].by # d
    BY <1>v, <1>2 DEF Synced, Mirrors
  <1>4. Mirrors(d)' /\ Pulled(d)'
    BY <1>1, <1>2, <1>3 DEF Mirrors, Pulled
  <1>5. Installed(d)'
    BY DEF Installed, NoRow, Row
  <1>6. Matches(d)'
    <2> SUFFICES ASSUME row'[d] # NoRow, obj.t = newest.t
                 PROVE  /\ row'[d].gone <=> newest.gone
                        /\ ~newest.gone => row'[d].home = newest.home
      BY <1>1 DEF Matches
    <2>1. obj = newest
      BY <1>2
    <2> QED BY <2>1
  <1>7. \A e \in Devices \ {d} : Installed(e)' /\ Mirrors(e)' /\ Pulled(e)' /\ Matches(e)'
    BY <1>1 DEF Synced, Installed, Mirrors, Pulled, Matches
  <1> QED BY <1>4, <1>5, <1>6, <1>7 DEF Synced

\* What apply_app and apply_app_tombstone both do.
LEMMA ApplyEffect ==
    ASSUME Typed, NEW d \in Devices, ApplyApp(d) \/ ApplyAppTombstone(d)
    PROVE  /\ pend[d][None] # NoRow /\ pend[d][None] \in RowsNow
           /\ Undone(d, pend[d][None]) \subseteq clash'
           /\ UNCHANGED <<now, held, cmd, syn, remote, writes, moving>>
           /\ newest' = newest
           /\ pend'[d][None] = NoRow /\ version(d)' = pend[d][None].t
           /\ \A e \in Devices \ {d} : /\ version(e)' = version(e)
                                       /\ pend'[e][None] = pend[e][None]
           /\ \A e, x \in Devices : pend'[e][x] = pend[e][x] /\ seen'[e][x] = seen[e][x]
  <1>1. UNCHANGED <<now, held, cmd, syn, remote, writes, moving>>
    BY DEF ApplyApp, ApplyAppTombstone
  <1>2. /\ pend[d][None] # NoRow /\ pend[d][None] \in RowsNow
        /\ Undone(d, pend[d][None]) \subseteq clash'
    BY Parts DEF ApplyApp, ApplyAppTombstone
  <1>3. /\ pend'[d][None] = NoRow /\ version(d)' = pend[d][None].t
        /\ \A e \in Devices, x \in Keys : e # d \/ x # None =>
             pend'[e][x] = pend[e][x] /\ seen'[e][x] = seen[e][x]
    <2>1. None \in Keys /\ Applied(d, None) /\ Empty[None] = NoRow
      BY Parts, Nothing DEF ApplyApp, ApplyAppTombstone, Typed
    <2> QED BY <1>1, <2>1, AppliedEffect DEF version
  <1>4. newest' = newest /\ \A e \in Devices \ {d} : version(e)' = version(e)
                         /\ pend'[e][None] = pend[e][None]
    BY <1>1, <1>3, Parts, AppHomeAssumption DEF newest, version
  <1>5. \A e, x \in Devices : pend'[e][x] = pend[e][x] /\ seen'[e][x] = seen[e][x]
    BY <1>3, Parts, AppHomeAssumption
  <1> QED BY <1>1, <1>2, <1>3, <1>4, <1>5

\* apply_app: the row becomes what was pulled, and its data is parked away from home.
LEMMA ApplyAppEffect ==
    ASSUME Typed, NEW d \in Devices, ApplyApp(d)
    PROVE  /\ row'[d] = pend[d][None] /\ ~pend[d][None].gone
           /\ \A e \in Devices \ {d} : row'[e] = row[e]
           /\ pkg' = pkg \cup {d} /\ dropped' = dropped
           /\ running'[d] # "live" /\ \A e \in Devices \ {d} : running'[e] = running[e]
           /\ live'[d] = IF pend[d][None].home \notin {None, d} THEN {} ELSE live[d]
           /\ \A e \in Devices \ {d} : live'[e] = live[e]
           /\ Ahead(d, pend[d][None]) \subseteq clash'
  <1>1. row' = [row EXCEPT ![d] = pend[d][None]] /\ Place(d) /\ ~pend[d][None].gone
        /\ dropped' = dropped
    BY DEF ApplyApp
  <1>2. row'[d] = pend[d][None] /\ \A e \in Devices \ {d} : row'[e] = row[e]
    BY <1>1 DEF Typed, RowTyped
  <1>3. pkg' = pkg \cup {d}
    BY <1>1 DEF Place
  <1>4. running'[d] # "live" /\ \A e \in Devices \ {d} : running'[e] = running[e]
    BY <1>1, FollowEffect DEF Place, Open
  <1>5. Ahead(d, pend[d][None]) \subseteq clash'
    BY DEF ApplyApp
  <1>6. /\ live'[d] = IF pend[d][None].home \notin {None, d} THEN {} ELSE live[d]
        /\ \A e \in Devices \ {d} : live'[e] = live[e]
    BY SetAside DEF ApplyApp
  <1> QED BY <1>1, <1>2, <1>3, <1>4, <1>5, <1>6

\* apply_app_tombstone: the app goes with its data, and its row keeps the home.
LEMMA TombstoneEffect ==
    ASSUME Typed, NEW d \in Devices, ApplyAppTombstone(d)
    PROVE  /\ pend[d][None].gone /\ Forgot(d, pend[d][None]) \subseteq clash'
           /\ row[d] = NoRow => row'[d] = NoRow
           /\ row[d] # NoRow => /\ row'[d].home = row[d].home /\ row'[d].t = pend[d][None].t
           /\ row'[d].gone
           /\ \A e \in Devices \ {d} : row'[e] = row[e]
           /\ pkg' = pkg \ {d} /\ dropped' = dropped \cup live[d]
           /\ running'[d] # "live" /\ \A e \in Devices \ {d} : running'[e] = running[e]
           /\ live'[d] = {} /\ \A e \in Devices \ {d} : live'[e] = live[e]
  <1> DEFINE obj == pend[d][None]
  <1>1. /\ Follow(d, "gone") /\ pkg' = pkg \ {d} /\ live' = [live EXCEPT ![d] = {}]
        /\ dropped' = dropped \cup live[d] /\ Forgot(d, obj) \subseteq clash' /\ obj.gone
    BY DEF ApplyAppTombstone
  <1>2. live'[d] = {} /\ \A e \in Devices \ {d} : live'[e] = live[e]
    BY <1>1 DEF Typed, DataTyped
  <1>3. running'[d] # "live" /\ \A e \in Devices \ {d} : running'[e] = running[e]
    BY <1>1, FollowEffect DEF Open
  <1>4. row[d] = NoRow => row' = row /\ row'[d].gone
    BY DEF ApplyAppTombstone, NoRow, Row
  <1>5. ASSUME row[d] # NoRow
        PROVE  /\ row'[d].home = row[d].home /\ row'[d].t = obj.t /\ row'[d].gone
               /\ \A e \in Devices \ {d} : row'[e] = row[e]
    <2> DEFINE r == Row(row[d].home, obj.t, TRUE)
    <2>1. r.home = row[d].home /\ r.t = obj.t /\ r.gone
      BY DEF Row
    <2>2. row' = [row EXCEPT ![d] = r]
      BY <1>5 DEF ApplyAppTombstone
    <2> HIDE DEF r
    <2>3. row'[d] = r /\ \A e \in Devices \ {d} : row'[e] = row[e]
      BY <2>2 DEF Typed, RowTyped
    <2> QED BY <2>1, <2>3
  <1> HIDE DEF obj
  <1> QED BY <1>1, <1>2, <1>3, <1>4, <1>5 DEF obj

\* What a push of the row does.
LEMMA PushEffect ==
    ASSUME Typed, NEW d \in Devices, PushApp(d)
    PROVE  /\ UNCHANGED <<now, row, pkg, live, held, running, cmd, pend, writes, dropped, moving>>
           /\ pend[d] = Empty
           /\ ~Ships(d) => remote' = remote /\ seen' = seen
           /\ Ships(d) =>
                /\ newest' = row[d] /\ remote'[None].by = d
                /\ "hidden" \notin clash' => newest.t < row[d].t
                /\ version(d)' = row[d].t /\ \A e \in Devices \ {d} : version(e)' = version(e)
                /\ \A w \in Devices : remote'[w] = remote[w]
                /\ \A e, w \in Devices : seen'[e][w] = seen[e][w]
  <1>1. /\ UNCHANGED <<now, row, pkg, live, held, running, cmd, pend, writes, dropped, moving>>
        /\ pend[d] = Empty
    BY DEF PushApp, app
  <1>2. ~Ships(d) => remote' = remote /\ seen' = seen
    BY DEF PushApp
  <1>3. ASSUME Ships(d)
        PROVE  /\ newest' = row[d] /\ remote'[None].by = d
               /\ "hidden" \notin clash' => newest.t < row[d].t
               /\ version(d)' = row[d].t /\ \A e \in Devices \ {d} : version(e)' = version(e)
               /\ \A w \in Devices : remote'[w] = remote[w]
               /\ \A e, w \in Devices : seen'[e][w] = seen[e][w]
    <2>1. /\ remote' = [remote EXCEPT ![None] = [obj |-> row[d], by |-> d]]
          /\ seen' = [seen EXCEPT ![d][None] = row[d].t]
          /\ clash' = clash \cup IF newest.t >= row[d].t THEN {"hidden"} ELSE {}
      BY <1>3 DEF PushApp, newest
    <2>2. newest.t \in Nat /\ row[d].t \in Nat /\ row[d] \in RowsNow /\ row[d].t \in Times
      BY Versions, Parts
    <2>3. "hidden" \notin clash' => newest.t < row[d].t
      <3>1. "hidden" \notin clash' => ~(newest.t >= row[d].t)
        BY <2>1
      <3> QED BY <2>2, <3>1
    <2>4. RowsNow' = RowsNow /\ PaksNow' = PaksNow /\ Times \subseteq Times'
      BY <1>1, SameTypes
    <2>5. /\ remote'[None].obj = row[d] /\ remote'[None].by = d
          /\ \A x \in Keys \ {None} : remote'[x] = remote[x]
      <3>1. None \in Keys
        BY Parts
      <3> QED BY <2>1, <3>1, RemotePut
    <2>6. \A w \in Devices : remote'[w] = remote[w]
      BY <2>5, Parts, AppHomeAssumption
    <2>7. seen'[d][None] = row[d].t /\ \A e \in Devices \ {d} : seen'[e] = seen[e]
      BY <2>1, Parts DEF Typed, SeenTyped
    <2>8. version(d)' = row[d].t /\ \A e \in Devices \ {d} : version(e)' = version(e)
      BY <2>7 DEF version
    <2>9. \A e, w \in Devices : seen'[e][w] = seen[e][w]
      <3>1. None \in Keys /\ row[d].t \in Times'
        BY <2>2, <2>4, Parts
      <3>2. \A e \in Devices, x \in Keys : e # d \/ x # None => seen'[e][x] = seen[e][x]
        BY <2>1, <2>4, <3>1, SeenSet
      <3> QED BY <3>2, Parts, AppHomeAssumption
    <2> QED BY <2>3, <2>5, <2>6, <2>8, <2>9 DEF newest
  <1> QED BY <1>1, <1>2, <1>3

\* A push makes the row of its device the newest version, while none is hidden.
LEMMA SyncedPush ==
    ASSUME Typed, Synced, Shipping', NEW d \in Devices, PushApp(d)
    PROVE  Synced'
  <1>1. /\ UNCHANGED <<row, pkg, pend>> /\ pend[d][None] = NoRow
    BY PushEffect, Nothing DEF Typed
  <1>2. CASE ~Ships(d)
    <2>1. remote' = remote /\ seen' = seen
      BY <1>2, PushEffect
    <2> QED BY <1>1, <2>1, SyncedFrame DEF version
  <1>3. CASE Ships(d)
    <2>1. /\ newest' = row[d] /\ remote'[None].by = d /\ newest.t < row[d].t
          /\ version(d)' = row[d].t /\ \A e \in Devices \ {d} : version(e)' = version(e)
      BY <1>3, PushEffect DEF Shipping
    <2>v. /\ newest.t \in Nat /\ row[d].t \in Nat
          /\ \A e \in Devices : version(e) \in Nat /\ pend[e][None].t \in Nat
      BY Versions
    <2>2. \A e \in Devices : Mirrors(e)'
      BY <2>1, <2>v DEF Synced, Mirrors
    <2>3. \A e \in Devices : Pulled(e)'
      <3> SUFFICES ASSUME NEW e \in Devices, pend[e][None] # NoRow
                   PROVE  /\ version(e)' < pend[e][None].t /\ pend[e][None].t < row[d].t
        BY <1>1, <2>1, <2>v DEF Pulled
      <3>1. e # d
        BY <1>1
      <3> QED BY <2>1, <2>v, <3>1 DEF Synced, Pulled
    <2>4. \A e \in Devices : Installed(e)' /\ Matches(e)'
      <3> TAKE e \in Devices
      <3>1. Installed(e)'
        BY <1>1 DEF Synced, Installed
      <3>2. CASE e = d
        BY <1>1, <2>1, <3>1, <3>2 DEF Matches
      <3>3. CASE e # d
        <4>1. version(e)' < newest'.t
          BY <2>1, <2>v, <3>3 DEF Synced, Mirrors
        <4> QED BY <2>1, <2>v, <3>1, <3>3, <4>1 DEF Matches
      <3> QED BY <3>2, <3>3
    <2> QED BY <2>2, <2>3, <2>4 DEF Synced
  <1> QED BY <1>2, <1>3

\* A pull fetches the newest version, and one that is cut off nothing.
LEMMA SyncedPull ==
    ASSUME Typed, Synced, NEW d \in Devices, Pull(d) \/ SyncFails(d)
    PROVE  Synced'
  <1>1. UNCHANGED <<row, pkg, seen, remote>>
    BY DEF Pull, SyncFails, app
  <1>2. newest' = newest /\ \A e \in Devices : version(e)' = version(e)
    BY <1>1 DEF newest, version
  <1>n. Empty[None] = NoRow /\ None \in Keys
    BY Nothing, Parts DEF Typed
  <1>3. /\ \A e \in Devices \ {d} : pend'[e] = pend[e]
        /\ pend'[d][None] # NoRow => pend'[d][None] = newest /\ newest.t > version(d)
    <2>1. CASE SyncFails(d)
      <3>1. pend' = [pend EXCEPT ![d] = Empty]
        BY <2>1 DEF SyncFails
      <3> QED BY <1>n, <3>1 DEF Typed, PendTyped
    <2>2. CASE Pull(d)
      <3> DEFINE p == [k \in Keys |-> IF k \in Newer(d) THEN remote[k].obj ELSE pend[d][k]]
      <3>1. pend' = [pend EXCEPT ![d] = p] /\ pend[d] = Empty
        BY <2>2 DEF Pull, Typed, PendTyped
      <3>2. p[None] = IF None \in Newer(d) THEN newest ELSE NoRow
        BY <1>n, <3>1 DEF newest
      <3> HIDE DEF p
      <3>3. pend'[d] = p /\ \A e \in Devices \ {d} : pend'[e] = pend[e]
        BY <3>1 DEF Typed, PendTyped
      <3>4. None \in Newer(d) => newest.t > version(d)
        BY DEF Newer, newest, version
      <3> QED BY <3>2, <3>3, <3>4
    <2> QED BY <2>1, <2>2
  <1>v. version(d) \in Nat /\ newest.t \in Nat
    BY Versions
  <1>4. \A e \in Devices : Pulled(e)'
    BY <1>2, <1>3, <1>v DEF Synced, Pulled
  <1>5. \A e \in Devices : Installed(e)' /\ Mirrors(e)' /\ Matches(e)'
    BY <1>1, <1>2 DEF Synced, Installed, Mirrors, Matches
  <1> QED BY <1>4, <1>5 DEF Synced

\* A backup that is pushed or applied is not the app/ object.
LEMMA OnlyBackups ==
    ASSUME Typed, NEW d \in Devices,
           PushBackups(d) \/ \E w \in Devices : ApplyBackup(d, w)
    PROVE  /\ UNCHANGED <<row, pkg>> /\ remote'[None] = remote[None]
           /\ \A e \in Devices : version(e)' = version(e) /\ pend'[e][None] = pend[e][None]
  <1>n. d # None /\ None \in Keys /\ Devices \subseteq Keys /\ None \notin Devices
    BY Parts, AppHomeAssumption
  <1>1. CASE PushBackups(d)
    <2>1. UNCHANGED <<now, writes, row, pkg, pend>>
      BY <1>1 DEF PushBackups, app, history
    <2>2. CASE ~(held[d][d].t > seen[d][d])
      <3>1. remote' = remote /\ seen' = seen
        BY <1>1, <2>2 DEF PushBackups
      <3> QED BY <2>1, <3>1 DEF version
    <2>3. CASE held[d][d].t > seen[d][d]
      <3>1. /\ remote' = [remote EXCEPT ![d] = [obj |-> held[d][d], by |-> d]]
            /\ seen' = [seen EXCEPT ![d][d] = held[d][d].t]
        BY <1>1, <2>3 DEF PushBackups
      <3>2. held[d][d] \in PaksNow /\ held[d][d].t \in Times
        BY Parts, PakFields
      <3>3. Times \subseteq Times' /\ Times' = Times
        BY <2>1, SameTypes
      <3>4. remote'[None] = remote[None]
        BY <1>n, <3>1 DEF Typed, RemoteTyped
      <3>5. \A e \in Devices, x \in Keys : e # d \/ x # d => seen'[e][x] = seen[e][x]
        BY <1>n, <3>1, <3>2, <3>3, SeenSet
      <3> QED BY <1>n, <2>1, <3>4, <3>5 DEF version
    <2> QED BY <2>2, <2>3
  <1>2. CASE \E w \in Devices : ApplyBackup(d, w)
    <2>1. PICK w \in Devices : ApplyBackup(d, w)
      BY <1>2
    <2>2. UNCHANGED <<now, writes, row, pkg, remote>> /\ Applied(d, w)
      BY <2>1 DEF ApplyBackup, history
    <2>3. \A e \in Devices, x \in Keys : e # d \/ x # w =>
             pend'[e][x] = pend[e][x] /\ seen'[e][x] = seen[e][x]
      BY <1>n, <2>2, AppliedEffect
    <2> QED BY <1>n, <2>2, <2>3 DEF version
  <1> QED BY <1>1, <1>2

\* Every step keeps what the devices know of the newest version.
LEMMA SyncedKept == Typed /\ (Shipping => Synced) /\ [Next]_vars => (Shipping => Synced)'
  <1> SUFFICES ASSUME Typed, Shipping => Synced, [Next]_vars, Shipping'
               PROVE  Synced'
    OBVIOUS
  <1>1. Synced
    BY ClashGrows DEF Shipping
  <1>2. CASE UNCHANGED vars
    <2>1. UNCHANGED <<row, pkg, pend, seen, remote>>
      BY <1>2 DEF vars
    <2> QED BY <1>1, <2>1, SyncedFrame DEF version
  <1>3. ASSUME NEW d \in Devices,
               \/ Backup(d) \/ BackupDelete(d) \/ Migrate(d) \/ Park(d) \/ ClaimOnly(d)
               \/ Dies(d) \/ RunStart(d) \/ RunEnd(d)
        PROVE  Synced'
    <2>1. UNCHANGED <<row, pkg, pend, seen, remote>>
      BY <1>3 DEF Backup, BackupDelete, Migrate, Create, Park, ClaimOnly, Dies, RunStart, RunEnd,
         exchange, app
    <2> QED BY <1>1, <2>1, SyncedFrame DEF version
  <1>4. ASSUME NEW d \in Devices, Deploy(d) \/ Remove(d) \/ Hand(d) \/ Rescue(d)
        PROVE  Synced'
    BY <1>1, <1>4, SyncedStamps
  <1>5. ASSUME NEW d \in Devices, Restore(d) PROVE Synced'
    <2>1. PICK w \in Devices :
            /\ held[d][w] \in PaksNow
            /\ UNCHANGED <<pend, seen, remote>>
            /\ pkg' = pkg \cup {d}
            /\ row'[d].home = (IF row[d] = NoRow THEN held[d][w].home ELSE row[d].home)
            /\ row'[d].t = held[d][w].t /\ ~row'[d].gone
            /\ \A e \in Devices \ {d} : row'[e] = row[e]
            /\ Sunk(d, held[d][w]) \subseteq clash'
      BY <1>5, RestoreStep
    <2> QED BY <1>1, <2>1, SyncedRestore DEF version
  <1>6. ASSUME NEW d \in Devices, NEW w \in Devices, MigrateIn(d, w) PROVE Synced'
    <2> DEFINE pak == pend[d][w]
    <2>1. /\ pak \in PaksNow
          /\ remote' = remote
          /\ \A e \in Devices : version(e)' = version(e) /\ pend'[e][None] = pend[e][None]
          /\ pkg' = pkg \cup {d}
          /\ row'[d].home = (IF row[d] = NoRow THEN pak.home ELSE row[d].home)
          /\ row'[d].t = pak.t /\ ~row'[d].gone
          /\ \A e \in Devices \ {d} : row'[e] = row[e]
          /\ Sunk(d, pak) \subseteq clash'
      BY <1>6, MigrateInEffect
    <2> QED BY <1>1, <2>1, SyncedRestore
  <1>7. ASSUME NEW d \in Devices, ApplyApp(d) \/ ApplyAppTombstone(d) PROVE Synced'
    <2> DEFINE obj == pend[d][None]
    <2>1. /\ obj # NoRow /\ remote' = remote
          /\ pend'[d][None] = NoRow /\ version(d)' = obj.t
          /\ \A e \in Devices \ {d} : /\ version(e)' = version(e)
                                      /\ pend'[e][None] = pend[e][None]
      BY <1>7, ApplyEffect
    <2>2. \A e \in Devices \ {d} : row'[e] = row[e] /\ (e \in pkg => e \in pkg')
      BY <1>7, ApplyAppEffect, TombstoneEffect
    <2>3. \/ row'[d] = obj /\ ~obj.gone /\ d \in pkg'
          \/ obj.gone /\ row'[d].gone
      BY <1>7, ApplyAppEffect, TombstoneEffect
    <2> QED BY <1>1, <2>1, <2>2, <2>3, SyncedApplied
  <1>8. ASSUME NEW d \in Devices, PushApp(d) \/ PushBackups(d) \/ Pull(d) \/ SyncFails(d)
        PROVE  Synced'
    BY <1>1, <1>8, SyncedPush, SyncedPull, OnlyBackups, SyncedFrame
  <1>9. ASSUME NEW d \in Devices, NEW w \in Devices, ApplyBackup(d, w) PROVE Synced'
    BY <1>1, <1>9, OnlyBackups, SyncedFrame
  <1> QED BY <1>2, <1>3, <1>4, <1>5, <1>6, <1>7, <1>8, <1>9
      DEF Next, Command, Carry, Sync, Apply

\* At first the devices that have the app have its newest version.
LEMMA SyncedInit == Init => Synced
  <1> SUFFICES ASSUME Init PROVE Synced
    OBVIOUS
  <1>1. PICK home \in Keys, new \in SUBSET Devices :
         /\ home \notin new /\ new # Devices
         /\ row = [d \in Devices |-> IF d \in new THEN NoRow ELSE Row(home, 1, FALSE)]
         /\ pkg = Devices \ new
         /\ seen = [d \in Devices |-> [k \in Keys |->
                       IF k = None /\ d \notin new THEN 1 ELSE 0]]
         /\ remote = [k \in Keys |->
              [obj |-> IF k = None THEN Row(home, 1, FALSE) ELSE NoPak, by |-> None]]
    BY DEF Init
  <1> DEFINE r == Row(home, 1, FALSE)
  <1>2. r.home = home /\ r.t = 1 /\ r.gone = FALSE
    BY DEF Row
  <1> HIDE DEF r
  <1>3. newest = r /\ remote[None].by = None
    BY <1>1 DEF newest, r, Keys
  <1>4. \A d \in Devices : /\ version(d) = IF d \in new THEN 0 ELSE 1
                           /\ row[d] = IF d \in new THEN NoRow ELSE r
                           /\ d \in pkg <=> d \notin new
                           /\ pend[d][None] = NoRow
    BY <1>1, Nothing, TypedInit DEF version, r, Keys, Init, Typed
  <1>5. NoRow.gone
    BY DEF NoRow, Row
  <1> QED BY <1>2, <1>3, <1>4, <1>5, AppHomeAssumption
      DEF Synced, Installed, Mirrors, Pulled, Matches

\* When there is nothing left to exchange, every device has the newest version.
LEMMA QuietIsNewest ==
    ASSUME Typed, Quiet, \A d \in Devices : Mirrors(d)
    PROVE  \A d \in Devices : version(d) = newest.t
  <1> TAKE d \in Devices
  <1>1. None \notin Newer(d) /\ None \in Keys
    BY Parts DEF Quiet
  <1>2. remote[None].by = d \/ ~(newest.t > version(d))
    BY <1>1 DEF Newer, newest, version
  <1> QED BY <1>2, Versions DEF Mirrors

\* "A device that misses an app/ update heals on the next pull": when there is nothing left
\* to push or pull, the devices agree on the home.
LEMMA SyncedHeals == Typed /\ (Shipping => Synced) => Heals
  <1> SUFFICES ASSUME Typed, Synced, Quiet, NEW d \in Devices, NEW e \in Devices,
                      row[d] # NoRow, ~row[e].gone
               PROVE  ~row[d].gone /\ row[d].home = row[e].home
    BY DEF Heals, Agree, Shipping
  <1>1. version(d) = newest.t /\ version(e) = newest.t
    BY QuietIsNewest DEF Synced
  <1>2. ASSUME NEW x \in Devices PROVE row[x].t <= version(x)
    <2>1. ~Ships(x)
      BY DEF Quiet
    <2>2. Installed(x)
      BY DEF Synced
    <2>3. ~(row[x].t > version(x))
      BY <2>1, <2>2 DEF Ships, Installed, version
    <2> QED BY <2>3, Versions
  <1>3. row[e] # NoRow
    BY DEF NoRow, Row
  <1>4. /\ row[d].gone <=> newest.gone
        /\ row[e].gone <=> newest.gone
        /\ ~newest.gone => row[d].home = newest.home /\ row[e].home = newest.home
    BY <1>1, <1>2, <1>3 DEF Synced, Matches
  <1> QED BY <1>4

-----------------------------------------------------------------------------
(* A backup on its way: its writer's, the one on the transport, and the    *)
(* versions of it that the devices pulled and have.                        *)

\* The object of a writer is its backup, or an older one of its.
Pushed(w) ==
    /\ remote[w].by = w \/ remote[w].obj = NoPak
    /\ remote[w].obj.t <= held[w][w].t
    /\ remote[w].obj.t = held[w][w].t => remote[w].obj = held[w][w]
    /\ seen[w][w] = remote[w].obj.t
    /\ pend[w][w] = NoPak

\* A device has a version of it that was there, and pulled a newer one, if any.
Followed(d, w) ==
    /\ seen[d][w] <= remote[w].obj.t
    /\ pend[d][w] # NoPak =>
         /\ seen[d][w] < pend[d][w].t /\ pend[d][w].t <= remote[w].obj.t
         /\ pend[d][w].t = remote[w].obj.t => pend[d][w] = remote[w].obj

Copies == \A w \in Devices : Pushed(w) /\ \A d \in Devices \ {w} : Followed(d, w)

\* The times of the backups on their way.
LEMMA PakTimes ==
    ASSUME Typed
    PROVE  /\ now \in Nat
           /\ \A d, w \in Devices : /\ seen[d][w] \in Nat /\ seen[d][w] <= now
                                    /\ pend[d][w].t \in Nat /\ pend[d][w].t <= now
                                    /\ held[d][w].t \in Nat /\ held[d][w].t <= now
           /\ \A w \in Devices : remote[w].obj.t \in Nat /\ remote[w].obj.t <= now
           /\ NoPak.t = 0 /\ NoPak.gone
  <1>1. \A d, w \in Devices : seen[d][w] \in Times
    BY Parts
  <1>2. \A d, w \in Devices : seen[d][w] \in Nat /\ seen[d][w] <= now
    BY <1>1, Parts DEF Times
  <1>3. NoPak.t = 0 /\ NoPak.gone
    BY Nothing DEF Typed
  <1> QED BY <1>2, <1>3, Versions

\* A backup is written.
LEMMA CreateEffect ==
    ASSUME Typed, NEW d \in Devices, NEW to \in Keys, Create(d, to)
    PROVE  /\ UNCHANGED <<row, pkg, live, running, pend, seen, remote, writes, dropped, moving>>
           /\ now' = now + 1 /\ row[d].home \in {None, d} /\ d \in pkg /\ cmd[d] = <<"idle", None>>
           /\ held'[d][d].t = now + 1 /\ held'[d][d].data = live[d] /\ held'[d][d].to = to
           /\ ~held'[d][d].gone
           /\ \A e, x \in Devices : e # d \/ x # d => held'[e][x] = held[e][x]
           /\ Early(d) \subseteq clash'
  <1> DEFINE p == Pak(now + 1, live[d], row[d].home, to, FALSE)
  <1>1. p.t = now + 1 /\ p.data = live[d] /\ p.to = to /\ ~p.gone
    BY DEF Pak
  <1>2. held' = [held EXCEPT ![d][d] = p]
    BY DEF Create
  <1> HIDE DEF p
  <1>3. held'[d][d] = p /\ \A e, x \in Devices : e # d \/ x # d => held'[e][x] = held[e][x]
    BY <1>2 DEF Typed, HeldTyped
  <1>4. /\ UNCHANGED <<row, pkg, live, running, pend, seen, remote, writes, dropped, moving>>
        /\ now' = now + 1 /\ row[d].home \in {None, d} /\ d \in pkg /\ cmd[d] = <<"idle", None>>
        /\ Early(d) \subseteq clash'
    BY DEF Create, exchange, Elsewhere, Idle
  <1> QED BY <1>1, <1>3, <1>4

\* The own backup is deleted.
LEMMA DeleteEffect ==
    ASSUME Typed, NEW d \in Devices, BackupDelete(d)
    PROVE  /\ UNCHANGED <<row, pkg, live, running, cmd, pend, seen, remote, writes, dropped,
                          moving>>
           /\ now' = now + 1 /\ cmd[d] = <<"idle", None>>
           /\ held'[d][d].t = now + 1 /\ held'[d][d].gone
           /\ \A e, x \in Devices : e # d \/ x # d => held'[e][x] = held[e][x]
           /\ "deleted" \notin clash' => held[d][d].to = None
  <1> DEFINE p == Pak(now + 1, {}, None, None, TRUE)
  <1>1. p.t = now + 1 /\ p.gone
    BY DEF Pak
  <1>2. held' = [held EXCEPT ![d][d] = p]
    BY DEF BackupDelete
  <1> HIDE DEF p
  <1>3. held'[d][d] = p /\ \A e, x \in Devices : e # d \/ x # d => held'[e][x] = held[e][x]
    BY <1>2 DEF Typed, HeldTyped
  <1>4. /\ UNCHANGED <<row, pkg, live, running, cmd, pend, seen, remote, writes, dropped, moving>>
        /\ now' = now + 1 /\ cmd[d] = <<"idle", None>>
        /\ "deleted" \notin clash' => held[d][d].to = None
    BY DEF BackupDelete, exchange, Idle
  <1> QED BY <1>1, <1>3, <1>4

\* The own backup is pushed.
LEMMA PushBackupsEffect ==
    ASSUME Typed, NEW d \in Devices, PushBackups(d)
    PROVE  /\ UNCHANGED <<now, row, pkg, live, held, running, cmd, pend, writes, dropped,
                          moving, clash>>
           /\ \A w \in Devices \ {d} : remote'[w] = remote[w]
           /\ \A e, w \in Devices : e # d \/ w # d => seen'[e][w] = seen[e][w]
           /\ \/ remote'[d] = remote[d] /\ seen'[d][d] = seen[d][d]
              \/ /\ held[d][d].t > seen[d][d]
                 /\ remote'[d].obj = held[d][d] /\ remote'[d].by = d
                 /\ seen'[d][d] = held[d][d].t
  <1>1. UNCHANGED <<now, row, pkg, live, held, running, cmd, pend, writes, dropped, moving, clash>>
    BY DEF PushBackups, app, history
  <1>2. CASE ~(held[d][d].t > seen[d][d])
    <2>1. remote' = remote /\ seen' = seen
      BY <1>2 DEF PushBackups
    <2> QED BY <1>1, <2>1
  <1>3. CASE held[d][d].t > seen[d][d]
    <2>1. /\ remote' = [remote EXCEPT ![d] = [obj |-> held[d][d], by |-> d]]
          /\ seen' = [seen EXCEPT ![d][d] = held[d][d].t]
      BY <1>3 DEF PushBackups
    <2>2. /\ held[d][d] \in PaksNow /\ d \in Keys /\ held[d][d].t \in Times
          /\ Devices \subseteq Keys /\ d # None /\ None \in Keys
      BY Parts, PakFields, AppHomeAssumption
    <2>3. RowsNow' = RowsNow /\ PaksNow' = PaksNow /\ Times' = Times /\ Times \subseteq Times'
      BY <1>1, SameTypes
    <2>4. /\ remote'[d].obj = held[d][d] /\ remote'[d].by = d
          /\ \A x \in Keys \ {d} : remote'[x] = remote[x]
      BY <2>1, <2>2, RemotePut
    <2>5. \A e \in Devices, x \in Keys : e # d \/ x # d => seen'[e][x] = seen[e][x]
      BY <2>1, <2>2, <2>3, SeenSet
    <2>6. seen'[d][d] = held[d][d].t
      BY <2>1, <2>2 DEF Typed, SeenTyped
    <2> QED BY <1>1, <1>3, <2>2, <2>4, <2>5, <2>6
  <1> QED BY <1>2, <1>3

\* A pull fetches backups, and one that is cut off has none.
LEMMA PullEffect ==
    ASSUME Typed, NEW d \in Devices, Pull(d) \/ SyncFails(d)
    PROVE  /\ UNCHANGED <<now, row, pkg, live, held, running, cmd, seen, remote, writes, dropped,
                          moving, clash>>
           /\ \A e \in Devices \ {d}, w \in Devices : pend'[e][w] = pend[e][w]
           /\ \A w \in Devices :
                \/ pend'[d][w] = NoPak
                \/ /\ pend'[d][w] = remote[w].obj
                   /\ remote[w].by # d /\ remote[w].obj.t > seen[d][w]
  <1>1. UNCHANGED <<now, row, pkg, live, held, running, cmd, seen, remote, writes, dropped,
                    moving, clash>>
    BY DEF Pull, SyncFails, app, history
  <1>n. (\A w \in Devices : Empty[w] = NoPak) /\ Devices \subseteq Keys
    BY Nothing, Parts DEF Typed
  <1>2. CASE SyncFails(d)
    <2>1. pend' = [pend EXCEPT ![d] = Empty]
      BY <1>2 DEF SyncFails
    <2>2. pend'[d] = Empty /\ \A e \in Devices \ {d} : pend'[e] = pend[e]
      BY <2>1 DEF Typed, PendTyped
    <2> QED BY <1>1, <1>n, <2>2
  <1>3. CASE Pull(d)
    <2> DEFINE p == [k \in Keys |-> IF k \in Newer(d) THEN remote[k].obj ELSE pend[d][k]]
    <2>1. pend' = [pend EXCEPT ![d] = p] /\ pend[d] = Empty
      BY <1>3 DEF Pull, Typed, PendTyped
    <2>2. \A k \in Keys : p[k] = IF k \in Newer(d) THEN remote[k].obj ELSE Empty[k]
      BY <2>1
    <2> HIDE DEF p
    <2>3. pend'[d] = p /\ \A e \in Devices \ {d} : pend'[e] = pend[e]
      BY <2>1 DEF Typed, PendTyped
    <2>4. \A w \in Devices : w \in Newer(d) => remote[w].by # d /\ remote[w].obj.t > seen[d][w]
      BY DEF Newer
    <2> QED BY <1>1, <1>n, <2>2, <2>3, <2>4
  <1> QED BY <1>2, <1>3

\* A pulled backup is stored.
LEMMA ApplyBackupEffect ==
    ASSUME Typed, NEW d \in Devices, NEW w \in Devices, ApplyBackup(d, w)
    PROVE  /\ UNCHANGED <<now, row, pkg, live, running, cmd, remote, writes, dropped, moving,
                          clash>>
           /\ pend[d][w] # NoPak /\ pend[d][w].to # d
           /\ pend'[d][w] = NoPak /\ seen'[d][w] = pend[d][w].t
           /\ \A e, x \in Devices : e # d \/ x # w =>
                /\ pend'[e][x] = pend[e][x] /\ seen'[e][x] = seen[e][x]
                /\ held'[e][x] = held[e][x]
  <1>1. /\ UNCHANGED <<now, row, pkg, live, running, cmd, remote, writes, dropped, moving, clash>>
        /\ pend[d][w] # NoPak /\ pend[d][w].to # d
    BY DEF ApplyBackup, history, Due
  <1>2. /\ pend'[d][w] = NoPak /\ seen'[d][w] = pend[d][w].t
        /\ \A e \in Devices, x \in Keys : e # d \/ x # w =>
             pend'[e][x] = pend[e][x] /\ seen'[e][x] = seen[e][x]
    <2>1. w \in Keys /\ Applied(d, w) /\ Empty[w] = NoPak
      BY Parts, Nothing DEF ApplyBackup, Typed
    <2> QED BY <1>1, <2>1, AppliedEffect
  <1>3. \A e, x \in Devices : e # d \/ x # w =>
                pend'[e][x] = pend[e][x] /\ seen'[e][x] = seen[e][x]
    BY <1>2, Parts
  <1>4. \A e, x \in Devices : e # d \/ x # w => held'[e][x] = held[e][x]
    BY DEF ApplyBackup, Typed, HeldTyped
  <1> QED BY <1>1, <1>2, <1>3, <1>4

\* Steps that leave the backups alone.
LEMMA CopiesFrame ==
    ASSUME Copies,
           \A w \in Devices : remote'[w] = remote[w] /\ held'[w][w] = held[w][w],
           \A d, w \in Devices : seen'[d][w] = seen[d][w] /\ pend'[d][w] = pend[d][w]
    PROVE  Copies'
  BY DEF Copies, Pushed, Followed

\* A newer backup takes the place of the own one.
LEMMA CopiesHeld ==
    ASSUME Typed, Copies, NEW d \in Devices, UNCHANGED <<remote, seen, pend>>,
           held'[d][d].t = now + 1,
           \A w \in Devices \ {d} : held'[w][w] = held[w][w]
    PROVE  Copies'
  <1>1. \A w \in Devices : Pushed(w)'
    <2> TAKE w \in Devices
    <2>1. CASE w = d
      BY <2>1, PakTimes DEF Copies, Pushed
    <2>2. CASE w # d
      BY <2>2 DEF Copies, Pushed
    <2> QED BY <2>1, <2>2
  <1>2. \A w \in Devices : \A e \in Devices \ {w} : Followed(e, w)'
    BY DEF Copies, Followed
  <1> QED BY <1>1, <1>2 DEF Copies

\* It is pushed.
LEMMA CopiesPush ==
    ASSUME Typed, Copies, NEW d \in Devices, PushBackups(d)
    PROVE  Copies'
  <1>1. /\ held' = held /\ pend' = pend
        /\ \A w \in Devices \ {d} : remote'[w] = remote[w]
        /\ \A e, w \in Devices : e # d \/ w # d => seen'[e][w] = seen[e][w]
    BY PushBackupsEffect
  <1>2. CASE remote'[d] = remote[d] /\ seen'[d][d] = seen[d][d]
    BY <1>1, <1>2, CopiesFrame
  <1>3. CASE /\ held[d][d].t > seen[d][d]
             /\ remote'[d].obj = held[d][d] /\ remote'[d].by = d /\ seen'[d][d] = held[d][d].t
    <2>1. remote[d].obj.t < held[d][d].t
      BY <1>3 DEF Copies, Pushed
    <2>2. Pushed(d)'
      BY <1>1, <1>3, PakTimes DEF Copies, Pushed
    <2>3. \A e \in Devices \ {d} : Followed(e, d)'
      <3> TAKE e \in Devices \ {d}
      <3>1. Followed(e, d)
        BY DEF Copies
      <3>2. seen'[e][d] = seen[e][d] /\ pend'[e][d] = pend[e][d] /\ remote'[d].obj.t = held[d][d].t
        BY <1>1, <1>3
      <3> QED BY <2>1, <3>1, <3>2, PakTimes DEF Followed
    <2>4. \A w \in Devices \ {d} : Pushed(w)' /\ \A e \in Devices \ {w} : Followed(e, w)'
      BY <1>1 DEF Copies, Pushed, Followed
    <2> QED BY <2>2, <2>3, <2>4 DEF Copies
  <1> QED BY <1>2, <1>3, PushBackupsEffect

\* It is pulled.
LEMMA CopiesPull ==
    ASSUME Typed, Copies, NEW d \in Devices, Pull(d) \/ SyncFails(d)
    PROVE  Copies'
  <1>1. /\ UNCHANGED <<held, seen, remote>>
        /\ \A e \in Devices \ {d}, w \in Devices : pend'[e][w] = pend[e][w]
        /\ \A w \in Devices :
             \/ pend'[d][w] = NoPak
             \/ /\ pend'[d][w] = remote[w].obj
                /\ remote[w].by # d /\ remote[w].obj.t > seen[d][w]
    BY PullEffect
  <1>2. pend'[d][d] = NoPak
    BY <1>1 DEF Copies, Pushed
  <1>3. \A w \in Devices : Pushed(w)'
    BY <1>1, <1>2 DEF Copies, Pushed
  <1>4. \A w \in Devices : \A e \in Devices \ {w} : Followed(e, w)'
    <2> TAKE w \in Devices
    <2> TAKE e \in Devices \ {w}
    <2>1. CASE e = d
      BY <1>1, <2>1, PakTimes DEF Copies, Followed
    <2>2. CASE e # d
      BY <1>1, <2>2 DEF Copies, Followed
    <2> QED BY <2>1, <2>2
  <1> QED BY <1>3, <1>4 DEF Copies

\* It is applied.
LEMMA CopiesApply ==
    ASSUME Typed, Copies, NEW d \in Devices, NEW w \in Devices,
           remote' = remote, pend[d][w] # NoPak,
           pend'[d][w] = NoPak, seen'[d][w] = pend[d][w].t,
           \A e, x \in Devices : e # d \/ x # w =>
             /\ pend'[e][x] = pend[e][x] /\ seen'[e][x] = seen[e][x]
             /\ held'[e][x] = held[e][x]
    PROVE  Copies' /\ d # w
  <1>1. d # w
    BY DEF Copies, Pushed
  <1>2. \A x \in Devices : Pushed(x)'
    BY <1>1 DEF Copies, Pushed
  <1>3. \A x \in Devices : \A e \in Devices \ {x} : Followed(e, x)'
    BY DEF Copies, Followed
  <1> QED BY <1>1, <1>2, <1>3 DEF Copies

\* Every step keeps what the backups on their way are of each other.
LEMMA CopiesKept == Typed /\ Copies /\ [Next]_vars => Copies'
  <1> SUFFICES ASSUME Typed, Copies, [Next]_vars
               PROVE  Copies'
    OBVIOUS
  <1>1. CASE UNCHANGED vars
    BY <1>1, CopiesFrame DEF vars
  <1>2. ASSUME NEW d \in Devices,
               \/ Deploy(d) \/ Remove(d) \/ Hand(d) \/ Rescue(d) \/ Restore(d)
               \/ Park(d) \/ ClaimOnly(d) \/ Dies(d) \/ RunStart(d) \/ RunEnd(d)
        PROVE  Copies'
    <2>1. UNCHANGED <<held, pend, seen, remote>>
      BY <1>2 DEF Deploy, Remove, Hand, Rescue, Restore, Park, ClaimOnly, Dies, RunStart, RunEnd,
         exchange, app
    <2> QED BY <2>1, CopiesFrame
  <1>3. ASSUME NEW d \in Devices, Backup(d) \/ Migrate(d) PROVE Copies'
    <2>1. PICK to \in Keys : Create(d, to)
      BY <1>3, Parts DEF Backup, Migrate
    <2> QED BY <2>1, CreateEffect, CopiesHeld
  <1>4. ASSUME NEW d \in Devices, BackupDelete(d) PROVE Copies'
    BY <1>4, DeleteEffect, CopiesHeld
  <1>5. ASSUME NEW d \in Devices, PushApp(d) PROVE Copies'
    <2>1. /\ held' = held /\ pend' = pend
          /\ \A w \in Devices : remote'[w] = remote[w]
          /\ \A e, w \in Devices : seen'[e][w] = seen[e][w]
      BY <1>5, PushEffect
    <2> QED BY <2>1, CopiesFrame
  <1>6. ASSUME NEW d \in Devices, PushBackups(d) \/ Pull(d) \/ SyncFails(d) PROVE Copies'
    BY <1>6, CopiesPush, CopiesPull
  <1>7. ASSUME NEW d \in Devices, ApplyApp(d) \/ ApplyAppTombstone(d) PROVE Copies'
    <2>1. /\ held' = held /\ remote' = remote
          /\ \A e, x \in Devices : pend'[e][x] = pend[e][x] /\ seen'[e][x] = seen[e][x]
      BY <1>7, ApplyEffect
    <2> QED BY <2>1, CopiesFrame
  <1>8. ASSUME NEW d \in Devices, NEW w \in Devices, ApplyBackup(d, w) PROVE Copies'
    BY <1>8, ApplyBackupEffect, CopiesApply
  <1>9. ASSUME NEW d \in Devices, NEW w \in Devices, MigrateIn(d, w) PROVE Copies'
    <2>1. /\ remote' = remote /\ pend[d][w] # NoPak
          /\ pend'[d][w] = NoPak /\ seen'[d][w] = pend[d][w].t
          /\ \A e, x \in Devices : e # d \/ x # w =>
               /\ pend'[e][x] = pend[e][x] /\ seen'[e][x] = seen[e][x]
               /\ held'[e][x] = held[e][x]
      BY <1>9, MigrateInEffect
    <2> QED BY <2>1, CopiesApply
  <1> QED BY <1>1, <1>2, <1>3, <1>4, <1>5, <1>6, <1>7, <1>8, <1>9
      DEF Next, Command, Carry, Sync, Apply

\* At first there is no backup.
LEMMA CopiesInit == Init => Copies
  <1> SUFFICES ASSUME Init PROVE Copies
    OBVIOUS
  <1>1. PICK home \in Keys, new \in SUBSET Devices :
         /\ seen = [d \in Devices |-> [k \in Keys |->
                       IF k = None /\ d \notin new THEN 1 ELSE 0]]
         /\ remote = [k \in Keys |->
              [obj |-> IF k = None THEN Row(home, 1, FALSE) ELSE NoPak, by |-> None]]
    BY DEF Init
  <1>n. Devices \subseteq Keys /\ None \notin Devices
    BY AppHomeAssumption DEF Keys
  <1>3. \A w \in Devices : remote[w].obj = NoPak
    BY <1>1, <1>n
  <1>4. \A d, w \in Devices : seen[d][w] = 0
    BY <1>1, <1>n
  <1>5. \A d, w \in Devices : pend[d][w] = NoPak /\ held[d][w] = NoPak
    BY Nothing, TypedInit DEF Init, Typed
  <1>2. NoPak.t = 0
    BY Nothing, TypedInit DEF Typed
  <1> QED BY <1>2, <1>3, <1>4, <1>5 DEF Copies, Pushed, Followed

-----------------------------------------------------------------------------
(* Who has the app, or gets it by the migration under way: the home of the *)
(* newest version, or the target of the one that it began.                 *)

\* The order of the edits was kept, but for what leaves a migration alone.
InOrder == clash \subseteq {"late", "ahead"}

Owner(f) == IF Handing(f, newest.home) /\ row[newest.home] # NoRow
            THEN row[newest.home].home ELSE newest.home

\* A placement by a device that hands the app over is not published yet.
Fresh(f) == \A d \in Devices : Handing(f, d) /\ row[d] # NoRow => row[d].t > newest.t

\* A device that takes the app for its own is its owner.
LEMMA OwnerIsHome ==
    ASSUME Typed, NEW f \in [Nat -> Devices], Placed(f)
    PROVE  /\ Owner(f) \in Devices /\ newest.home \in Devices
           /\ \A d \in Devices : Home(d) => d = Owner(f) /\ row[d] # NoRow /\ f[version(d)] = d
           /\ \A d \in Devices : Handing(f, d) /\ row[d] # NoRow => Owner(f) = row[d].home
  <1>1. \A d \in Devices : Home(d) => d = newest.home /\ f[version(d)] = d
    BY OwnersAgree
  <1>2. newest.home \in Devices /\ \A d \in Devices : Handing(f, d) => d = newest.home
    BY OwnersAgree
  <1>3. Owner(f) \in Devices
    BY <1>2 DEF Owner, Placed, Known
  <1>4. \A d \in Devices : Home(d) => row[d] # NoRow
    BY Nothing, AppHomeAssumption DEF Home, Typed
  <1> QED BY <1>1, <1>2, <1>3, <1>4 DEF Owner, Handing, Home

\* Steps that publish nothing keep the owner, but for a migration.
LEMMA OwnerRows ==
    ASSUME Typed, NEW f \in [Nat -> Devices], Placed(f), Fresh(f), NEW d \in Devices,
           newest' = newest, \A e \in Devices : version(e)' = version(e),
           \A e \in Devices \ {d} : row'[e] = row[e],
           row[d] # NoRow => row'[d].home = row[d].home /\ row'[d] # NoRow,
           row[d] = NoRow => row'[d] = NoRow \/ (f[version(d)] = d => row'[d].home = d),
           Handing(f, d) /\ row[d] # NoRow => row'[d].t > newest.t
    PROVE  Owner(f)' = Owner(f) /\ Fresh(f)'
  <1>1. \A e \in Devices : Handing(f, e)' /\ row'[e] # NoRow <=> Handing(f, e) /\ row[e] # NoRow
    BY DEF Handing
  <1>2. newest.home \in Devices
    BY OwnerIsHome
  <1>3. Handing(f, newest.home) /\ row[newest.home] # NoRow
        => row'[newest.home].home = row[newest.home].home
    BY <1>2
  <1>4. Owner(f)' = Owner(f)
    BY <1>1, <1>2, <1>3 DEF Owner
  <1>5. Fresh(f)'
    BY <1>1 DEF Fresh
  <1> QED BY <1>4, <1>5

\* Steps that change no row and no version keep the owner.
LEMMA OwnerFrame ==
    ASSUME NEW f, Fresh(f), row' = row,
           newest' = newest, \A e \in Devices : version(e)' = version(e), newest.home \in Devices
    PROVE  Owner(f)' = Owner(f) /\ Fresh(f)'
  BY DEF Owner, Fresh, Handing

\* A row that is restored keeps its placement, and one that was not there gets that of
\* its version.
LEMMA OwnerRestore ==
    ASSUME Typed, NEW f \in [Nat -> Devices], Placed(f), Fresh(f), InOrder', NEW d \in Devices,
           NEW pak \in PaksNow, ~pak.gone, Named(f, pak), Since(f, pak, version(d)),
           newest' = newest, \A e \in Devices : version(e)' = version(e),
           row'[d].home = (IF row[d] = NoRow THEN pak.home ELSE row[d].home),
           row'[d].t = pak.t, ~row'[d].gone,
           \A e \in Devices \ {d} : row'[e] = row[e],
           Sunk(d, pak) \subseteq clash', Reborn(d, pak) \subseteq clash',
           row[d].home \in {None, d} \/ pak.to = d
    PROVE  Owner(f)' = Owner(f) /\ Fresh(f)'
  <1>v. /\ newest.t \in Nat /\ version(d) \in Nat /\ row[d].t \in Nat /\ version(d) <= newest.t
        /\ pak.t \in Nat
    <2>1. pak.t \in Times
      BY PakFields
    <2> QED BY <2>1, Versions DEF Placed, Published, Times
  <1>1. pak.home = f[pak.t] /\ pak.to # pak.home
    BY DEF Named
  <1>2. version(d) <= pak.t => f[version(d)] = f[pak.t]
    BY <1>v DEF Since
  <1>3. ~(row[d] = NoRow /\ version(d) > pak.t)
    <2>1. "forgot" \notin clash'
      BY DEF InOrder
    <2> QED BY <2>1 DEF Reborn, version
  <1>4. ~(pak.t <= version(d) /\ (row[d].gone \/ row[d].t > version(d)))
    <2>1. "sunk" \notin clash'
      BY DEF InOrder
    <2> QED BY <2>1 DEF Sunk, version
  <1>5. row'[d] # NoRow
    BY DEF NoRow, Row
  <1>6. ~(Handing(f, d) /\ row[d] # NoRow)
    <2> SUFFICES ASSUME Handing(f, d), row[d] # NoRow PROVE FALSE
      OBVIOUS
    <2>1. row[d].home \in Devices /\ row[d].home # d
      BY DEF Placed, Known, Handing
    <2>2. pak.to = d
      BY <2>1, AppHomeAssumption
    <2>3. row[d].t > newest.t
      BY DEF Fresh
    <2>4. pak.t > version(d)
      BY <1>4, <1>v, <2>3
    <2>5. f[pak.t] = d
      BY <1>v, <2>4, OwnersAgree DEF Handing
    <2> QED BY <1>1, <2>2, <2>5
  <1>7. row[d] = NoRow => (f[version(d)] = d => row'[d].home = d)
    BY <1>1, <1>2, <1>3, <1>v
  <1> QED BY <1>5, <1>6, <1>7, OwnerRows

\* What was pulled is what the newest version says of a device.
LEMMA OwnerApply ==
    ASSUME Typed, NEW f \in [Nat -> Devices], Placed(f), Fresh(f), InOrder', NEW d \in Devices,
           ApplyApp(d) \/ ApplyAppTombstone(d), Placed(f)'
    PROVE  Owner(f)' = Owner(f) /\ Fresh(f)' /\ (Home(d) => row'[d].home = d)
  <1> DEFINE obj == pend[d][None]
  <1>1. /\ newest' = newest /\ version(d)' = obj.t /\ obj # NoRow
        /\ \A e \in Devices \ {d} : version(e)' = version(e)
        /\ Undone(d, obj) \subseteq clash'
    BY ApplyEffect
  <1>2. ~(row[d].t > obj.t)
    <2>1. "undone" \notin clash'
      BY DEF InOrder
    <2> QED BY <1>1, <2>1 DEF Undone
  <1>3. /\ obj.home = f[obj.t] /\ version(d) < obj.t /\ obj.t <= newest.t
    BY <1>1 DEF Placed, Fetched
  <1>4. /\ \A e \in Devices \ {d} : row'[e] = row[e]
        /\ row'[d] = obj \/ (row'[d].home = row[d].home /\ Forgot(d, obj) \subseteq clash')
                         \/ (row[d] = NoRow /\ row'[d] = NoRow)
    BY ApplyAppEffect, TombstoneEffect
  <1>v. newest.t \in Nat /\ row[d].t \in Nat /\ obj.t \in Nat /\ version(d) \in Nat
    BY Versions
  <1>5. ~(Handing(f, d) /\ row[d] # NoRow)
    BY <1>2, <1>3, <1>v DEF Fresh
  <1>n. NoRow.home = None
    BY Nothing DEF Typed
  <1>6. row'[d].home \in {None, f[obj.t]}
    <2>1. "forgot" \notin clash'
      BY DEF InOrder
    <2>2. Forgot(d, obj) \subseteq clash' => row[d].home \in {None, obj.home}
      BY <2>1 DEF Forgot
    <2> QED BY <1>3, <1>4, <1>n, <2>2
  <1>7. ~(Handing(f, d)' /\ row'[d] # NoRow)
    <2>1. row'[d] # NoRow => row'[d].home \in Devices
      BY DEF Placed, Known
    <2> QED BY <1>1, <1>6, <2>1, AppHomeAssumption DEF Handing
  <1>8. \A e \in Devices \ {d} : Handing(f, e)' <=> Handing(f, e)
    BY <1>1, <1>4 DEF Handing
  <1>9. Owner(f)' = Owner(f)
    <2>1. newest.home \in Devices
      BY OwnerIsHome
    <2>2. CASE newest.home = d
      BY <1>1, <1>5, <1>7, <2>2 DEF Owner
    <2>3. CASE newest.home # d
      BY <1>1, <1>4, <1>8, <2>1, <2>3 DEF Owner
    <2> QED BY <2>2, <2>3
  <1>10. Fresh(f)'
    BY <1>1, <1>4, <1>7, <1>8 DEF Fresh
  <1>11. ASSUME Home(d) PROVE row'[d].home = d
    <2>1. f[version(d)] = d /\ row[d] # NoRow
      BY <1>11, OwnerIsHome
    <2>2. f[obj.t] = d
      BY <1>3, <1>v, <2>1, OwnersAgree
    <2> QED BY <1>3, <1>4, <1>11, <2>1, <2>2 DEF Home
  <1> QED BY <1>9, <1>10, <1>11

\* A migration that is published is the newest version.
LEMMA OwnerPush ==
    ASSUME Typed, NEW f \in [Nat -> Devices], Placed(f), Fresh(f), InOrder', NEW d \in Devices,
           PushApp(d)
    PROVE  \E g \in [Nat -> Devices] : Placed(g)' /\ Owner(g)' = Owner(f) /\ Fresh(g)'
  <1>1. PICK g \in [Nat -> Devices] :
             /\ Placed(g)'
             /\ \A t \in Nat : t < row[d].t => g[t] = f[t]
             /\ ~Handing(f, d) => \A t \in Nat : g[t] = f[t]
    <2>1. Orderly'
      BY DEF InOrder, Orderly
    <2> QED BY <2>1, PlacedPush
  <1>2. row' = row
    BY PushEffect
  <1>v. /\ newest.t \in Nat /\ newest.home \in Devices /\ row[d].t \in Nat
        /\ \A e \in Devices : version(e) \in Nat /\ version(e) <= newest.t
    BY Versions, OwnerIsHome DEF Placed, Published
  <1>3. CASE ~Ships(d)
    <2>1. newest' = newest /\ \A e \in Devices : version(e)' = version(e)
      BY <1>3, PushEffect DEF newest, version
    <2>2. Owner(f)' = Owner(f) /\ Fresh(f)'
      BY <1>2, <1>v, <2>1, OwnerFrame
    <2>3. Placed(f)'
      <3>1. /\ UNCHANGED <<row, pkg, held, pend, seen, remote, cmd>>
        BY <1>3, PushEffect
      <3> QED BY <3>1, PlacedFrame
    <2> QED BY <2>2, <2>3
  <1>4. CASE Ships(d)
    <2>1. /\ newest' = row[d] /\ newest.t < row[d].t
          /\ version(d)' = row[d].t /\ \A e \in Devices \ {d} : version(e)' = version(e)
      BY <1>4, PushEffect DEF InOrder
    <2>2. row[d] # NoRow
      BY <1>v, <2>1, Nothing DEF Typed
    <2>3. row[d].home \in Devices
      BY <2>2 DEF Placed, Known
    <2>4. g[row[d].t] = row[d].home
      BY <1>1, <2>1 DEF Placed, Published
    <2>5. \A e \in Devices \ {d} : Handing(g, e)' <=> Handing(f, e)
      <3>1. \A e \in Devices \ {d} : g[version(e)'] = f[version(e)] /\ version(e)' = version(e)
        BY <1>1, <1>v, <2>1
      <3> QED BY <1>2, <3>1 DEF Handing
    <2>6. ~Handing(g, d)'
      BY <1>2, <2>1, <2>4 DEF Handing
    <2>h. PICK h \in Devices : h = row[d].home
      BY <2>3
    <2>7. /\ Handing(g, h)' /\ row[h] # NoRow => Owner(g)' = row[h].home
          /\ ~(Handing(g, h)' /\ row[h] # NoRow) => Owner(g)' = h
      BY <1>2, <2>1, <2>h DEF Owner, Handing
    <2>8. ASSUME Handing(f, d) PROVE Owner(g)' = Owner(f)
      <3>1. Owner(f) = h
        BY <2>2, <2>8, <2>h, OwnerIsHome
      <3>2. h # d /\ d = newest.home
        BY <2>8, <2>h, OwnersAgree DEF Handing
      <3>3. ~Handing(g, h)'
        BY <2>5, <3>2, OwnersAgree
      <3> QED BY <2>7, <3>1, <3>3
    <2>9. ASSUME ~Handing(f, d) PROVE Owner(g)' = Owner(f)
      <3>1. h = newest.home
        <4>1. row[d].t >= newest.t
          BY <1>v, <2>1
        <4>2. f[row[d].t] = newest.home
          BY <1>v, <4>1 DEF Placed, Published
        <4> QED BY <1>1, <1>v, <2>4, <2>9, <2>h, <4>2
      <3>2. Handing(g, h)' <=> Handing(f, h)
        BY <2>5, <2>6, <2>9
      <3> QED BY <2>7, <3>1, <3>2 DEF Owner
    <2>10. Fresh(g)'
      <3> SUFFICES ASSUME NEW e \in Devices, Handing(g, e)', row[e] # NoRow
                   PROVE  row[e].t > row[d].t
        BY <1>2, <2>1 DEF Fresh
      <3>1. e # d /\ Handing(f, e)
        BY <2>5, <2>6
      <3>2. row[e].t > newest.t
        BY <3>1 DEF Fresh
      <3>3. row[d].t < row[e].t
        BY <3>1, <3>2 DEF Placed, Alone
      <3> QED BY <3>3, Versions
    <2> QED BY <1>1, <2>8, <2>9, <2>10
  <1> QED BY <1>3, <1>4

-----------------------------------------------------------------------------
(* A migration under way: the backup that carries the app to its target.   *)

\* The data that its runs wrote, but for what is given up.
Kept == (1 .. writes) \ dropped

\* The newest backup of c is applied on x.
Arrived(c, x) == seen[x][c] = held[c][c].t

\* It holds all the data, which x has as well when it is applied.
Loaded(c, x) == clash = {} =>
    Kept \subseteq held[c][c].data /\ (Arrived(c, x) => Kept \subseteq live[x])

\* Every other backup of the app is older.
Latest(c) == \A w \in Devices \ {c} :
    /\ Before(held[w][w], held[c][c].t) /\ Before(remote[w].obj, held[c][c].t)
    /\ \A e \in Devices : Before(pend[e][w], held[c][c].t)

\* The backup of c carries the app to x.
Carried(c, x) ==
    /\ c # x /\ ~held[c][c].gone /\ held[c][c].to = x
    /\ cmd[x][1] = "park" => held[x][x].t < held[c][c].t
    /\ Arrived(c, x) => held[x][c] = held[c][c]
    /\ Latest(c) /\ Loaded(c, x)

Underway(c, x) ==
    /\ Carried(c, x)
    /\ Arrived(c, x) => moving[x] = 0
    /\ ~Arrived(c, x) => moving[x] = held[c][c].t

\* The app is at home on x with all its data.
Has(x) == Home(x) /\ moving[x] = 0 /\ (clash = {} => Kept \subseteq live[x])

\* The owner has the app, or it is on its way to it, and no device else waits for it.
Moves(x) ==
    /\ \A d \in Devices \ {x} : moving[d] = 0
    /\ \A d \in Devices : cmd[d][1] = "hand" => moving[d] = 0 /\ Carried(d, cmd[d][2])
    /\ Has(x) \/ \E c \in Devices : Underway(c, x)
    /\ \A d \in Devices : Home(d) /\ running[d] = "live" => moving[d] = 0

\* What the placements say of the owner's rows and commands.
Owns(x) == \A d \in Devices :
    /\ Home(d) => d = x
    /\ cmd[d][1] = "hand" => Home(d)
    /\ d \in pkg /\ row[d].home \in {None, d} => Home(d)

\* The placements say so.
LEMMA PlacedOwns ==
    ASSUME Typed, NEW f \in [Nat -> Devices], Placed(f), NEW x, x = Owner(f)
    PROVE  Owns(x)
  <1>1. \A d \in Devices : Home(d) => d = x
    BY OwnerIsHome
  <1>2. \A d \in Devices : cmd[d][1] = "hand" => Home(d)
    BY DEF Placed, Starts, Home
  <1>3. \A d \in Devices : d \in pkg /\ row[d].home \in {None, d} => Home(d)
    BY AppHomeAssumption DEF Placed, Known, Home
  <1> QED BY <1>1, <1>2, <1>3 DEF Owns

\* A home that waits for no migration has the app with all its data.
LEMMA HomeHas ==
    ASSUME Typed, Copies, NEW x \in Devices, Moves(x), Owns(x), NEW d \in Devices, Home(d),
           moving[d] = 0
    PROVE  d = x /\ Has(x)
  <1>1. d = x
    BY DEF Owns
  <1>2. ASSUME NEW c \in Devices, Underway(c, x) PROVE Has(x)
    <2>1. c # x /\ ~held[c][c].gone
      BY <1>2 DEF Underway, Carried
    <2>2. Arrived(c, x)
      <3> SUFFICES ASSUME ~Arrived(c, x) PROVE FALSE
        OBVIOUS
      <3>1. held[c][c].t = 0
        BY <1>1, <1>2 DEF Underway
      <3>2. seen[x][c] <= remote[c].obj.t /\ remote[c].obj.t <= held[c][c].t
        BY <2>1 DEF Copies, Pushed, Followed
      <3> QED BY <3>1, <3>2, PakTimes DEF Arrived
    <2> QED BY <1>1, <1>2, <2>2 DEF Underway, Carried, Loaded, Has
  <1> QED BY <1>1, <1>2 DEF Moves

\* Steps that leave the backup and its order alone.
LEMMA CarriedOn ==
    ASSUME NEW c \in Devices, NEW x \in Devices, Carried(c, x), clash \subseteq clash',
           held'[c][c] = held[c][c],
           cmd'[x][1] = "park" => cmd[x][1] = "park" /\ held'[x][x] = held[x][x],
           seen'[x][c] = seen[x][c],
           held'[x][c] = held[x][c],
           \A w \in Devices \ {c} :
             /\ held'[w][w] = held[w][w] \/ held'[w][w].gone
             /\ remote'[w].obj = remote[w].obj \/ remote'[w].obj = held[w][w]
             /\ \A e \in Devices : \/ pend'[e][w] = pend[e][w]
                                   \/ pend'[e][w] = remote[w].obj \/ pend'[e][w].gone,
           clash' = {} => /\ Kept' \subseteq Kept
                          /\ Arrived(c, x) /\ Kept \subseteq live[x] => Kept' \subseteq live'[x]
    PROVE  Carried(c, x)' /\ (Arrived(c, x)' <=> Arrived(c, x))
  <1>1. Arrived(c, x)' <=> Arrived(c, x)
    BY DEF Arrived
  <1>2. Latest(c)'
    <2> SUFFICES ASSUME NEW w \in Devices \ {c}, NEW e \in Devices
                 PROVE  /\ Before(held'[w][w], held[c][c].t)
                        /\ Before(remote'[w].obj, held[c][c].t)
                        /\ Before(pend'[e][w], held[c][c].t)
      BY DEF Latest
    <2>1. /\ Before(held[w][w], held[c][c].t) /\ Before(remote[w].obj, held[c][c].t)
          /\ Before(pend[e][w], held[c][c].t)
      BY DEF Carried, Latest
    <2>2. Before(held'[w][w], held[c][c].t)
      BY <2>1 DEF Before
    <2>3. Before(pend'[e][w], held[c][c].t)
      BY <2>1 DEF Before
    <2> QED BY <2>1, <2>2, <2>3
  <1>3. Loaded(c, x)'
    <2> SUFFICES ASSUME clash' = {}
                 PROVE  /\ Kept' \subseteq held[c][c].data
                        /\ Arrived(c, x) => Kept' \subseteq live'[x]
      BY <1>1 DEF Loaded
    <2>1. Kept \subseteq held[c][c].data /\ (Arrived(c, x) => Kept \subseteq live[x])
      BY DEF Carried, Loaded
    <2> QED BY <2>1
  <1> QED BY <1>1, <1>2, <1>3 DEF Carried

\* Steps after which every migration is where it was.
LEMMA MovesOn ==
    ASSUME NEW x \in Devices, Moves(x),
           \A e \in Devices : moving[e] = 0 => moving'[e] = 0,
           \A e \in Devices : cmd'[e][1] = "hand" => cmd'[e] = cmd[e] /\ cmd[e][2] \in Devices,
           \A c, e \in Devices : Carried(c, e) => Carried(c, e)',
           \A c \in Devices : Underway(c, x) => Underway(c, x)',
           Has(x) => Has(x)',
           \A e \in Devices : row'[e].home = e /\ running'[e] = "live" => moving'[e] = 0
    PROVE  Moves(x)'
  <1>1. \A d \in Devices \ {x} : moving'[d] = 0
    BY DEF Moves
  <1>2. \A d \in Devices : cmd'[d][1] = "hand" => moving'[d] = 0 /\ Carried(d, cmd[d][2])'
                                                  /\ cmd'[d] = cmd[d]
    BY DEF Moves
  <1>3. Has(x)' \/ \E c \in Devices : Underway(c, x)'
    BY DEF Moves
  <1>4. \A d \in Devices : cmd'[d][1] = "hand" => moving'[d] = 0 /\ Carried(d, cmd[d][2])'
    BY <1>2
  <1> QED BY <1>1, <1>2, <1>3 DEF Moves, Home

\* Steps that leave the backups and the waiting alone.
LEMMA MovesFrame ==
    ASSUME Typed, NEW x \in Devices, Moves(x), clash \subseteq clash',
           moving' = moving,
           \A e, w \in Devices : /\ held'[e][w] = held[e][w] /\ seen'[e][w] = seen[e][w]
                                 /\ pend'[e][w] = pend[e][w],
           \A w \in Devices : remote'[w] = remote[w],
           \A e \in Devices : cmd'[e] = cmd[e] \/ cmd'[e][1] = "idle",
           Home(x) => row'[x].home = x,
           \A e \in Devices : row'[e].home = e /\ running'[e] = "live" => moving[e] = 0,
           clash' = {} =>
             /\ Kept' \subseteq Kept
             /\ Home(x) /\ Kept \subseteq live[x] => Kept' \subseteq live'[x]
             /\ \A c, e \in Devices :
                  Carried(c, e) /\ Arrived(c, e) /\ Kept \subseteq live[e]
                  => Kept' \subseteq live'[e]
    PROVE  Moves(x)'
  <1>1. \A e \in Devices : cmd'[e][1] = "hand" \/ cmd'[e][1] = "park" => cmd'[e] = cmd[e]
    OBVIOUS
  <1>2. \A c, e \in Devices : Carried(c, e) => Carried(c, e)' /\ (Arrived(c, e)' <=> Arrived(c, e))
    <2> SUFFICES ASSUME NEW c \in Devices, NEW e \in Devices, Carried(c, e)
                 PROVE  Carried(c, e)' /\ (Arrived(c, e)' <=> Arrived(c, e))
      OBVIOUS
    <2>1. clash' = {} => /\ Kept' \subseteq Kept
                         /\ Arrived(c, e) /\ Kept \subseteq live[e] => Kept' \subseteq live'[e]
      OBVIOUS
    <2>2. cmd'[e][1] = "park" => cmd[e][1] = "park" /\ held'[e][e] = held[e][e]
      BY <1>1
    <2> QED BY <2>1, <2>2, CarriedOn
  <1>3. \A c \in Devices : Underway(c, x) => Underway(c, x)'
    BY <1>2 DEF Underway
  <1>4. Has(x) => Has(x)'
    BY DEF Has, Home
  <1>5. \A e \in Devices : cmd'[e][1] = "hand" => cmd'[e] = cmd[e] /\ cmd[e][2] \in Devices
    BY <1>1 DEF Typed, CmdTyped
  <1> QED BY <1>2, <1>3, <1>4, <1>5, MovesOn

\* The stamped writes of rows but that of a migration.
LEMMA MovesStamps ==
    ASSUME Typed, NEW x \in Devices, Moves(x), clash \subseteq clash', NEW d \in Devices,
           Deploy(d) \/ Remove(d)
    PROVE  Moves(x)'
  <1>0. /\ row[d].home \in Keys /\ TRUE \in BOOLEAN /\ FALSE \in BOOLEAN
    BY Parts
  <1>1. UNCHANGED <<held, seen, pend, remote, moving, cmd, writes>>
    BY DEF Deploy, Remove, exchange
  <1>2. PICK gone \in BOOLEAN : Stamp(d, row[d].home, gone)
    BY <1>0 DEF Deploy, Remove
  <1>3. \A e \in Devices : row'[e].home = row[e].home
    BY <1>0, <1>1, <1>2, StampEffect
  <1>4. \A e \in Devices : running'[e] = "live" => running[e] = "live"
    BY FollowEffect DEF Deploy, Remove, Place, Open
  <1>5. /\ Kept' \subseteq Kept
        /\ \A e \in Devices : Kept \subseteq live[e] => Kept' \subseteq live'[e]
    <2>1. CASE Deploy(d)
      <3>1. live' = live /\ dropped' = dropped
        BY <2>1 DEF Deploy
      <3> QED BY <1>1, <3>1 DEF Kept
    <2>2. CASE Remove(d)
      <3>1. live' = [live EXCEPT ![d] = {}] /\ dropped' = dropped \cup live[d]
        BY <2>2 DEF Remove
      <3>2. \A e \in Devices : e # d => live'[e] = live[e]
        BY <3>1 DEF Typed, DataTyped
      <3> QED BY <1>1, <3>1, <3>2 DEF Kept
    <2> QED BY <2>1, <2>2
  <1>6. \A e \in Devices : row'[e].home = e /\ running'[e] = "live" => moving[e] = 0
    BY <1>3, <1>4 DEF Moves, Home
  <1>7. Home(x) => row'[x].home = x
    BY <1>3 DEF Home
  <1> QED BY <1>1, <1>5, <1>6, <1>7, MovesFrame

\* The end of a command, and what breaks off.
LEMMA MovesEnd ==
    ASSUME Typed, NEW x \in Devices, Moves(x), clash \subseteq clash', NEW d \in Devices,
           ClaimOnly(d) \/ Dies(d) \/ PushApp(d)
    PROVE  Moves(x)'
  <1>1. /\ UNCHANGED <<row, held, pend, moving, running, live, dropped, writes>>
        /\ \A e, w \in Devices : seen'[e][w] = seen[e][w]
        /\ \A w \in Devices : remote'[w] = remote[w]
    <2>1. CASE ClaimOnly(d) \/ Dies(d)
      BY <2>1 DEF ClaimOnly, Dies, app, exchange, history
    <2>2. CASE PushApp(d)
      BY <2>2, PushEffect
    <2> QED BY <2>1, <2>2
  <1>2. \A e \in Devices : cmd'[e] = cmd[e] \/ cmd'[e][1] = "idle"
    <2>1. CASE Do(d, "idle", None)
      BY <2>1 DEF Do, Typed, CmdTyped
    <2>2. CASE cmd' = cmd
      BY <2>2
    <2> QED BY <2>1, <2>2 DEF ClaimOnly, Dies, PushApp
  <1>3. \A e \in Devices : row'[e].home = e /\ running'[e] = "live" => moving[e] = 0
    BY <1>1 DEF Moves, Home
  <1>4. Kept' = Kept /\ (Home(x) => row'[x].home = x)
    BY <1>1 DEF Kept, Home
  <1> QED BY <1>1, <1>2, <1>3, <1>4, MovesFrame

\* A run starts where the app's data is.
LEMMA MovesRunStart ==
    ASSUME Typed, NEW x \in Devices, Moves(x), clash \subseteq clash', InOrder', NEW d \in Devices,
           RunStart(d)
    PROVE  Moves(x)'
  <1>1. UNCHANGED <<row, held, seen, remote, pend, moving, cmd, live, dropped, writes>>
    BY DEF RunStart, exchange
  <1>2. ~(moving[d] > 0)
    <2>1. "early" \notin clash'
      BY DEF InOrder
    <2> QED BY <2>1 DEF RunStart, Early
  <1>3. moving[d] = 0
    <2>1. moving[d] \in Nat
      BY DEF Typed, HistoryTyped, Times
    <2> QED BY <1>2, <2>1
  <1>4. \A e \in Devices \ {d} : running'[e] = running[e]
    BY DEF RunStart, Typed, FilesTyped
  <1>5. \A e \in Devices : row'[e].home = e /\ running'[e] = "live" => moving[e] = 0
    BY <1>1, <1>3, <1>4 DEF Moves, Home
  <1>6. Kept' = Kept /\ (Home(x) => row'[x].home = x)
    BY <1>1 DEF Kept, Home
  <1> QED BY <1>1, <1>5, <1>6, MovesFrame

\* A run that the app did not wait for writes where the app is; what others write is
\* given up.
LEMMA MovesRunEnd ==
    ASSUME Typed, Copies, NEW x \in Devices, Moves(x), Owns(x), clash \subseteq clash',
           NEW d \in Devices, RunEnd(d)
    PROVE  Moves(x)'
  <1>1. UNCHANGED <<row, held, seen, remote, pend, moving, cmd, clash>> /\ writes' = writes + 1
    BY DEF RunEnd, exchange
  <1>w. writes \in Nat
    BY Parts
  <1>2. /\ \A e \in Devices \ {d} : running'[e] = running[e]
        /\ running'[d] = "no"
    BY DEF RunEnd, Typed, FilesTyped
  <1>3. \A e \in Devices : live[e] \subseteq live'[e]
    BY DEF RunEnd, Typed, DataTyped
  <1>4. \A e \in Devices : row'[e].home = e /\ running'[e] = "live" => moving[e] = 0
    BY <1>1, <1>2 DEF Moves, Home
  <1>5. CASE ~(running[d] = "live" /\ Idle(d) /\ ~Elsewhere(d))
    <2>1. dropped' = dropped \cup {writes + 1}
      BY <1>5 DEF RunEnd
    <2>2. Kept' \subseteq Kept
      BY <1>1, <1>w, <2>1 DEF Kept
    <2>3. \A e \in Devices : Kept \subseteq live[e] => Kept' \subseteq live'[e]
      BY <1>3, <2>2
    <2>4. Home(x) => row'[x].home = x
      BY <1>1 DEF Home
    <2> QED BY <1>1, <1>4, <2>2, <2>3, <2>4, MovesFrame
  <1>6. CASE running[d] = "live" /\ Idle(d) /\ ~Elsewhere(d)
    <2>1. Home(d)
      BY <1>6 DEF Owns, Elsewhere, Typed, FilesTyped
    <2>2. d = x /\ Has(x)
      BY <1>6, <2>1, HomeHas DEF Moves
    <2>3. live'[d] = live[d] \cup {writes + 1} /\ dropped' = dropped
      BY <1>6 DEF RunEnd, Typed, DataTyped
    <2>4. Kept' \subseteq Kept \cup {writes + 1}
      BY <1>1, <1>w, <2>3 DEF Kept
    <2>5. Has(x)'
      BY <1>1, <2>2, <2>3, <2>4 DEF Has, Home
    <2>6. \A e \in Devices : cmd[e][1] # "hand"
      <3>1. cmd[d][1] = "idle"
        BY <1>6 DEF Idle
      <3>2. \A e \in Devices : cmd[e][1] = "hand" => e = d
        BY <2>2 DEF Owns
      <3> QED BY <3>1, <3>2
    <2> QED BY <1>1, <1>4, <2>5, <2>6 DEF Moves, Home
  <1> QED BY <1>5, <1>6

\* The data that a migration parks is not what a backup brought meanwhile.
LEMMA MovesPark ==
    ASSUME Typed, NEW x \in Devices, Moves(x), clash \subseteq clash', NEW d \in Devices, Park(d)
    PROVE  Moves(x)'
  <1>1. /\ UNCHANGED <<row, held, seen, remote, pend, moving, dropped, writes>>
        /\ Deactivate(d) /\ Follow(d, "parked") /\ Do(d, "idle", None) /\ cmd[d][1] = "park"
    BY DEF Park, exchange
  <1>2. \A e \in Devices \ {d} : live'[e] = live[e]
    BY <1>1, SetAside
  <1>3. running'[d] # "live" /\ \A e \in Devices \ {d} : running'[e] = running[e]
    BY <1>1, FollowEffect DEF Open
  <1>4. \A e \in Devices : cmd'[e] = cmd[e] \/ cmd'[e][1] = "idle"
    BY <1>1 DEF Do, Typed, CmdTyped
  <1>5. \A e \in Devices : row'[e].home = e /\ running'[e] = "live" => moving[e] = 0
    BY <1>1, <1>3 DEF Moves, Home
  <1>6. Kept' = Kept /\ (Home(x) => row'[x].home = x)
    BY <1>1 DEF Kept, Home
  <1>7. ASSUME clash' = {} PROVE ~Home(d) /\ \A w \in Devices : ~(held[d][w].t > held[d][d].t)
    BY <1>7 DEF Park
  <1>8. ASSUME clash' = {}, NEW c \in Devices, NEW e \in Devices, Carried(c, e), Arrived(c, e)
        PROVE  e # d
    <2> SUFFICES ASSUME e = d PROVE FALSE
      OBVIOUS
    <2>1. held[d][c] = held[c][c] /\ held[d][d].t < held[c][c].t
      BY <1>1, <1>8 DEF Carried
    <2>2. held[d][c].t > held[d][d].t
      BY <2>1, PakTimes
    <2> QED BY <1>7, <1>8, <2>2
  <1>9. clash' = {} =>
             /\ Kept' \subseteq Kept
             /\ Home(x) /\ Kept \subseteq live[x] => Kept' \subseteq live'[x]
             /\ \A c, e \in Devices :
                  Carried(c, e) /\ Arrived(c, e) /\ Kept \subseteq live[e]
                  => Kept' \subseteq live'[e]
    BY <1>2, <1>6, <1>7, <1>8
  <1> QED BY <1>1, <1>4, <1>5, <1>6, <1>9, MovesFrame

\* A restore gives up what the backup does not have.
LEMMA MovesRestore ==
    ASSUME Typed, NEW x \in Devices, Moves(x), clash \subseteq clash', NEW d \in Devices, Restore(d)
    PROVE  Moves(x)'
  <1>1. PICK w \in Devices :
           /\ UNCHANGED <<held, pend, seen, remote, writes, moving>>
           /\ row'[d].home = (IF row[d] = NoRow THEN held[d][w].home ELSE row[d].home)
           /\ \A e \in Devices \ {d} : row'[e] = row[e]
           /\ live'[d] = held[d][w].data /\ \A e \in Devices \ {d} : live'[e] = live[e]
           /\ dropped' = dropped \cup (live[d] \ held[d][w].data)
           /\ running'[d] # "live" /\ \A e \in Devices \ {d} : running'[e] = running[e]
           /\ cmd'[d][1] = "idle" /\ \A e \in Devices \ {d} : cmd'[e] = cmd[e]
    BY RestoreStep
  <1>2. /\ Kept' \subseteq Kept
        /\ \A e \in Devices : Kept \subseteq live[e] => Kept' \subseteq live'[e]
    BY <1>1 DEF Kept
  <1>3. Home(x) => row'[x].home = x
    BY <1>1, Nothing, AppHomeAssumption DEF Home, Typed
  <1>4. \A e \in Devices : row'[e].home = e /\ running'[e] = "live" => moving[e] = 0
    BY <1>1 DEF Moves, Home
  <1>5. \A e \in Devices : cmd'[e] = cmd[e] \/ cmd'[e][1] = "idle"
    BY <1>1
  <1> QED BY <1>1, <1>2, <1>3, <1>4, <1>5, MovesFrame

\* A placement that is applied where the app lives is its own; elsewhere it parks what no
\* migration brought.
LEMMA MovesApply ==
    ASSUME Typed, NEW x \in Devices, Moves(x), clash \subseteq clash', NEW d \in Devices,
           ApplyApp(d) \/ ApplyAppTombstone(d), Home(d) => row'[d].home = d
    PROVE  Moves(x)'
  <1>1. /\ UNCHANGED <<held, cmd, remote, writes, moving>>
        /\ \A e, w \in Devices : pend'[e][w] = pend[e][w] /\ seen'[e][w] = seen[e][w]
    BY ApplyEffect
  <1>2. /\ \A e \in Devices \ {d} : row'[e] = row[e] /\ live'[e] = live[e]
        /\ running'[d] # "live" /\ \A e \in Devices \ {d} : running'[e] = running[e]
    BY ApplyAppEffect, TombstoneEffect
  <1>3. Home(x) => row'[x].home = x
    BY <1>2 DEF Home
  <1>4. \A e \in Devices : row'[e].home = e /\ running'[e] = "live" => moving[e] = 0
    BY <1>2 DEF Moves, Home
  <1>5. CASE ApplyAppTombstone(d)
    <2>1. live'[d] = {} /\ dropped' = dropped \cup live[d]
      BY <1>5, TombstoneEffect
    <2>2. /\ Kept' \subseteq Kept
          /\ \A e \in Devices : Kept \subseteq live[e] => Kept' \subseteq live'[e]
      BY <1>1, <1>2, <2>1 DEF Kept
    <2> QED BY <1>1, <1>3, <1>4, <2>2, MovesFrame
  <1>6. CASE ApplyApp(d)
    <2> DEFINE obj == pend[d][None]
    <2>1. /\ row'[d] = obj /\ dropped' = dropped
          /\ live'[d] = IF obj.home \notin {None, d} THEN {} ELSE live[d]
          /\ Ahead(d, obj) \subseteq clash'
      BY <1>6, ApplyAppEffect
    <2>2. Kept' = Kept
      BY <1>1, <2>1 DEF Kept
    <2>3. Home(d) => live'[d] = live[d]
      BY <2>1
    <2>4. ASSUME clash' = {}, NEW c \in Devices, Carried(c, d), Arrived(c, d)
          PROVE  live'[d] = live[d]
      <3>1. held[d][c].to = d
        BY <2>4 DEF Carried
      <3>2. Ahead(d, obj) = {}
        BY <2>1, <2>4
      <3>3. obj.home \in {None, d} \/ live[d] = {}
        BY <3>1, <3>2 DEF Ahead
      <3> QED BY <2>1, <3>3
    <2>5. clash' = {} =>
             /\ Kept' \subseteq Kept
             /\ Home(x) /\ Kept \subseteq live[x] => Kept' \subseteq live'[x]
             /\ \A c, e \in Devices :
                  Carried(c, e) /\ Arrived(c, e) /\ Kept \subseteq live[e]
                  => Kept' \subseteq live'[e]
      BY <1>2, <2>2, <2>3, <2>4
    <2> QED BY <1>1, <1>3, <1>4, <2>5, MovesFrame
  <1> QED BY <1>5, <1>6

\* Steps that change nothing but the backups.
LEMMA MovesStill ==
    ASSUME Typed, NEW x \in Devices, Moves(x),
           UNCHANGED <<row, running, live, dropped, writes, cmd, moving>>, clash \subseteq clash',
           \A c, e \in Devices :
             Carried(c, e) => Carried(c, e)' /\ (Arrived(c, e)' <=> Arrived(c, e)),
           \A c \in Devices : held'[c][c].t = held[c][c].t \/ ~Underway(c, x)
    PROVE  Moves(x)'
  <1>1. \A c \in Devices : Underway(c, x) => Underway(c, x)'
    BY DEF Underway
  <1>2. Kept' = Kept
    BY DEF Kept
  <1>3. Has(x) => Has(x)'
    BY <1>2 DEF Has, Home
  <1>4. \A e \in Devices : cmd'[e][1] = "hand" => cmd'[e] = cmd[e] /\ cmd[e][2] \in Devices
    BY DEF Typed, CmdTyped
  <1>5. \A e \in Devices : row'[e].home = e /\ running'[e] = "live" => moving'[e] = 0
    BY DEF Moves, Home
  <1> QED BY <1>1, <1>3, <1>4, <1>5, MovesOn

\* A backup that is pushed or pulled carries what it did.
LEMMA MovesPushBackups ==
    ASSUME Typed, NEW x \in Devices, Moves(x), clash \subseteq clash', NEW d \in Devices,
           PushBackups(d) \/ Pull(d) \/ SyncFails(d)
    PROVE  Moves(x)'
  <1>1. UNCHANGED <<row, running, live, dropped, writes, cmd, moving, held>>
    BY PushBackupsEffect, PullEffect
  <1>2. /\ \A e, w \in Devices : e # w => seen'[e][w] = seen[e][w]
        /\ \A w \in Devices : remote'[w].obj = remote[w].obj \/ remote'[w].obj = held[w][w]
        /\ \A e, w \in Devices : \/ pend'[e][w] = pend[e][w]
                                 \/ pend'[e][w] = remote[w].obj \/ pend'[e][w].gone
    <2>1. CASE PushBackups(d)
      BY <2>1, PushBackupsEffect
    <2>2. CASE Pull(d) \/ SyncFails(d)
      <3>1. /\ UNCHANGED <<seen, remote>>
            /\ \A e \in Devices \ {d}, w \in Devices : pend'[e][w] = pend[e][w]
            /\ \A w \in Devices : pend'[d][w] = NoPak \/ pend'[d][w] = remote[w].obj
        BY <2>2, PullEffect
      <3>2. NoPak.gone
        BY PakTimes
      <3> QED BY <3>1, <3>2
    <2> QED BY <2>1, <2>2
  <1>3. Kept' = Kept
    BY <1>1 DEF Kept
  <1>4. \A c, e \in Devices : Carried(c, e) => Carried(c, e)' /\ (Arrived(c, e)' <=> Arrived(c, e))
    <2> SUFFICES ASSUME NEW c \in Devices, NEW e \in Devices, Carried(c, e)
                 PROVE  Carried(c, e)' /\ (Arrived(c, e)' <=> Arrived(c, e))
      OBVIOUS
    <2>1. seen'[e][c] = seen[e][c]
      BY <1>2 DEF Carried
    <2> QED BY <1>1, <1>2, <1>3, <2>1, CarriedOn
  <1> QED BY <1>1, <1>4, MovesStill

\* A backup that migrates is not deleted.
LEMMA MovesDelete ==
    ASSUME Typed, NEW x \in Devices, Moves(x), clash \subseteq clash', InOrder', NEW d \in Devices,
           BackupDelete(d)
    PROVE  Moves(x)'
  <1>1. /\ UNCHANGED <<row, live, running, cmd, pend, seen, remote, writes, dropped, moving>>
        /\ cmd[d] = <<"idle", None>> /\ held'[d][d].gone
        /\ \A e, w \in Devices : e # d \/ w # d => held'[e][w] = held[e][w]
    BY DeleteEffect
  <1>2. held[d][d].to = None
    <2>1. "deleted" \notin clash'
      BY DEF InOrder
    <2> QED BY <2>1, DeleteEffect
  <1>3. \A c, e \in Devices : Carried(c, e) => c # d
    BY <1>2, AppHomeAssumption DEF Carried
  <1>4. \A c, e \in Devices : Carried(c, e) => Carried(c, e)' /\ (Arrived(c, e)' <=> Arrived(c, e))
    <2> SUFFICES ASSUME NEW c \in Devices, NEW e \in Devices, Carried(c, e)
                 PROVE  Carried(c, e)' /\ (Arrived(c, e)' <=> Arrived(c, e))
      OBVIOUS
    <2>1. c # d /\ c # e
      BY <1>3 DEF Carried
    <2>2. held'[c][c] = held[c][c] /\ held'[e][c] = held[e][c]
      BY <1>1, <2>1
    <2>3. cmd'[e][1] = "park" => cmd[e][1] = "park" /\ held'[e][e] = held[e][e]
      <3>1. cmd[d][1] # "park"
        BY <1>1
      <3> QED BY <1>1, <3>1
    <2>4. \A w \in Devices \ {c} : held'[w][w] = held[w][w] \/ held'[w][w].gone
      BY <1>1
    <2>5. Kept' = Kept
      BY <1>1 DEF Kept
    <2> QED BY <1>1, <2>2, <2>3, <2>4, <2>5, CarriedOn
  <1>5. \A c \in Devices : held'[c][c].t = held[c][c].t \/ ~Underway(c, x)
    BY <1>1, <1>3 DEF Underway
  <1> QED BY <1>1, <1>4, <1>5, MovesStill

\* What a device has of the backup of a migration to it is older than what the transport or
\* the writer has, unless it is the same.
LEMMA Coming ==
    ASSUME Typed, Copies, NEW d \in Devices, NEW w \in Devices, d # w, pend[d][w] # NoPak
    PROVE  /\ seen[d][w] < pend[d][w].t /\ pend[d][w].t <= held[w][w].t
           /\ pend[d][w].t = held[w][w].t => pend[d][w] = held[w][w]
           /\ ~Arrived(w, d)
  <1>1. /\ seen[d][w] < pend[d][w].t /\ pend[d][w].t <= remote[w].obj.t
        /\ pend[d][w].t = remote[w].obj.t => pend[d][w] = remote[w].obj
    BY DEF Copies, Followed
  <1>2. /\ remote[w].obj.t <= held[w][w].t
        /\ remote[w].obj.t = held[w][w].t => remote[w].obj = held[w][w]
    BY DEF Copies, Pushed
  <1>3. /\ seen[d][w] \in Nat /\ pend[d][w].t \in Nat /\ remote[w].obj.t \in Nat
        /\ held[w][w].t \in Nat
    BY PakTimes
  <1>4. pend[d][w].t <= held[w][w].t /\ seen[d][w] # held[w][w].t
    BY <1>1, <1>2, <1>3
  <1>5. pend[d][w].t = held[w][w].t =>
          pend[d][w].t = remote[w].obj.t /\ remote[w].obj.t = held[w][w].t
    BY <1>1, <1>2, <1>3
  <1>6. pend[d][w].t = held[w][w].t => pend[d][w] = held[w][w]
    BY <1>1, <1>2, <1>5
  <1> QED BY <1>1, <1>4, <1>6 DEF Arrived

\* An older backup of the one that migrates leaves it on its way.
LEMMA MovesStore ==
    ASSUME Typed, Copies, NEW x \in Devices, Moves(x), clash \subseteq clash', NEW d \in Devices,
           NEW w \in Devices, ApplyBackup(d, w)
    PROVE  Moves(x)'
  <1>1. /\ UNCHANGED <<row, live, running, cmd, remote, writes, dropped, moving>>
        /\ pend[d][w] # NoPak /\ pend[d][w].to # d
        /\ pend'[d][w] = NoPak /\ seen'[d][w] = pend[d][w].t
        /\ \A e, y \in Devices : e # d \/ y # w =>
             pend'[e][y] = pend[e][y] /\ seen'[e][y] = seen[e][y] /\ held'[e][y] = held[e][y]
    BY ApplyBackupEffect
  <1>2. d # w
    BY <1>1, CopiesApply
  <1>3. Kept' = Kept /\ NoPak.gone
    BY <1>1, PakTimes DEF Kept
  <1>4. \A y \in Devices : held'[y][y] = held[y][y]
    BY <1>1, <1>2
  <1>5. ASSUME NEW c \in Devices, NEW e \in Devices, Carried(c, e)
        PROVE  Carried(c, e)' /\ (Arrived(c, e)' <=> Arrived(c, e))
    <2>1. CASE e # d \/ c # w
      <3>1. seen'[e][c] = seen[e][c] /\ held'[e][c] = held[e][c]
        BY <1>1, <2>1
      <3>2. \A a, y \in Devices : pend'[a][y] = pend[a][y] \/ pend'[a][y].gone
        BY <1>1, <1>3
      <3> QED BY <1>1, <1>3, <1>4, <1>5, <3>1, <3>2, CarriedOn
    <2>2. CASE e = d /\ c = w
      <3>1. /\ seen[d][w] < pend[d][w].t /\ pend[d][w].t <= held[w][w].t
            /\ pend[d][w].t = held[w][w].t => pend[d][w] = held[w][w]
            /\ ~Arrived(w, d)
        BY <1>1, <1>2, Coming
      <3>2. held[w][w].to = d
        BY <1>5, <2>2 DEF Carried
      <3>3. ~Arrived(w, d)'
        BY <1>1, <1>4, <3>1, <3>2 DEF Arrived
      <3>4. Latest(w)'
        <4>1. Latest(w)
          BY <1>5, <2>2 DEF Carried
        <4>2. \A y \in Devices \ {w}, a \in Devices : pend'[a][y] = pend[a][y]
          BY <1>1
        <4> QED BY <1>1, <1>4, <4>1, <4>2 DEF Latest
      <3>5. Loaded(w, d)'
        BY <1>3, <1>4, <1>5, <2>2, <3>3 DEF Carried, Loaded
      <3>6. Carried(w, d)'
        BY <1>1, <1>4, <1>5, <2>2, <3>3, <3>4, <3>5 DEF Carried
      <3> QED BY <2>2, <3>1, <3>3, <3>6
    <2> QED BY <2>1, <2>2
  <1>6. \A c \in Devices : held'[c][c].t = held[c][c].t
    BY <1>4
  <1> QED BY <1>1, <1>5, <1>6, MovesStill

\* A migration that arrives is over, and an older one does not end it.
LEMMA MovesIn ==
    ASSUME Typed, Copies, NEW x \in Devices, Moves(x), clash \subseteq clash', NEW d \in Devices,
           NEW w \in Devices, MigrateIn(d, w), ~pend[d][w].gone
    PROVE  Moves(x)'
  <1>1. /\ pend[d][w] # NoPak /\ remote' = remote /\ cmd' = cmd /\ writes' = writes
        /\ pend'[d][w] = NoPak /\ seen'[d][w] = pend[d][w].t
        /\ held'[d][w] = pend[d][w]
        /\ \A e, y \in Devices : e # d \/ y # w =>
             pend'[e][y] = pend[e][y] /\ seen'[e][y] = seen[e][y] /\ held'[e][y] = held[e][y]
    BY MigrateInEffect
  <1>2. /\ row'[d].home = (IF row[d] = NoRow THEN pend[d][w].home ELSE row[d].home)
        /\ live'[d] = pend[d][w].data /\ dropped' = dropped \cup (live[d] \ pend[d][w].data)
        /\ running'[d] # "live"
        /\ \A e \in Devices \ {d} : /\ row'[e] = row[e] /\ live'[e] = live[e]
                                    /\ running'[e] = running[e]
    BY MigrateInEffect
  <1>3. /\ moving'[d] = (IF moving[d] <= pend[d][w].t THEN 0 ELSE moving[d])
        /\ \A e \in Devices \ {d} : moving'[e] = moving[e]
    BY MigrateInEffect
  <1>4. d # w
    BY <1>1, CopiesApply
  <1>5. /\ seen[d][w] < pend[d][w].t /\ pend[d][w].t <= held[w][w].t
        /\ pend[d][w].t = held[w][w].t => pend[d][w] = held[w][w]
        /\ ~Arrived(w, d)
    BY <1>1, <1>4, Coming
  <1>t. pend[d][w].t \in Nat /\ held[w][w].t \in Nat /\ NoPak.gone
    BY PakTimes
  <1>6. /\ Kept' \subseteq Kept
        /\ \A e \in Devices : Kept \subseteq live[e] => Kept' \subseteq live'[e]
    BY <1>1, <1>2 DEF Kept
  <1>7. \A y \in Devices : held'[y][y] = held[y][y]
    BY <1>1, <1>4
  <1>8. \A e \in Devices : moving[e] = 0 => moving'[e] = 0
    BY <1>3, <1>t
  <1>9. ASSUME NEW c \in Devices, NEW e \in Devices, Carried(c, e), e # d \/ c # w
        PROVE  Carried(c, e)' /\ (Arrived(c, e)' <=> Arrived(c, e))
    <2>1. seen'[e][c] = seen[e][c] /\ held'[e][c] = held[e][c]
      BY <1>1, <1>9
    <2>2. \A a, y \in Devices : pend'[a][y] = pend[a][y] \/ pend'[a][y].gone
      BY <1>1, <1>t
    <2> QED BY <1>1, <1>6, <1>7, <1>9, <2>1, <2>2, CarriedOn
  <1>10. ASSUME Carried(w, d)
         PROVE  /\ Carried(w, d)'
                /\ Arrived(w, d)' <=> pend[d][w].t = held[w][w].t
    <2>1. Arrived(w, d)' <=> pend[d][w].t = held[w][w].t
      BY <1>1, <1>7 DEF Arrived
    <2>2. Latest(w)'
      <3>1. Latest(w)
        BY <1>10 DEF Carried
      <3>2. \A y \in Devices \ {w}, a \in Devices : pend'[a][y] = pend[a][y]
        BY <1>1
      <3> QED BY <1>1, <1>7, <3>1, <3>2 DEF Latest
    <2>3. Loaded(w, d)'
      <3> SUFFICES ASSUME clash' = {}
                   PROVE  /\ Kept' \subseteq held[w][w].data
                          /\ Arrived(w, d)' => Kept' \subseteq live'[d]
        BY <1>7 DEF Loaded
      <3>1. Kept \subseteq held[w][w].data
        BY <1>10 DEF Carried, Loaded
      <3>2. Arrived(w, d)' => live'[d] = held[w][w].data
        BY <1>2, <1>5, <2>1
      <3> QED BY <1>6, <3>1, <3>2
    <2>4. Arrived(w, d)' => held'[d][w] = held[w][w]
      BY <1>1, <1>5, <2>1
    <2> QED BY <1>1, <1>7, <1>10, <2>1, <2>2, <2>3, <2>4 DEF Carried
  <1>11. \A c, e \in Devices : Carried(c, e) => Carried(c, e)'
    BY <1>9, <1>10
  <1>12. ASSUME NEW c \in Devices, Underway(c, x) PROVE Underway(c, x)'
    <2>0. Carried(c, x) /\ c # x
      BY <1>12 DEF Underway, Carried
    <2>1. CASE x # d
      <3>1. Carried(c, x)' /\ (Arrived(c, x)' <=> Arrived(c, x))
        BY <1>9, <2>0, <2>1
      <3> QED BY <1>3, <1>7, <1>12, <2>1, <3>1 DEF Underway
    <2>2. CASE x = d /\ c = w
      <3>1. Carried(w, d)' /\ (Arrived(w, d)' <=> pend[d][w].t = held[w][w].t)
        BY <1>10, <2>0, <2>2
      <3>2. moving[d] = held[w][w].t
        BY <1>5, <1>12, <2>2 DEF Underway
      <3>3. Arrived(w, d)' => moving'[d] = 0
        BY <1>3, <1>t, <3>1, <3>2
      <3>4. ~Arrived(w, d)' => moving'[d] = held[w][w].t
        BY <1>3, <1>5, <1>t, <3>1, <3>2
      <3> QED BY <1>7, <2>2, <3>1, <3>3, <3>4 DEF Underway
    <2>3. CASE x = d /\ c # w
      <3>1. Carried(c, d)' /\ (Arrived(c, d)' <=> Arrived(c, d))
        BY <1>9, <2>0, <2>3
      <3>2. Arrived(c, d) => moving'[d] = 0
        BY <1>8, <1>12, <2>3 DEF Underway
      <3>3. pend[d][w].t < held[c][c].t
        BY <2>0, <2>3 DEF Carried, Latest, Before
      <3>4. ASSUME ~Arrived(c, d) PROVE moving'[d] = held[c][c].t
        <4>1. moving[d] = held[c][c].t
          BY <1>12, <2>3, <3>4 DEF Underway
        <4>2. held[c][c].t \in Nat
          BY PakTimes
        <4> QED BY <1>3, <1>t, <3>3, <4>1, <4>2
      <3> QED BY <1>7, <2>3, <3>1, <3>2, <3>4 DEF Underway
    <2> QED BY <2>1, <2>2, <2>3
  <1>13. Home(x) => row'[x].home = x
    BY <1>2, Nothing, AppHomeAssumption DEF Home, Typed
  <1>14. Has(x) => Has(x)'
    BY <1>6, <1>8, <1>13 DEF Has, Home
  <1>15. \A e \in Devices : row'[e].home = e /\ running'[e] = "live" => moving'[e] = 0
    BY <1>2, <1>8 DEF Moves, Home
  <1>16. \A e \in Devices : cmd'[e][1] = "hand" => cmd'[e] = cmd[e] /\ cmd[e][2] \in Devices
    BY <1>1 DEF Typed, CmdTyped
  <1> QED BY <1>8, <1>11, <1>12, <1>14, <1>15, <1>16, MovesOn

\* A backup is made where the app is, with all its data.
LEMMA MovesCreate ==
    ASSUME Typed, Copies, NEW x \in Devices, Moves(x), Owns(x), clash \subseteq clash', InOrder',
           NEW d \in Devices, Backup(d) \/ Migrate(d)
    PROVE  Moves(x)'
  <1>1. PICK to \in Keys : /\ Create(d, to)
                           /\ cmd' = cmd \/ (to \in Devices \ {d} /\ Do(d, "hand", to))
    BY DEF Backup, Migrate, Keys
  <1>2. /\ UNCHANGED <<row, live, running, pend, seen, remote, writes, dropped, moving>>
        /\ row[d].home \in {None, d} /\ d \in pkg /\ cmd[d] = <<"idle", None>>
        /\ held'[d][d].t = now + 1 /\ held'[d][d].data = live[d] /\ held'[d][d].to = to
        /\ ~held'[d][d].gone
        /\ \A e, y \in Devices : e # d \/ y # d => held'[e][y] = held[e][y]
        /\ Early(d) \subseteq clash'
    BY <1>1, CreateEffect
  <1>3. moving[d] = 0
    <2>1. "early" \notin clash'
      BY DEF InOrder
    <2>2. moving[d] \in Nat
      BY DEF Typed, HistoryTyped, Times
    <2> QED BY <1>2, <2>1, <2>2 DEF Early
  <1>4. Home(d)
    BY <1>2 DEF Owns
  <1>5. d = x /\ Has(x)
    BY <1>3, <1>4, HomeHas
  <1>6. Kept' = Kept
    BY <1>2 DEF Kept
  <1>7. Has(x)'
    BY <1>2, <1>5, <1>6 DEF Has, Home
  <1>8. \A e \in Devices : cmd[e][1] # "hand"
    <2>1. \A e \in Devices : cmd[e][1] = "hand" => e = d
      BY <1>5 DEF Owns
    <2> QED BY <1>2, <2>1
  <1>9. CASE cmd' = cmd
    BY <1>2, <1>7, <1>8, <1>9 DEF Moves, Home
  <1>10. CASE to \in Devices \ {d} /\ Do(d, "hand", to)
    <2>1. cmd'[d] = <<"hand", to>> /\ \A e \in Devices \ {d} : cmd'[e] = cmd[e]
      BY <1>10, CmdSet DEF Doing, Keys
    <2>t. /\ now \in Nat
          /\ \A e, w \in Devices : /\ seen[e][w] \in Nat /\ seen[e][w] <= now
                                   /\ pend[e][w].t \in Nat /\ pend[e][w].t <= now
                                   /\ held[e][w].t \in Nat /\ held[e][w].t <= now
          /\ \A w \in Devices : remote[w].obj.t \in Nat /\ remote[w].obj.t <= now
      BY PakTimes
    <2>2. ~Arrived(d, to)'
      BY <1>2, <1>10, <2>t DEF Arrived
    <2>3. held'[to][to].t < held'[d][d].t
      BY <1>2, <1>10, <2>t
    <2>4. Latest(d)'
      BY <1>2, <2>t DEF Latest, Before
    <2>5. Loaded(d, to)'
      BY <1>2, <1>5, <1>6, <2>2 DEF Loaded, Has
    <2>6. Carried(d, to)'
      BY <1>2, <1>10, <2>2, <2>3, <2>4, <2>5 DEF Carried
    <2>7. \A e \in Devices : cmd'[e][1] = "hand" => e = d
      BY <1>8, <2>1
    <2>8. (\A e \in Devices : cmd[e][1] = "hand" => moving[e] = 0 /\ Carried(e, cmd[e][2]))'
      <3> SUFFICES ASSUME NEW e \in Devices, cmd'[e][1] = "hand"
                   PROVE  moving'[e] = 0 /\ Carried(e, cmd[e][2])'
        OBVIOUS
      <3>1. e = d /\ cmd'[d][2] = to
        BY <2>1, <2>7
      <3>2. Carried(d, cmd[d][2])'
        BY <2>6, <3>1
      <3> QED BY <1>2, <1>3, <3>1, <3>2
    <2> QED BY <1>2, <1>7, <2>8 DEF Moves, Home
  <1> QED BY <1>1, <1>9, <1>10

\* The home that hands the app over has it, and its backup is on its way to the target.
LEMMA MovesHand ==
    ASSUME Typed, Copies, NEW x \in Devices, Moves(x), Owns(x), clash \subseteq clash',
           NEW d \in Devices, Hand(d)
    PROVE  \E to \in Devices \ {d} : to = cmd[d][2] /\ Moves(to)'
  <1>1. PICK to \in Devices \ {d} : to = cmd[d][2]
    BY DEF Hand, Typed, CmdTyped
  <1>0. row[d].gone \in BOOLEAN /\ to \in Keys
    BY Parts
  <1>2. /\ UNCHANGED <<held, seen, remote, pend, live, running, dropped, writes>>
        /\ Stamp(d, to, row[d].gone) /\ Do(d, "park", to) /\ cmd[d][1] = "hand"
        /\ moving' = [moving EXCEPT ![to] = IF seen[to][d] < held[d][d].t THEN held[d][d].t ELSE 0]
    BY <1>1 DEF Hand, exchange
  <1>3. row'[d].home = to /\ \A e \in Devices \ {d} : row'[e] = row[e]
    BY <1>0, <1>2, StampEffect
  <1>4. cmd'[d] = <<"park", to>> /\ \A e \in Devices \ {d} : cmd'[e] = cmd[e]
    BY <1>0, <1>2, CmdSet DEF Doing
  <1>5. /\ moving'[to] = IF seen[to][d] < held[d][d].t THEN held[d][d].t ELSE 0
        /\ \A e \in Devices \ {to} : moving'[e] = moving[e]
    BY <1>2 DEF Typed, HistoryTyped
  <1>6. d = x /\ moving[d] = 0 /\ Carried(d, to)
    BY <1>1, <1>2 DEF Owns, Moves
  <1>7. \A e \in Devices \ {to} : moving'[e] = 0
    BY <1>5, <1>6 DEF Moves
  <1>8. \A e \in Devices : cmd'[e][1] # "hand"
    <2>1. \A e \in Devices : cmd[e][1] = "hand" => e = d
      BY <1>6 DEF Owns
    <2> QED BY <1>4, <2>1
  <1>9. Carried(d, to)' /\ (Arrived(d, to)' <=> Arrived(d, to))
    <2>1. Kept' = Kept
      BY <1>2 DEF Kept
    <2>2. cmd'[to] = cmd[to]
      BY <1>4
    <2> QED BY <1>2, <1>6, <2>1, <2>2, CarriedOn
  <1>10. Underway(d, to)'
    <2>1. seen[to][d] <= held[d][d].t
      <3>1. seen[to][d] <= remote[d].obj.t /\ remote[d].obj.t <= held[d][d].t
        BY DEF Copies, Followed, Pushed
      <3> QED BY <3>1, PakTimes
    <2>2. seen[to][d] \in Nat /\ held[d][d].t \in Nat
      BY PakTimes
    <2>3. Arrived(d, to) => moving'[to] = 0
      BY <1>5, <2>2 DEF Arrived
    <2>4. ~Arrived(d, to) => moving'[to] = held[d][d].t
      BY <1>5, <2>1, <2>2 DEF Arrived
    <2> QED BY <1>2, <1>9, <2>3, <2>4 DEF Underway
  <1>11. \A e \in Devices : row'[e].home # e
    <2>1. \A e \in Devices \ {d} : row[e].home # e
      BY <1>6 DEF Owns, Home
    <2> QED BY <1>3, <2>1
  <1>12. Moves(to)'
    <2>1. \E c \in Devices : Underway(c, to)'
      BY <1>10
    <2> QED BY <1>7, <1>8, <1>11, <2>1 DEF Moves, Home
  <1> QED BY <1>1, <1>12

-----------------------------------------------------------------------------
(* The app is at home somewhere, or on its way.                            *)

\* The inductive invariant: the newest placement is where the app is, or where it goes.
Destined == InOrder => \E f \in [Nat -> Devices] : Placed(f) /\ Fresh(f) /\ Moves(Owner(f))

\* A step that keeps the owner keeps the app on its way to it.
LEMMA DestinedBy ==
    ASSUME NEW f \in [Nat -> Devices], Moves(Owner(f)), NEW g \in [Nat -> Devices], Placed(g)',
           Owner(g)' = Owner(f), Fresh(g)', \A x : x = Owner(f) => Moves(x)'
    PROVE  Destined'
  <1>1. PICK x : x = Owner(f)
    OBVIOUS
  <1>2. Moves(x)'
    BY <1>1
  <1>3. Owner(g)' = x
    BY <1>1
  <1>4. Moves(Owner(g))'
    BY <1>2, <1>3
  <1> QED BY <1>4 DEF Destined

\* The stamped writes of rows: deploy and remove leave the owner, and a migration makes
\* its target the owner.
LEMMA DestinedStamps ==
    ASSUME Typed, Copies, NEW f \in [Nat -> Devices], Placed(f), Fresh(f), Moves(Owner(f)),
           InOrder', clash \subseteq clash', NEW d \in Devices,
           Deploy(d) \/ Remove(d) \/ Hand(d) \/ Rescue(d)
    PROVE  Destined'
  <1>1. Orderly'
    BY DEF InOrder, Orderly
  <1>2. Placed(f)'
    BY <1>1, PlacedStamps
  <1>x. PICK x \in Devices : x = Owner(f)
    BY OwnerIsHome
  <1>o. Owns(x)
    BY <1>x, PlacedOwns
  <1>v. newest.t \in Nat /\ newest.t <= now /\ now \in Nat
    BY Versions
  <1>3. newest' = newest /\ \A e \in Devices : version(e)' = version(e)
    BY DEF Deploy, Remove, Hand, Rescue, exchange, newest, version
  <1>0. row[d].home \in Keys /\ row[d].gone \in BOOLEAN
    BY Parts
  <1>n. NoRow.t = 0 /\ NoRow.home = None
    BY Nothing DEF Typed
  <1>4. CASE Deploy(d) \/ Remove(d)
    <2>1. /\ row'[d].home = row[d].home /\ row'[d].t = now + 1
          /\ \A e \in Devices \ {d} : row'[e] = row[e]
      BY <1>0, <1>4, StampEffect DEF Deploy, Remove
    <2>2. row'[d] # NoRow /\ row'[d].t > newest.t
      BY <1>n, <1>v, <2>1
    <2>3. row[d] # NoRow
      <3>1. CASE Deploy(d)
        <4>1. "unplaced" \notin clash'
          BY DEF InOrder
        <4> QED BY <1>n, <3>1, <4>1 DEF Deploy
      <3>2. CASE Remove(d)
        BY <3>2 DEF Remove, Placed, Known
      <3> QED BY <1>4, <3>1, <3>2
    <2>4. Owner(f)' = Owner(f) /\ Fresh(f)'
      BY <1>3, <2>1, <2>2, <2>3, OwnerRows
    <2>5. Moves(x)'
      BY <1>x, <1>4, MovesStamps
    <2> QED BY <1>2, <1>x, <2>4, <2>5, DestinedBy
  <1>5. CASE Hand(d)
    <2>1. PICK to \in Devices \ {d} : to = cmd[d][2] /\ Moves(to)'
      BY <1>x, <1>o, <1>5, MovesHand
    <2>2. to \in Keys /\ Stamp(d, to, row[d].gone) /\ writes' = writes
      BY <1>5, <2>1 DEF Hand, Keys
    <2>3. /\ row'[d].home = to /\ row'[d].t = now + 1
          /\ \A e \in Devices \ {d} : row'[e] = row[e]
      BY <1>0, <2>2, StampEffect
    <2>4. f[version(d)] = d /\ d = newest.home
      <3>1. f[version(d)] = d
        BY <1>5 DEF Placed, Starts, Hand
      <3> QED BY <3>1, OwnersAgree
    <2>5. row'[d] # NoRow /\ row'[d].t > newest.t
      BY <1>n, <1>v, <2>3
    <2>6. Handing(f, d)'
      BY <1>3, <2>1, <2>3, <2>4 DEF Handing
    <2>7. Owner(f)' = to
      BY <1>3, <2>3, <2>4, <2>5, <2>6 DEF Owner
    <2>8. Fresh(f)'
      <3>1. \A e \in Devices \ {d} : Handing(f, e)' /\ row'[e] # NoRow => row'[e].t > newest.t
        BY <1>3, <2>3 DEF Handing, Fresh
      <3> QED BY <1>3, <2>5, <3>1 DEF Fresh
    <2>9. Moves(Owner(f))'
      BY <2>1, <2>7
    <2> QED BY <1>2, <2>8, <2>9 DEF Destined
  <1>6. ~Rescue(d)
    <2>1. "rescue" \notin clash'
      BY DEF InOrder
    <2> QED BY <2>1 DEF Rescue
  <1> QED BY <1>4, <1>5, <1>6

\* A backup of the app that a device restores, or that a migration brings.
LEMMA DestinedRestores ==
    ASSUME Typed, Copies, NEW f \in [Nat -> Devices], Placed(f), Fresh(f), Moves(Owner(f)),
           InOrder', clash \subseteq clash', NEW d \in Devices,
           Restore(d) \/ \E w \in Devices : MigrateIn(d, w)
    PROVE  Destined'
  <1>1. Orderly'
    BY DEF InOrder, Orderly
  <1>2. Placed(f)'
    BY <1>1, PlacedRestore, PlacedMigrateIn
  <1>x. PICK x \in Devices : x = Owner(f)
    BY OwnerIsHome
  <1>3. CASE Restore(d)
    <2>1. PICK w \in Devices :
           /\ held[d][w] \in PaksNow /\ ~held[d][w].gone
           /\ newest' = newest /\ \A e \in Devices : version(e)' = version(e)
           /\ row'[d].home = (IF row[d] = NoRow THEN held[d][w].home ELSE row[d].home)
           /\ row'[d].t = held[d][w].t /\ ~row'[d].gone
           /\ \A e \in Devices \ {d} : row'[e] = row[e]
           /\ Sunk(d, held[d][w]) \subseteq clash' /\ Reborn(d, held[d][w]) \subseteq clash'
      BY <1>3, RestoreStep
    <2>2. Named(f, held[d][w]) /\ Since(f, held[d][w], version(d))
      BY DEF Placed, Backups
    <2>3. row[d].home \in {None, d}
      BY <1>3 DEF Restore, Elsewhere
    <2>4. Owner(f)' = Owner(f) /\ Fresh(f)'
      BY <2>1, <2>2, <2>3, OwnerRestore
    <2>5. Moves(x)'
      BY <1>x, <1>3, MovesRestore
    <2> QED BY <1>2, <1>x, <2>4, <2>5, DestinedBy
  <1>4. ASSUME NEW w \in Devices, MigrateIn(d, w) PROVE Destined'
    <2>1. /\ pend[d][w] \in PaksNow /\ pend[d][w].to = d /\ pend[d][None] = NoRow
          /\ newest' = newest /\ \A e \in Devices : version(e)' = version(e)
          /\ row'[d].home = (IF row[d] = NoRow THEN pend[d][w].home ELSE row[d].home)
          /\ row'[d].t = pend[d][w].t /\ ~row'[d].gone
          /\ \A e \in Devices \ {d} : row'[e] = row[e]
          /\ Sunk(d, pend[d][w]) \subseteq clash' /\ Reborn(d, pend[d][w]) \subseteq clash'
      BY <1>4, MigrateInEffect
    <2>2. Named(f, pend[d][w]) /\ Since(f, pend[d][w], version(d)) /\ Gone(pend[d][w])
      BY <2>1 DEF Placed, Backups
    <2>3. ~pend[d][w].gone
      BY <2>1, <2>2, AppHomeAssumption DEF Gone
    <2>4. Owner(f)' = Owner(f) /\ Fresh(f)'
      BY <2>1, <2>2, <2>3, OwnerRestore
    <2>5. Moves(x)'
      BY <1>x, <1>4, <2>3, MovesIn
    <2> QED BY <1>2, <1>x, <2>4, <2>5, DestinedBy
  <1> QED BY <1>3, <1>4

\* The exchange of the row: a push publishes it, and a device applies what was published.
LEMMA DestinedRows ==
    ASSUME Typed, Copies, NEW f \in [Nat -> Devices], Placed(f), Fresh(f), Moves(Owner(f)),
           InOrder', clash \subseteq clash', NEW d \in Devices,
           PushApp(d) \/ ApplyApp(d) \/ ApplyAppTombstone(d)
    PROVE  Destined'
  <1>1. Orderly'
    BY DEF InOrder, Orderly
  <1>x. PICK x \in Devices : x = Owner(f)
    BY OwnerIsHome
  <1>2. CASE PushApp(d)
    <2>1. PICK g \in [Nat -> Devices] : Placed(g)' /\ Owner(g)' = Owner(f) /\ Fresh(g)'
      BY <1>2, OwnerPush
    <2>2. Moves(x)'
      BY <1>x, <1>2, MovesEnd
    <2> QED BY <1>x, <2>1, <2>2, DestinedBy
  <1>3. CASE ApplyApp(d) \/ ApplyAppTombstone(d)
    <2>1. Placed(f)'
      BY <1>1, <1>3, PlacedApplyApp
    <2>2. Owner(f)' = Owner(f) /\ Fresh(f)' /\ (Home(d) => row'[d].home = d)
      BY <1>3, <2>1, OwnerApply
    <2>3. Moves(x)'
      BY <1>x, <1>3, <2>2, MovesApply
    <2> QED BY <1>x, <2>1, <2>2, <2>3, DestinedBy
  <1> QED BY <1>2, <1>3

\* Steps that leave every row and version alone.
LEMMA DestinedSame ==
    ASSUME Typed, Copies, NEW f \in [Nat -> Devices], Placed(f), Fresh(f), Moves(Owner(f)),
           Placed(f)', row' = row, remote'[None] = remote[None],
           \A e \in Devices : version(e)' = version(e),
           NEW x, x = Owner(f), Moves(x)'
    PROVE  Destined'
  <1>1. newest' = newest /\ newest.home \in Devices
    BY OwnerIsHome DEF newest
  <1>2. Owner(f)' = Owner(f) /\ Fresh(f)'
    BY <1>1, OwnerFrame
  <1> QED BY <1>2, DestinedBy

\* Backups made, deleted and exchanged.
LEMMA DestinedPaks ==
    ASSUME Typed, Copies, NEW f \in [Nat -> Devices], Placed(f), Fresh(f), Moves(Owner(f)),
           InOrder', clash \subseteq clash', NEW d \in Devices,
           \/ Backup(d) \/ Migrate(d) \/ BackupDelete(d)
           \/ PushBackups(d) \/ Pull(d) \/ SyncFails(d)
           \/ \E w \in Devices : ApplyBackup(d, w)
    PROVE  Destined'
  <1>1. Orderly'
    BY DEF InOrder, Orderly
  <1>2. Placed(f)'
    BY <1>1, PlacedPaks, PlacedPushBackups, PlacedPull, PlacedApplyBackup
  <1>x. PICK x \in Devices : x = Owner(f)
    BY OwnerIsHome
  <1>3. Owns(x)
    BY <1>x, PlacedOwns
  <1>4. Moves(x)'
    BY <1>x, <1>3, MovesCreate, MovesDelete, MovesPushBackups, MovesStore
  <1>5. row' = row /\ remote'[None] = remote[None] /\ \A e \in Devices : version(e)' = version(e)
    <2>1. CASE Backup(d) \/ Migrate(d) \/ BackupDelete(d) \/ Pull(d) \/ SyncFails(d)
      BY <2>1 DEF Backup, Migrate, Create, BackupDelete, Pull, SyncFails, exchange, app, version
    <2>2. CASE PushBackups(d) \/ \E w \in Devices : ApplyBackup(d, w)
      BY <2>2, OnlyBackups
    <2> QED BY <2>1, <2>2
  <1> QED BY <1>x, <1>2, <1>4, <1>5, DestinedSame

\* Runs, the ends of commands and what breaks off.
LEMMA DestinedEnds ==
    ASSUME Typed, Copies, NEW f \in [Nat -> Devices], Placed(f), Fresh(f), Moves(Owner(f)),
           InOrder', clash \subseteq clash', NEW d \in Devices,
           RunStart(d) \/ RunEnd(d) \/ Park(d) \/ ClaimOnly(d) \/ Dies(d)
    PROVE  Destined'
  <1>2. Placed(f)'
    BY PlacedEnd
  <1>x. PICK x \in Devices : x = Owner(f)
    BY OwnerIsHome
  <1>3. Owns(x)
    BY <1>x, PlacedOwns
  <1>4. Moves(x)'
    BY <1>x, <1>3, MovesRunStart, MovesRunEnd, MovesPark, MovesEnd
  <1>5. row' = row /\ remote' = remote /\ seen' = seen
    BY DEF RunStart, RunEnd, Park, ClaimOnly, Dies, app, exchange
  <1>6. \A e \in Devices : version(e)' = version(e)
    BY <1>5 DEF version
  <1> QED BY <1>x, <1>2, <1>4, <1>5, <1>6, DestinedSame

\* Every step keeps the app on its way.
LEMMA DestinedKept == Typed /\ Copies /\ Destined /\ [Next]_vars => Destined'
  <1> SUFFICES ASSUME Typed, Copies, Destined, [Next]_vars, InOrder'
               PROVE  Destined'
    BY DEF Destined
  <1>c. clash \subseteq clash'
    BY ClashGrows
  <1>1. InOrder
    BY <1>c DEF InOrder
  <1>2. PICK f \in [Nat -> Devices] : Placed(f) /\ Fresh(f) /\ Moves(Owner(f))
    BY <1>1 DEF Destined
  <1>3. CASE UNCHANGED vars
    <2>1. UNCHANGED <<row, pkg, held, pend, seen, remote, cmd>>
      BY <1>3 DEF vars
    <2>2. Placed(f)'
      BY <1>2, <2>1, PlacedFrame
    <2>x. PICK x \in Devices : x = Owner(f)
      BY <1>2, OwnerIsHome
    <2>3. /\ UNCHANGED <<row, running, live, dropped, writes, cmd, moving, held, seen, remote,
                         pend>>
          /\ clash' = clash
      BY <1>3 DEF vars
    <2>4. Moves(x)'
      <3>1. \A e \in Devices : row'[e].home = e /\ running'[e] = "live" => moving[e] = 0
        BY <1>2, <2>x, <2>3 DEF Moves, Home
      <3>2. Kept' = Kept /\ (Home(x) => row'[x].home = x)
        BY <2>3 DEF Kept, Home
      <3> QED BY <1>2, <2>x, <2>3, <3>1, <3>2, MovesFrame
    <2>5. \A e \in Devices : version(e)' = version(e)
      BY <2>1 DEF version
    <2> QED BY <1>2, <2>1, <2>2, <2>x, <2>4, <2>5, DestinedSame
  <1>4. ASSUME NEW d \in Devices, Command(d) \/ Carry(d)
        PROVE  Destined'
    BY <1>2, <1>4, <1>c, DestinedStamps, DestinedPaks, DestinedRestores, DestinedEnds
    DEF Command, Carry
  <1>5. ASSUME NEW d \in Devices, RunStart(d) \/ RunEnd(d) \/ SyncFails(d)
        PROVE  Destined'
    BY <1>2, <1>5, <1>c, DestinedEnds, DestinedPaks
  <1>6. ASSUME NEW d \in Devices, Sync(d)
        PROVE  Destined'
    BY <1>2, <1>6, <1>c, DestinedRows, DestinedPaks, DestinedRestores DEF Sync, Apply
  <1> QED BY <1>3, <1>4, <1>5, <1>6 DEF Next

\* At first the app is where it was placed.
LEMMA DestinedInit == Init => Destined
  <1> SUFFICES ASSUME Init, InOrder
               PROVE  \E f \in [Nat -> Devices] : Placed(f) /\ Fresh(f) /\ Moves(Owner(f))
    BY DEF Destined
  <1>t. Typed
    BY TypedInit
  <1>1. Orderly
    BY DEF InOrder, Orderly
  <1>2. PICK f \in [Nat -> Devices] : Placed(f)
    BY <1>1, PlacedInit DEF Placements
  <1>3. PICK home \in Keys, new \in SUBSET Devices :
         /\ home \notin new
         /\ row = [d \in Devices |-> IF d \in new THEN NoRow ELSE Row(home, 1, FALSE)]
         /\ remote = [k \in Keys |->
              [obj |-> IF k = None THEN Row(home, 1, FALSE) ELSE NoPak, by |-> None]]
    BY DEF Init
  <1>4. newest.home = home /\ \A d \in Devices : row[d] # NoRow => row[d].home = home
    BY <1>3, AppHomeAssumption DEF newest, Keys, Row
  <1>5. home \in Devices
    BY <1>2, <1>4, <1>t, OwnerIsHome
  <1>6. \A d \in Devices : ~(Handing(f, d) /\ row[d] # NoRow)
    <2>1. \A d \in Devices : Handing(f, d) => d = newest.home
      BY <1>2, <1>t, OwnersAgree
    <2> QED BY <1>4, <2>1 DEF Handing
  <1>7. Fresh(f) /\ Owner(f) = home
    BY <1>4, <1>5, <1>6 DEF Fresh, Owner
  <1>8. Home(home)
    BY <1>3, <1>5 DEF Home, Row
  <1>9. /\ \A d \in Devices : moving[d] = 0 /\ cmd[d][1] = "idle" /\ running[d] = "no"
        /\ writes = 0
    BY DEF Init
  <1>10. Kept = {}
    BY <1>9 DEF Kept
  <1>11. Moves(home)
    BY <1>5, <1>8, <1>9, <1>10 DEF Moves, Has
  <1> QED BY <1>2, <1>7, <1>11

\* When there is nothing left to exchange, the backup of a migration is applied.
LEMMA QuietArrives ==
    ASSUME Typed, Copies, Quiet, NEW c \in Devices, NEW x \in Devices, c # x
    PROVE  Arrived(c, x)
  <1>t. /\ seen[x][c] \in Nat /\ seen[c][c] \in Nat /\ remote[c].obj.t \in Nat
        /\ held[c][c].t \in Nat /\ NoPak.t = 0
    BY PakTimes
  <1>1. /\ remote[c].by = c \/ remote[c].obj = NoPak
        /\ remote[c].obj.t <= held[c][c].t /\ seen[c][c] = remote[c].obj.t
        /\ seen[x][c] <= remote[c].obj.t
    BY DEF Copies, Pushed, Followed
  <1>2. held[c][c].t = remote[c].obj.t
    <2>1. held[c][c].t <= seen[c][c]
      BY DEF Quiet
    <2> QED BY <1>1, <1>t, <2>1
  <1>3. remote[c].by = x \/ ~(remote[c].obj.t > seen[x][c])
    <2>1. c \notin Newer(x) /\ c \in Keys
      BY DEF Quiet, Keys
    <2> QED BY <2>1 DEF Newer
  <1>4. CASE remote[c].by = c
    BY <1>1, <1>2, <1>3, <1>4, <1>t DEF Arrived
  <1>5. CASE remote[c].obj = NoPak
    BY <1>1, <1>2, <1>5, <1>t DEF Arrived
  <1> QED BY <1>1, <1>4, <1>5

\* A migration arrives, whatever breaks off.
LEMMA DestinedArrives == Typed /\ Copies /\ Destined => Arrives
  <1> SUFFICES ASSUME Typed, Copies, Destined, Quiet, InOrder, NEW d \in Devices
               PROVE  moving[d] = 0
    BY DEF Arrives, InOrder
  <1>1. PICK f \in [Nat -> Devices] : Placed(f) /\ Moves(Owner(f))
    BY DEF Destined
  <1>x. PICK x \in Devices : x = Owner(f)
    BY <1>1, OwnerIsHome
  <1>2. CASE d # x
    BY <1>1, <1>x, <1>2 DEF Moves
  <1>3. CASE d = x /\ Has(x)
    BY <1>3 DEF Has
  <1>4. ASSUME d = x, NEW c \in Devices, Underway(c, x) PROVE moving[d] = 0
    <2>1. c # x
      BY <1>4 DEF Underway, Carried
    <2> QED BY <1>4, <2>1, QuietArrives DEF Underway
  <1> QED BY <1>1, <1>x, <1>2, <1>3, <1>4 DEF Moves

\* The home that waits for no migration has all the data.
LEMMA DestinedHas == Typed /\ Copies /\ Destined => HomeHasData
  <1> SUFFICES ASSUME Typed, Copies, Destined, clash = {}, NEW d \in Devices, Home(d),
                      moving[d] = 0
               PROVE  Kept \subseteq live[d]
    BY DEF HomeHasData, Kept
  <1>1. PICK f \in [Nat -> Devices] : Placed(f) /\ Moves(Owner(f))
    BY DEF Destined, InOrder
  <1>x. PICK x \in Devices : x = Owner(f)
    BY <1>1, OwnerIsHome
  <1>2. d = x /\ Has(x)
    BY <1>1, <1>x, PlacedOwns, HomeHas
  <1> QED BY <1>2 DEF Has

\* The inductive invariant of the two theorems.
Balanced == Typed /\ Copies /\ Destined /\ (Shipping => Synced)

\* It holds from the start on.
LEMMA BalancedAlways == Spec => []Balanced
  <1>1. Init => Balanced
    BY TypedInit, CopiesInit, DestinedInit, SyncedInit DEF Balanced
  <1>2. Balanced /\ [Next]_vars => Balanced'
    BY TypedNext, CopiesKept, DestinedKept, SyncedKept DEF Balanced
  <1> QED BY <1>1, <1>2, PTL DEF Spec

\* "A device that misses an app/ update heals on the next pull": when there is nothing left
\* to push or pull, the devices agree on the home and every migration has arrived, but for
\* what Heals and Arrives name.
THEOREM QuietMeansSettled == Spec => []Settled
  <1>1. Balanced => Settled
    BY TypesOK, SyncedHeals, DestinedArrives DEF Balanced, Settled
  <1> QED BY <1>1, BalancedAlways, PTL

\* Where the app lives it has all the data that its runs wrote on any device, once the
\* migration's backup is there, but for what was given up.
THEOREM HomeKeepsData == Spec => []HomeHasData
  <1>1. Balanced => HomeHasData
    BY DestinedHas DEF Balanced
  <1> QED BY <1>1, BalancedAlways, PTL
==============================================================================
