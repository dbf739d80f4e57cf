---------------------------- MODULE MCSyncEngine ----------------------------
(* Small instances of SyncEngine: one row of any kind but memory/, or one    *)
(* memory, which is written once unless edits are handed off.                *)
EXTENDS SyncEngine, TLC

CONSTANTS a, b, a1, a2, b1

\* One sync process per device, named after it.
OneProcEach == [p \in Proc |-> p]

\* Two sync processes on a (a timer's and the task runner's), one on b.
TwoOnA == (a1 :> a) @@ (a2 :> a) @@ (b1 :> b)

\* The two processes on a are interchangeable.
SameDevice == Permutations({a1, a2})

\* Rows of different keys do not touch each other: one is used at a time.
OneRow ==
    /\ Cardinality({j \in Key : latest[j] # NoRow}) <= 1
    /\ ~handoff => \A j \in Memory : latest[j] # NoRow => edits <= 1

\* Where edits are handed off, the processes of a device follow one another, and
\* none dies between a row and its mirror.
Calm == handoff => OneAtATime' /\ OrderlyAborts

MCSpec == Init /\ [][Next /\ OneRow' /\ Calm]_vars
=============================================================================
