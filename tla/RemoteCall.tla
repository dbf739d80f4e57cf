----------------------------- MODULE RemoteCall -----------------------------
(***************************************************************************)
(* What the broker promises to a device that asks a paired one to run an   *)
(* operation (crates/pai-broker): nothing runs that was not asked for, a   *)
(* call ends once, and it ends well only when a run of it has succeeded.   *)
(* How often it runs and whether a failure means that it did not run are   *)
(* left open: both are, in the program.                                    *)
(***************************************************************************)
EXTENDS Naturals

CONSTANT Calls

VARIABLES
    state,   \* state[c]: what the caller knows of call c
    ran      \* ran[c]: how many runs of c have succeeded

States == {"unasked", "refused", "open", "ok", "failed"}

Init ==
    /\ state = [c \in Calls |-> "unasked"]
    /\ ran = [c \in Calls |-> 0]

Ask(c) ==
    /\ state[c] = "unasked"
    /\ state' = [state EXCEPT ![c] = "open"]
    /\ UNCHANGED ran

\* Nothing was sent, and nothing ever runs.
Refuse(c) ==
    /\ state[c] = "unasked"
    /\ state' = [state EXCEPT ![c] = "refused"]
    /\ UNCHANGED ran

\* The peer may run it after the caller gave up.
Run(c) ==
    /\ state[c] \in {"open", "ok", "failed"}
    /\ ran' = [ran EXCEPT ![c] = @ + 1]
    /\ UNCHANGED state

Succeed(c) ==
    /\ state[c] = "open" /\ ran[c] > 0
    /\ state' = [state EXCEPT ![c] = "ok"]
    /\ UNCHANGED ran

\* A request whose sending failed may have been stored, and run, all the same.
Fail(c) ==
    /\ state[c] \in {"unasked", "open"}
    /\ state' = [state EXCEPT ![c] = "failed"]
    /\ UNCHANGED ran

Next == \E c \in Calls : 
    Ask(c) \/ Refuse(c) \/ Run(c) \/ Succeed(c) \/ Fail(c)

Spec == Init /\ [][Next]_<<state, ran>>
=============================================================================
