------------------------- MODULE MCConversationSync -------------------------
(* Small instances of what a directory carries for two devices (`focus').    *)
(*                                                                           *)
(* conversation: two messages, one from each device.                         *)
(*                                                                           *)
(* rows: a row of the kind memory/, which is edited only where its newest    *)
(* edit has arrived.  Each device runs `pai sync run' again and again: a     *)
(* push, then a pull.                                                        *)
(*                                                                           *)
(* document: a document with two sections, and a process that may die.       *)
(*                                                                           *)
(* relay: three devices push one object to a relay with two threads.         *)
(*                                                                           *)
(* target: one folder, a relay near by and two public ones to choose from.   *)
EXTENDS SyncedDirectory, TLC

CONSTANTS a, b, m1, m2

VARIABLES focus,
    turn, handoff, now, changes, memory, mirror, objects, proc, latest, aborts

rows == <<turn, handoff, now, changes, memory, mirror, objects, proc, latest, aborts>>
all == <<focus, vars, rows, dvars, rvars, tvars>>

Clients == Device \cup {m1}
EachWritesOne == (m1 :> a) @@ (m2 :> b)

Rows == INSTANCE SyncEngine WITH
    NoDevice <- m1, Proc <- Device, Dev <- [d \in Device |-> d],
    Key <- {m2}, Memory <- {m2}, Grain <- 1, Advance <- {1},
    MaxEdits <- 4, MaxAborts <- 0, folder <- objects,
    edits <- changes, row <- memory

\* What an idle device may start is up to its turn.
InTurn ==
    /\ \A d \in Device :
          proc[d] = Rows!Idle /\ proc'[d] # Rows!Idle
            => proc'[d].at = IF turn[d] = "push" THEN "push" ELSE "fetch"
    /\ turn' = [d \in Device |->
                  IF proc'[d] = Rows!Idle /\ proc[d] # Rows!Idle
                  THEN IF turn[d] = "push" THEN "pull" ELSE "push"
                  ELSE turn[d]]

OnConversation ==
    focus = "conversation" /\ UNCHANGED <<focus, rows, dvars, rvars, tvars>>
OnRows == focus = "rows" /\ UNCHANGED <<focus, vars, dvars, rvars, tvars>>
OnDocument == focus = "document" /\ UNCHANGED <<focus, vars, rows, rvars, tvars>>
OnRelay == focus = "relay" /\ UNCHANGED <<focus, vars, rows, dvars, tvars>>
OnTarget == focus = "target" /\ UNCHANGED <<focus, vars, rows, dvars, rvars>>

MCInit ==
    /\ Init /\ Rows!Init /\ handoff = TRUE /\ turn = [d \in Device |-> "push"]
    /\ D!Init /\ R!Init /\ T!Init
    /\ focus \in {"conversation", "rows", "document", "relay", "target"}
    /\ focus # "conversation" => ~replicated
MCNext ==
    \/ OnConversation /\ Next
    \/ OnRows /\ Rows!Next /\ InTurn
    \/ OnDocument /\ D!Next
    \/ OnRelay /\ R!Next
    \/ OnTarget /\ T!Next
\* What is replicated file by file need not arrive.
MCFairness ==
    /\ \A d \in Device :
        /\ WF_all(~replicated /\ OnConversation /\ Push(d))
        /\ WF_all(~replicated /\ OnConversation /\ Pull(d))
        /\ WF_all(OnRows /\ (Rows!Push(d) \/ Rows!Pull(d)) /\ InTurn)
    /\ WF_all(OnRelay /\ R!ThreadStep)
    /\ WF_all(OnRelay /\ R!Radio)
    /\ \A c \in Clients : WF_all(OnRelay /\ (R!Discover(c) \/ R!Send(c)))
MCSpec == MCInit /\ [][MCNext]_all /\ MCFairness

\* "devices converge" (lib.rs): on one shared directory, every device ends up
\* with the messages of a conversation that nobody deletes and that stays shared,
\* and shows the last edit of every row; and what paired devices push through a
\* relay is stored.
SharedNow == \E d \in Device : conv[d].sync /\ clock = conv[d].t
EverythingArrives ==
    <>[](CASE focus = "conversation" ->
                ~replicated /\ deletes = 0 /\ SharedNow
                    => \A d \in Device : msgs[d] = written
           [] focus = "rows" ->
                \A d \in Device : Rows!Visible(memory[d][m2]) = Rows!Visible(latest[m2])
           [] focus = "relay" ->
                port # 0 /\ paired = Clients => R!Stored
           [] OTHER -> TRUE)
=============================================================================
