---------------------------- MODULE MCBrokerCalls ----------------------------
(* Small instances of BrokerCalls, GuestCalls and ModelStream: a call       *)
(* between paired devices, tokens and the calls of guests, or the calls of  *)
(* one run to its model (`focus').                                          *)
EXTENDS BrokerHost, TLC

CONSTANTS h, g, k    \* the host, a device paired with it, one that is not

VARIABLE focus

\* Prose short and long, objects in one line and in two, tool calls whole and
\* cut short, and prose with either after it.
Writings ==
    {<<{"hm"}>>, <<{"lead"}, {"a"}>>, <<{"hm", "head", "a"}, {"b", "tail"}>>,
     <<{"head", "a", "b", "tail"}>>, <<{"lead"}, {"head", "a", "tail"}>>,
     <<{"fn"}, {"args"}>>, <<{"fn"}>>, <<{"lead"}, {"fn"}>>}

Pairings == h :> {g} @@ g :> {h, k} @@ k :> {g}

\* Three tokens in a row and no call, or a call with the last of two.
MCGuestNext ==
    /\ \/ gclock = 0 /\ (\A c \in Calls : gpc[c] = "new") /\ G!MintStep
       \/ G!UseStep
    /\ Len(caps') = 3 => gclock' = 0 /\ revoked = {}
    /\ \A t \in DOMAIN caps' : caps'[t].up = t - 1
    /\ \A t \in DOMAIN caps' : "read" \in caps'[t].actions =>
          Len(caps') = 1 /\ caps'[t].actions = {"read"}
    /\ \A c \in Calls : gpc'[c] # "new" =>
          /\ Len(caps) < 3 /\ tok'[c] = Len(caps)
          /\ tok'[c] = 2 => caps[1].exp = 2 /\ caps[1].actions = {"write", "share"}
          /\ path'[c] # "outside" /\ to'[c] # k
          /\ tok'[c] = 2 => path'[c] = "data" /\ to'[c] = h /\ op'[c] = "app-write"

\* The side out of focus has nothing to do and no time left.
MCInit ==
    /\ focus \in {"peer", "guest", "model"}
    /\ InitAt(IF focus = "peer" THEN 0 ELSE MaxTime)
    /\ G!InitAt(IF focus = "guest" THEN 0 ELSE GuestTime)
    /\ Chat!Init /\ (focus # "model" => source = "server" /\ streams)
MCNext ==
    /\ focus' = focus
    /\ \/ focus = "peer" /\ Next /\ UNCHANGED <<gvars, mvars>>
       \/ focus = "guest" /\ MCGuestNext /\ UNCHANGED <<vars, mvars>>
       \/ focus = "model" /\ Chat!Next /\ UNCHANGED <<vars, gvars>>
\* The run goes on, its timeouts pass, and a child is killed at its deadline.
ModelFairness ==
    /\ WF_mvars(focus = "model" /\ (Chat!Begins \/ Chat!CallStep))
    /\ WF_mvars(focus = "model" /\ (Chat!Deadline \/ Chat!CaptureDeadline))
MCSpec ==
    /\ MCInit /\ [][MCNext]_<<focus, vars, gvars, mvars>>
    /\ Fairness /\ G!Fairness /\ ModelFairness

\* Every call, of a paired device, a guest or a model, ends, every request is
\* served or removed in the end, and no child process outlives its deadline.
EveryCallEnds ==
    /\ CallsEnd /\ RequestsEnd /\ G!GuestsEnd /\ G!RequestsGone
    /\ <>[](focus = "model" => Chat!Over)
=============================================================================
