----------------------------- MODULE GuestCalls -----------------------------
(***************************************************************************)
(* Capability tokens and the calls made with them: crates/pai-share/src/   *)
(* lib.rs and guest.rs, the commands that mint, delegate, revoke and use   *)
(* tokens (apps/cli/src/cmds/apps.rs, crates/pai-ffi/src/lib.rs) and the   *)
(* operations a guest may run (crates/pai-apps/src/run.rs).                *)
(*                                                                         *)
(* A token names the actions it grants on one app, the key it is bound to, *)
(* its expiry and, when it was delegated, its parent.  A guest pushes a    *)
(* request object and polls for the answer; the host verifies, runs,       *)
(* answers and deletes, and remembers nothing.  There is one app; the key  *)
(* of a device stands for the device.                                      *)
(***************************************************************************)
EXTENDS Naturals, Sequences, FiniteSets

CONSTANTS
    Device,      \* the devices
    Host,        \* the one whose owner shares the app
    PairedWith,       \* PairedWith[d]: the devices d is paired with
    Bearer,      \* no key: whoever holds the token may use it
    Call,        \* the calls
    NoCall,      \* no call: none is being served
    Ops,         \* the operations asked for over FFI, see OpAction
    Expiries,    \* the expiry times commands give
    MaxTokens,   \* bound: tokens minted
    Timeout,     \* how long a guest waits
    Margin,      \* what is added to it for the expiry of the request
    MaxTime,     \* bound: the clock
    MaxFaults    \* bound: failed transport calls and restarts

VARIABLES
    clock,
    caps,      \* the tokens minted, each with where it came from
    revoked,   \* tokens with a tombstone, in the store of their issuer
    from, tok, op, path, to,  \* of each call: who, with which token, what
    pc,        \* pc[c]: where the guest of c is
    deadline,  \* deadline[c]: when it gives up
    req,       \* the calls whose request object is on the transport
    res,       \* res[c]: the response object of c
    at, scan, cur, said,  \* of each device that serves: where its pass is,
               \* the requests listed, the one in hand and the answer to it
    runs,      \* runs[c]: how often the operation of c was carried out
    faults     \* failed transport calls and restarts so far

request == <<from, tok, op, path, to, deadline>>
server == <<at, scan, cur, said>>
tokens == <<caps, revoked>>
vars == <<clock, tokens, request, pc, req, res, server, runs, faults>>

Keys == Device \cup {Bearer}

\* What each operation needs; any other is refused.
OpAction ==
    [x \in {"app-run", "app-read", "app-write"} |->
        CASE x = "app-run" -> "exec"
          [] x = "app-read" -> "read"
          [] x = "app-write" -> "write"]
Actions == {"read", "write", "share"}

Cap(actions, key, exp, by, up) ==
    [actions |-> actions, key |-> key, exp |-> exp, by |-> by, up |-> up]

InitAt(t) ==
    /\ clock = t
    /\ caps = <<>> /\ revoked = {}
    /\ from = [c \in Call |-> Host] /\ tok = [c \in Call |-> 0]
    /\ op = [c \in Call |-> "app-run"] /\ path = [c \in Call |-> "data"]
    /\ to = [c \in Call |-> Host]
    /\ pc = [c \in Call |-> "new"]
    /\ deadline = [c \in Call |-> 0]
    /\ req = {}
    /\ res = [c \in Call |-> "none"]
    /\ at = [d \in Device |-> "idle"] /\ scan = [d \in Device |-> {}]
    /\ cur = [d \in Device |-> NoCall] /\ said = [d \in Device |-> "none"]
    /\ runs = [c \in Call |-> 0]
    /\ faults = 0
Init == InitAt(0)

Fault == faults < MaxFaults /\ faults' = faults + 1

-----------------------------------------------------------------------------
(* Tokens.                                                                 *)

Mint(cap) ==
    /\ Len(caps) < MaxTokens
    /\ caps' = Append(caps, cap)
    /\ UNCHANGED <<clock, revoked, request, pc, req, res, server, runs, faults>>

\* Sensitivity variant of Grant: a token for no action at all.
GrantEmpty(d, actions, key, exp) ==
    exp > clock /\ Mint(Cap(actions, key, exp, d, 0))

\* ShareStore::grant: some action, an expiry in the future.
Grant(d, actions, key, exp) ==
    /\ actions # {} /\ exp > clock
    /\ Mint(Cap(actions, key, exp, d, 0))

\* `pai apps share': a key is that of a paired device.
Share(d, actions, key, exp) ==
    /\ key = Bearer \/ key \in PairedWith[d]
    /\ Grant(d, actions, key, exp)

\* pai_share_grant: the same, for a day at least.
ShareFfi(d, actions, key, exp) ==
    /\ key \in PairedWith[d] \cup {Bearer}
    /\ \E e \in Expiries : e >= exp /\ Grant(d, actions, key, e)

\* What delegate asks of a sub-token; it looks at no tombstone and no clock.
Narrows(p, actions, exp) ==
    /\ "share" \in caps[p].actions
    /\ actions \subseteq caps[p].actions
    /\ exp <= caps[p].exp

\* ShareStore::delegate.
Delegate(d, p, actions, key, exp) ==
    /\ caps[p].key # Bearer
    /\ actions # {}
    /\ Narrows(p, actions, exp)
    /\ Mint(Cap(actions, key, exp, d, p))

\* `pai apps delegate', on the device the parent is bound to.
DelegateCli(d, p, actions, key, exp) ==
    /\ caps[p].key = d
    /\ key \in Keys \ {d}
    /\ Delegate(d, p, actions, key, exp)

\* pai_share_delegate: without a number of days, the expiry of the parent.
DelegateFfi(d, p, actions, key, exp) ==
    /\ caps[p].key = d
    /\ key \in Keys \ {d}
    /\ \/ exp > clock /\ Delegate(d, p, actions, key, exp)
       \/ Delegate(d, p, actions, key, caps[p].exp)

\* ShareStore::list: the tokens in the store of d.
Listed(d) == {t \in 1 .. Len(caps) : caps[t].by = d}

\* ShareStore::revoke.
Tombstone(t) ==
    /\ revoked' = revoked \cup {t}
    /\ UNCHANGED <<clock, caps, request, pc, req, res, server, runs, faults>>

\* `pai apps revoke' finds the token in the list, pai_share_revoke its file.
RevokeCli(d, t) == t \in Listed(d) /\ Tombstone(t)
RevokeFfi(d, t) == caps[t].by = d /\ Tombstone(t)

MintStep ==
    \/ \E actions \in SUBSET Actions, key \in Keys, exp \in Expiries :
          Share(Host, actions, key, exp) \/ ShareFfi(Host, actions, key, exp)
    \/ \E d \in Device \ {Host}, p \in DOMAIN caps, actions \in SUBSET Actions,
          key \in Keys, exp \in Expiries :
          \/ DelegateCli(d, p, actions, key, exp)
          \/ DelegateFfi(d, p, actions, key, exp)

RevokeStep ==
    \E d \in Device, t \in DOMAIN caps : RevokeCli(d, t) \/ RevokeFfi(d, t)

-----------------------------------------------------------------------------
(* The guest.                                                              *)

Root ==
    LET root[t \in 0 .. Len(caps)] ==
            IF t = 0 \/ caps[t].up = 0 THEN t ELSE root[caps[t].up]
    IN root

\* call_guest: the request, signed by the caller when the token is bound.
Send(c, d, t, o, p, s) ==
    /\ from' = [from EXCEPT ![c] = d] /\ tok' = [tok EXCEPT ![c] = t]
    /\ op' = [op EXCEPT ![c] = o] /\ path' = [path EXCEPT ![c] = p]
    /\ to' = [to EXCEPT ![c] = s]
    /\ deadline' = [deadline EXCEPT ![c] = clock + Timeout]
    /\ req' = req \cup {c}

\* The push may fail; a failed push may have stored the object.
Ask(c, d, t, o, p, s) ==
    /\ pc[c] = "new"
    /\ clock + Timeout + Margin < MaxTime      \* bound: it can expire
    /\ Send(c, d, t, o, p, s)
    /\ \/ pc' = [pc EXCEPT ![c] = "poll"] /\ UNCHANGED faults
       \/ pc' = [pc EXCEPT ![c] = "error"] /\ Fault
    /\ UNCHANGED <<clock, tokens, res, server, runs>>

\* `--on' names a paired device, or `any': the issuer of the root.
AskCli(c, d, t, o, p, s) ==
    /\ s = caps[Root[t]].by \/ s \in PairedWith[d]
    /\ Ask(c, d, t, o, p, s)

\* `pai apps read' and `pai apps write' with a token.
ReadCli(c, d, t, p, s) == AskCli(c, d, t, "app-read", p, s)
WriteCli(c, d, t, p, s) == AskCli(c, d, t, "app-write", p, s)

\* pai_guest_call: a token bound to another device is not sent.
AskFfi(c, d, t, o, p, s) ==
    /\ caps[t].key \in {Bearer, d}
    /\ s = caps[Root[t]].by \/ s \in PairedWith[d]
    /\ Ask(c, d, t, o, p, s)

\* The answer is pulled and deleted, and then opened.
Open(c) ==
    /\ pc[c] = "poll" /\ clock <= deadline[c]
    /\ res[c] # "none"
    /\ pc' = [pc EXCEPT ![c] = res[c]]
    /\ \/ res' = [res EXCEPT ![c] = "none"] /\ UNCHANGED faults
       \/ UNCHANGED res /\ Fault
    /\ UNCHANGED <<clock, tokens, request, req, server, runs>>

\* A pull that fails ends the call, and so does the end of the process.
PollFails(c) ==
    /\ pc[c] = "poll" /\ Fault
    /\ pc' = [pc EXCEPT ![c] = "error"]
    /\ UNCHANGED <<clock, tokens, request, req, res, server, runs>>

\* Sensitivity variant of GiveUp: the deadline matters once there is an answer.
GiveUpLate(c) ==
    /\ pc[c] = "poll" /\ clock > deadline[c] /\ res[c] # "none"
    /\ pc' = [pc EXCEPT ![c] = "timeout"]
    /\ UNCHANGED <<clock, tokens, request, req, res, server, runs, faults>>

GiveUp(c) ==
    /\ pc[c] = "poll" /\ clock > deadline[c]
    /\ pc' = [pc EXCEPT ![c] = "timeout"]
    /\ UNCHANGED <<clock, tokens, request, req, res, server, runs, faults>>

GuestStep(c) ==
    \/ \E d \in Device \ {Host}, t \in DOMAIN caps,
          p \in {"files", "data", "outside"}, s \in Device :
          \/ ReadCli(c, d, t, p, s) \/ WriteCli(c, d, t, p, s)
          \/ \E o \in Ops : AskFfi(c, d, t, o, p, s)
    \/ Open(c) \/ PollFails(c) \/ GiveUp(c)

-----------------------------------------------------------------------------
(* The host: one pass over the requests after the other.                   *)

\* ShareStore::verify in the store of s: the signature is that of the issuer.
Verify(s, t, key, action) ==
    /\ action \in caps[t].actions
    /\ t \notin revoked \cap Listed(s)
    /\ caps[t].exp > clock
    /\ key = caps[t].by

\* GuestServer::issuer_pubkey: this device or one it is paired with.
Issuers(s) == {s} \cup PairedWith[s]

\* Sensitivity variants of VerifyChain: a sub-token must end before its parent;
\* the parent itself is not verified.
VerifyChainStrict(s, t, action) ==
    LET ok[i \in 1 .. t] ==
            IF caps[i].up = 0
            THEN caps[i].by \in Issuers(s) /\ Verify(s, i, caps[i].by, action)
            ELSE LET p == caps[caps[i].up] IN
                 /\ "share" \in p.actions /\ caps[i].actions \subseteq p.actions
                 /\ caps[i].exp < p.exp /\ p.key # Bearer
                 /\ Verify(s, i, p.key, action)
                 /\ ok[caps[i].up]
    IN ok[t]

VerifyChainChild(s, t, action) ==
    IF caps[t].up = 0
    THEN caps[t].by \in Issuers(s) /\ Verify(s, t, caps[t].by, action)
    ELSE LET p == caps[caps[t].up] IN
         /\ "share" \in p.actions /\ caps[t].actions \subseteq p.actions
         /\ caps[t].exp <= p.exp /\ p.key # Bearer
         /\ Verify(s, t, p.key, action)

\* ShareStore::verify_chain.
VerifyChain(s, t, action) ==
    LET ok[i \in 1 .. t] ==
            IF caps[i].up = 0
            THEN caps[i].by \in Issuers(s) /\ Verify(s, i, caps[i].by, action)
            ELSE LET p == caps[caps[i].up] IN
                 /\ "share" \in p.actions /\ caps[i].actions \subseteq p.actions
                 /\ caps[i].exp <= p.exp /\ p.key # Bearer
                 /\ Verify(s, i, p.key, action)
                 /\ ok[caps[i].up]
    IN ok[t]

\* GuestServer::verify: a bound token comes with a signature of its key.
GuestVerify(s, c) ==
    /\ caps[tok[c]].key \in {Bearer, from[c]}
    /\ VerifyChain(s, tok[c], OpAction[op[c]])

\* jailed_path, app_read_op, app_write_op: the package may be read only.
Jail == [x \in DOMAIN OpAction |->
            CASE x = "app-run" -> {"files", "data", "outside"}
              [] x = "app-read" -> {"files", "data"}
              [] x = "app-write" -> {"data"}]
GuestHandler(o, p) == p \in Jail[o]

Reset(s) ==
    /\ at' = [at EXCEPT ![s] = "idle"] /\ scan' = [scan EXCEPT ![s] = {}]
    /\ cur' = [cur EXCEPT ![s] = NoCall] /\ said' = [said EXCEPT ![s] = "none"]

Mine(s) == {c \in req : to[c] = s}

Pass(s) ==
    /\ at[s] = "idle" /\ Mine(s) # {}
    /\ at' = [at EXCEPT ![s] = "scan"]
    /\ scan' = [scan EXCEPT ![s] = Mine(s)]
    /\ UNCHANGED <<clock, tokens, request, pc, req, res, cur, said, runs, faults>>

\* Best-effort delete of a request.
DropRequest(c) ==
    \/ req' = req \ {c} /\ UNCHANGED faults
    \/ UNCHANGED req /\ Fault

\* Sensitivity variant of Drop: an expired request stays where it is.
DropNothing(s, c) ==
    /\ at[s] = "scan" /\ c \in scan[s]
    /\ clock > deadline[c] + Margin
    /\ scan' = [scan EXCEPT ![s] = @ \ {c}]
    /\ UNCHANGED <<clock, tokens, request, pc, req, res, at, cur, said, runs,
                   faults>>

Drop(s, c) ==
    /\ at[s] = "scan" /\ c \in scan[s]
    /\ clock > deadline[c] + Margin
    /\ scan' = [scan EXCEPT ![s] = @ \ {c}]
    /\ DropRequest(c)
    /\ UNCHANGED <<clock, tokens, request, pc, res, at, cur, said, runs>>

\* Sensitivity variant of Run: every verified request is answered with success.
RunYes(s, c) ==
    /\ at[s] = "scan" /\ c \in scan[s]
    /\ clock <= deadline[c] + Margin
    /\ scan' = [scan EXCEPT ![s] = @ \ {c}]
    /\ at' = [at EXCEPT ![s] = "answer"] /\ cur' = [cur EXCEPT ![s] = c]
    /\ runs' = [runs EXCEPT ![c] = IF GuestVerify(s, c)
                                      /\ GuestHandler(op[c], path[c])
                                   THEN @ + 1 ELSE @]
    /\ said' = [said EXCEPT ![s] = IF GuestVerify(s, c) THEN "ok" ELSE "refused"]
    /\ UNCHANGED <<clock, tokens, request, pc, req, res, faults>>

\* Verify and, without a pause, run; either way there is an answer.  What runs
\* may fail (no such file, an app that traps or is not installed).
Run(s, c) ==
    /\ at[s] = "scan" /\ c \in scan[s]
    /\ clock <= deadline[c] + Margin
    /\ scan' = [scan EXCEPT ![s] = @ \ {c}]
    /\ at' = [at EXCEPT ![s] = "answer"] /\ cur' = [cur EXCEPT ![s] = c]
    /\ IF GuestVerify(s, c) /\ GuestHandler(op[c], path[c])
       THEN /\ runs' = [runs EXCEPT ![c] = @ + 1]
            /\ \E r \in {"ok", "refused"} : said' = [said EXCEPT ![s] = r]
       ELSE /\ said' = [said EXCEPT ![s] = "refused"]
            /\ UNCHANGED runs
    /\ UNCHANGED <<clock, tokens, request, pc, req, res, faults>>

Answer(s) ==
    /\ at[s] = "answer"
    /\ at' = [at EXCEPT ![s] = "delete"]
    /\ res' = [res EXCEPT ![cur[s]] = said[s]]
    /\ UNCHANGED <<clock, tokens, request, pc, req, scan, cur, said, runs, faults>>

\* Sensitivity variant of Delete: the request is left to its expiry.
DeleteNot(s) ==
    /\ at[s] = "delete"
    /\ at' = [at EXCEPT ![s] = "scan"]
    /\ cur' = [cur EXCEPT ![s] = NoCall] /\ said' = [said EXCEPT ![s] = "none"]
    /\ UNCHANGED <<clock, tokens, request, pc, req, res, scan, runs, faults>>

Delete(s) ==
    /\ at[s] = "delete"
    /\ at' = [at EXCEPT ![s] = "scan"]
    /\ cur' = [cur EXCEPT ![s] = NoCall] /\ said' = [said EXCEPT ![s] = "none"]
    /\ DropRequest(cur[s])
    /\ UNCHANGED <<clock, tokens, request, pc, res, scan, runs>>

EndPass(s) ==
    /\ at[s] = "scan" /\ scan[s] = {}
    /\ Reset(s)
    /\ UNCHANGED <<clock, tokens, request, pc, req, res, runs, faults>>

\* A pull or the push of the answer fails, or the process is restarted: the
\* pass is over, wherever it is, and the requests are still there.
PassFails(s) ==
    /\ at[s] # "idle" /\ Fault
    /\ Reset(s)
    /\ UNCHANGED <<clock, tokens, request, pc, req, res, runs>>

ServeGuests(s) ==
    \/ Pass(s) \/ Answer(s) \/ Delete(s) \/ EndPass(s)
    \/ \E c \in Call : Drop(s, c) \/ Run(s, c)

Tick ==
    /\ clock < MaxTime
    /\ clock' = clock + 1
    /\ UNCHANGED <<tokens, request, pc, req, res, server, runs, faults>>

UseStep ==
    \/ RevokeStep
    \/ \E c \in Call : GuestStep(c)
    \/ \E s \in Device : ServeGuests(s) \/ PassFails(s)
    \/ Tick

Next == MintStep \/ UseStep

\* The guest polls, the serving devices pass over the requests, time passes.
Fairness ==
    /\ \A c \in Call : WF_vars(Open(c)) /\ WF_vars(GiveUp(c))
    /\ \A s \in Device : WF_vars(ServeGuests(s))
    /\ WF_vars(Tick)

Spec == Init /\ [][Next]_vars
FairSpec == Spec /\ Fairness
-----------------------------------------------------------------------------
TypeOK ==
    /\ clock \in 0 .. MaxTime /\ faults \in 0 .. MaxFaults
    /\ \A t \in DOMAIN caps :
          /\ caps[t].actions # {} /\ caps[t].actions \subseteq Actions
          /\ caps[t].key \in Keys /\ caps[t].exp \in Nat /\ caps[t].by \in Device
          /\ caps[t].up \in 0 .. t - 1
    /\ revoked \subseteq DOMAIN caps /\ req \subseteq Call
    /\ \A c \in Call :
          /\ pc[c] \in {"new", "poll", "ok", "refused", "timeout", "error"}
          /\ res[c] \in {"none", "ok", "refused"}
          /\ pc[c] # "new" => tok[c] \in DOMAIN caps
    /\ \A s \in Device :
          /\ at[s] \in {"idle", "scan", "answer", "delete"}
          /\ cur[s] \in Call <=> at[s] \in {"answer", "delete"}
          /\ scan[s] \subseteq Call

\* A token and the ones it was delegated from.
Chain ==
    LET chain[t \in 0 .. Len(caps)] ==
            IF t = 0 THEN {} ELSE {t} \cup chain[caps[t].up]
    IN chain

\* What the commands mint is honoured: at the device of the root, every action
\* of a token, however often delegated, passes verify_chain until one of its
\* line is revoked there or expires.  The rules of delegate and those of
\* verify_chain are written twice in the code.
MintedWorks ==
    \A t \in DOMAIN caps : \A a \in caps[t].actions :
        (\A u \in Chain[t] : caps[u].exp > clock
                             /\ u \notin revoked \cap Listed(Host))
        => VerifyChain(Host, t, a)

\* A guest never gets more than every link of the chain grants: nothing runs
\* with an action one of them lacks, after the first of them expired, or on a
\* device where one of them was revoked before, however the sub-tokens were
\* minted and however late the request is served ("guests holding it are
\* refused on next request").
WithinGrant ==
    [][\A c \in Call : runs'[c] # runs[c] =>
          \A t \in Chain[tok[c]] :
              /\ OpAction[op[c]] \in caps[t].actions
              /\ clock < caps[t].exp
              /\ ~(t \in revoked /\ caps[t].by = to[c])]_vars

\* The host keeps no record of what it served: it runs a request again, but
\* only when a push, a delete or the process failed before.
RunsOnce == \A c \in Call : runs[c] <= 1 + faults

\* What a guest is told was done was done, for it.
OkMeansRun == \A c \in Call : pc[c] = "ok" => runs[c] > 0

\* What guests rely on: a minted token is honoured, an answer tells what was
\* done, and nothing is done twice unless something failed on the way.
GuestsServed == TypeOK /\ MintedWorks /\ RunsOnce /\ OkMeansRun

\* Every call ends; every request is answered or dropped in the end.
GuestsEnd == \A c \in Call : pc[c] = "poll" ~> pc[c] # "poll"
RequestsGone == \A c \in Call : c \in req ~> c \notin req
=============================================================================
