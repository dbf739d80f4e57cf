----------------------------- MODULE BrokerHost -----------------------------
(* The calls that a device makes and serves: calls between paired devices    *)
(* (BrokerCalls), the tokens and calls of guests (GuestCalls, as G) and the  *)
(* calls of a run to its model (ModelStream, as Chat).                       *)
EXTENDS BrokerCalls

\* Guests make as many calls, wait as long and meet as many faults.
CONSTANTS Device, Host, PairedWith, Bearer, Ops, Expiries, MaxTokens,
    GuestMargin, GuestTime

ASSUME GuestAssumption == GuestMargin \in Nat /\ GuestTime \in Nat

VARIABLES gclock, caps, revoked, from, tok, op, path, to, gpc, gdeadline, req, res,
          at, gscan, gcur, gsaid, runs, gfaults

gvars == <<gclock, caps, revoked, from, tok, op, path, to, gpc, gdeadline, req,
           res, at, gscan, gcur, gsaid, runs, gfaults>>

G == INSTANCE GuestCalls WITH
    Call <- Calls, Margin <- GuestMargin, MaxTime <- GuestTime,
    clock <- gclock, pc <- gpc, deadline <- gdeadline, scan <- gscan,
    cur <- gcur, said <- gsaid, faults <- gfaults

CONSTANTS Replies, PipeLines
VARIABLES source, streams, call, reply, written, read, pipe, child, reader, waiter,
          queue, finished, heard, first, corrected, torn, screen, kept

mvars == <<source, streams, call, reply, written, read, pipe, child, reader,
           waiter, queue, finished, heard, first, corrected, torn, screen, kept>>

Chat == INSTANCE ModelStream

\* What guests rely on (guest.rs, capability.rs): a minted token is honoured, an
\* answer tells what was done, and nothing is done twice unless something failed
\* on the way; and what guests cannot do: go beyond what a chain of tokens allows.
GuestsServed == G!GuestsServed
WithinGrant == G!WithinGrant

\* A model's answer is kept whole or not at all, and is what the user has seen
\* (pai-inference, pai-agent).
AnswersAreWhole == Chat!AnswersAreWhole
=============================================================================
