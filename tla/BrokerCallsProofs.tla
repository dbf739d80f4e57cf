-------------------------- MODULE BrokerCallsProofs --------------------------
(***************************************************************************)
(* BrokerCalls implements RemoteCall, for any number of calls, chunks and  *)
(* faults.  The argument: a request object exists only for a call that was *)
(* made; a run is recorded as done before its response is pushed; every    *)
(* response in sight, on the transport or in hand, is that of a run        *)
(* recorded as done when it says ok.                                       *)
(*                                                                         *)
(* Then GuestCalls, for any number of devices, tokens and calls: what the  *)
(* commands mint narrows its parent link by link, verify_chain asks its    *)
(* question of every link of a chain, and a request is owed another run    *)
(* only after a failure.                                                   *)
(*                                                                         *)
(* Last ModelStream, for any replies and any size of the pipe: while no    *)
(* error is on its way, what a call was handed and what is in the channel  *)
(* are the lines taken from the model so far, and a thread that is gone    *)
(* has seen its part of the model end well.                                *)
(***************************************************************************)
EXTENDS BrokerHost, Integers, FiniteSetTheorems, WellFoundedInduction, TLAPS

Asked == PCs \ {"new", "queued", "refused"}

\* The parts of the state the argument is about have their types.
Typed ==
    /\ pc \in [Calls -> PCs]
    /\ job \in [Calls -> {"none", "queued", "running", "done", "failed"}]
    /\ bres \in [Calls -> Answers] /\ ans \in [Calls -> Answers]
    /\ said \in Answers
    /\ started \in [Calls -> Nat] /\ done \in [Calls -> SUBSET Nat]
    /\ breq \subseteq Calls /\ scan \subseteq Calls
    /\ spc \in {"idle", "scan", "run", "answer", "delete"}
    /\ emitted \in Nat /\ repush \in Nat /\ restarts \in Nat

\* Requests, listed or running, are those of calls that were made.
OnlyAsked ==
    /\ \A c \in breq \cup scan : pc[c] \in Asked
    /\ spc \in {"idle", "scan"} => cur = NoCall /\ said = NoAnswer
    /\ spc \in {"run", "answer", "delete"} => cur \in Calls /\ pc[cur] \in Asked
    /\ spc = "run" => said = NoAnswer

\* The runs recorded as done were started; the one under way is not done.
RunsRecorded ==
    /\ \A c \in Calls : done[c] \subseteq 1 .. started[c]
    /\ spc = "run" => started[cur] > 0 /\ started[cur] \notin done[cur]

\* An answer that says ok is that of a run recorded as done.
AnswersTrue ==
    /\ \A c \in Calls : bres[c].ok => bres[c].run \in done[c]
    /\ \A c \in Calls : ans[c].ok => ans[c].run \in done[c]
    /\ said.ok => said.run \in done[cur]
    /\ \A c \in Calls : job[c] = "done" => pc[c] = "ok"
    /\ \A c \in Calls : pc[c] = "ok" => ans[c].ok

\* How often a request was run, by what the worker remembers of it.
RunsCounted ==
    \A c \in Calls :
        started[c] <= restarts + repush + (IF c \in served \/ cur = c THEN 1 ELSE 0)

IInv == Typed /\ OnlyAsked /\ RunsRecorded /\ AnswersTrue /\ RunsCounted

LEMMA InitIInv == ASSUME Init PROVE IInv
  BY BrokerAssumption DEF Init, InitAt, IInv, Typed, OnlyAsked, RunsRecorded, AnswersTrue,
     RunsCounted, PCs, Ended, Answers, Answer, NoAnswer

-----------------------------------------------------------------------------
(* The caller's steps.                                                     *)

LEMMA CallerTyped ==
  ASSUME Typed, NEW c \in Calls, CallerStep(c)
  PROVE  Typed'
<1>1. CASE Enqueue(c) BY <1>1 DEF Enqueue, Typed, PCs, objects, worker
<1>2. CASE NoPeer(c) BY <1>2 DEF NoPeer, Finish, Typed, PCs, Ended, objects, worker
<1>3. CASE Ask(c) BY <1>3 DEF Ask, Typed, PCs, worker
<1>4. CASE AskFails(c) BY <1>4 DEF AskFails, Finish, Typed, PCs, Ended, worker
<1>5. CASE Take(c) BY <1>5 DEF Take, Typed, PCs, objects, worker
<1>6. CASE List(c) BY <1>6 DEF List, Typed, PCs, objects, worker
<1>7. CASE Scan(c) BY <1>7 DEF Scan, Typed, worker
<1>8. CASE Final(c) BY <1>8 DEF Final, Typed, PCs, objects, worker
<1>9. CASE Drain(c) BY <1>9 DEF Drain, Typed, worker
<1>10. CASE Drained(c) BY <1>10 DEF Drained, Typed, PCs, objects, worker
<1>11. CASE Return(c)
  <2>1. NoAnswer \in Answers BY DEF NoAnswer, Answer, Answers
  <2>2. bres' \in [Calls -> Answers] BY <1>11, <2>1 DEF Return, DeleteOf, Typed
  <2>3. pc' \in [Calls -> PCs] BY <1>11 DEF Return, Finish, Typed, PCs, Ended
  <2>4. job' \in [Calls -> {"none", "queued", "running", "done", "failed"}]
    BY <1>11 DEF Return, Finish, Typed
  <2> QED BY <1>11, <2>2, <2>3, <2>4 DEF Return, Typed, worker
<1>12. CASE GiveUp(c) BY <1>12 DEF GiveUp, Finish, Typed, PCs, Ended, objects, worker
<1>13. CASE CallFails(c)
  BY <1>13 DEF CallFails, Finish, Typed, PCs, Ended, objects, worker
<1>14. CASE Quit(c) BY <1>14 DEF Quit, Typed, PCs, Ended, objects, worker
<1> QED BY <1>1, <1>2, <1>3, <1>4, <1>5, <1>6, <1>7, <1>8, <1>9, <1>10, <1>11,
           <1>12, <1>13, <1>14 DEF CallerStep

LEMMA CallerKeeps ==
  ASSUME IInv, NEW c \in Calls, CallerStep(c)
  PROVE  OnlyAsked' /\ RunsRecorded' /\ AnswersTrue' /\ RunsCounted'
<1> USE DEF IInv
<1>0. /\ UNCHANGED worker
      /\ \A d \in Calls : d # c => pc'[d] = pc[d] /\ job'[d] = job[d] /\ ans'[d] = ans[d]
      /\ \A d \in Calls : bres'[d] \in {bres[d], NoAnswer}
  <2>1. CASE Enqueue(c) BY <2>1 DEF Enqueue, Typed, objects
  <2>2. CASE NoPeer(c) BY <2>2 DEF NoPeer, Finish, Typed, objects
  <2>3. CASE Ask(c) BY <2>3 DEF Ask, Typed
  <2>4. CASE AskFails(c) BY <2>4 DEF AskFails, Finish, Typed
  <2>5. CASE Take(c) BY <2>5 DEF Take, Typed, objects
  <2>6. CASE List(c) BY <2>6 DEF List, Typed, objects
  <2>7. CASE Scan(c) BY <2>7 DEF Scan, Typed
  <2>8. CASE Final(c) BY <2>8 DEF Final, Typed, objects
  <2>9. CASE Drain(c) BY <2>9 DEF Drain, Typed
  <2>10. CASE Drained(c) BY <2>10 DEF Drained, Typed, objects
  <2>11. CASE Return(c) BY <2>11 DEF Return, Finish, DeleteOf, Typed
  <2>12. CASE GiveUp(c) BY <2>12 DEF GiveUp, Finish, Typed, objects
  <2>13. CASE CallFails(c) BY <2>13 DEF CallFails, Finish, Typed, objects
  <2>14. CASE Quit(c) BY <2>14 DEF Quit, Typed, objects
  <2> QED BY <2>1, <2>2, <2>3, <2>4, <2>5, <2>6, <2>7, <2>8, <2>9, <2>10, <2>11,
             <2>12, <2>13, <2>14 DEF CallerStep
<1>1. /\ pc[c] \in Asked => pc'[c] \in Asked
      /\ breq' = breq \/ (breq' \subseteq breq \cup {c} /\ pc'[c] \in Asked)
      /\ ans'[c] \in {ans[c], bres[c]}
      /\ pc[c] = "ok" => UNCHANGED <<pc, ans>>
      /\ pc'[c] = "ok" => ans'[c].ok
      /\ job'[c] = "done" => pc'[c] = "ok"
  <2> USE DEF AnswersTrue
  <2>1. CASE Enqueue(c) BY <2>1 DEF Enqueue, Typed, objects, Asked, PCs, Ended
  <2>2. CASE NoPeer(c) BY <2>2 DEF NoPeer, Finish, Typed, objects, Asked, PCs, Ended
  <2>3. CASE Ask(c) BY <2>3 DEF Ask, Typed, Asked, PCs, Ended
  <2>4. CASE AskFails(c) BY <2>4 DEF AskFails, Finish, Typed, Asked, PCs, Ended
  <2>5. CASE Take(c) BY <2>5 DEF Take, Typed, objects, Asked, PCs, Ended
  <2>6. CASE List(c) BY <2>6 DEF List, Typed, objects, Asked, PCs, Ended
  <2>7. CASE Scan(c) BY <2>7 DEF Scan, Typed, Asked, PCs, Ended
  <2>8. CASE Final(c) BY <2>8 DEF Final, Typed, objects, Asked, PCs, Ended
  <2>9. CASE Drain(c) BY <2>9 DEF Drain, Typed, Asked, PCs, Ended
  <2>10. CASE Drained(c) BY <2>10 DEF Drained, Typed, objects, Asked, PCs, Ended
  <2>11. CASE Return(c)
    BY <2>11 DEF Return, Finish, DeleteOf, Typed, Asked, PCs, Ended, Answers
  <2>12. CASE GiveUp(c) BY <2>12 DEF GiveUp, Finish, Typed, objects, Asked, PCs, Ended
  <2>13. CASE CallFails(c)
    BY <2>13 DEF CallFails, Finish, Typed, objects, Asked, PCs, Ended
  <2>14. CASE Quit(c) BY <2>14 DEF Quit, Typed, objects, Asked, PCs, Ended
  <2> QED BY <2>1, <2>2, <2>3, <2>4, <2>5, <2>6, <2>7, <2>8, <2>9, <2>10, <2>11,
             <2>12, <2>13, <2>14 DEF CallerStep
<1>2. OnlyAsked' BY <1>0, <1>1 DEF OnlyAsked, Typed, worker
<1>3. RunsRecorded' BY <1>0 DEF RunsRecorded, worker
<1>4. AnswersTrue'
  BY <1>0, <1>1 DEF AnswersTrue, Typed, worker, NoAnswer, Answer
<1>5. RunsCounted' BY <1>0 DEF RunsCounted, worker
<1> QED BY <1>2, <1>3, <1>4, <1>5

-----------------------------------------------------------------------------
(* The worker's steps.                                                     *)

WorkerStep == ServeStep \/ PushFails \/ Restart

LEMMA WorkerTyped ==
  ASSUME IInv, WorkerStep
  PROVE  Typed'
<1> USE DEF IInv
<1>1. CASE Pass BY <1>1 DEF Pass, Typed, objects, caller
<1>2. CASE EndPass BY <1>2 DEF EndPass, Typed, objects, caller
<1>3. ASSUME NEW c \in Calls, Skip(c) PROVE Typed'
  BY <1>3 DEF Skip, Typed, objects, caller
<1>4. ASSUME NEW c \in Calls, Expire(c) PROVE Typed'
  BY <1>4 DEF Expire, DeleteOf, Typed, caller
<1>5. ASSUME NEW c \in Calls, Start(c) PROVE Typed'
  BY <1>5 DEF Start, Typed, objects, caller
<1>6. CASE Chunk BY <1>6 DEF Chunk, Typed, caller
<1>7. CASE Handled
  <2>1. cur \in Calls /\ started[cur] \in Nat BY <1>7 DEF Handled, OnlyAsked, Typed
  <2>2. said' \in Answers BY <1>7, <2>1 DEF Handled, Answer, Answers, Typed
  <2>3. done' \in [Calls -> SUBSET Nat] BY <1>7, <2>1 DEF Handled, Typed
  <2> QED BY <1>7, <2>2, <2>3 DEF Handled, Typed, objects, caller
<1>8. CASE PushFinal
  <2>1. bres' \in [Calls -> Answers] BY <1>8 DEF PushFinal, Typed
  <2> QED BY <1>8, <2>1 DEF PushFinal, Typed, caller
<1>9. CASE Delete
  <2>1. said' \in Answers BY <1>9 DEF Delete, NoAnswer, Answer, Answers
  <2> QED BY <1>9, <2>1 DEF Delete, DeleteOf, Typed, caller
<1>10. CASE PushFails
  <2>1. said' \in Answers BY <1>10 DEF PushFails, NoAnswer, Answer, Answers
  <2> QED BY <1>10, <2>1 DEF PushFails, Typed, objects, caller
<1>11. CASE Restart
  <2>1. said' \in Answers BY <1>11 DEF Restart, NoAnswer, Answer, Answers
  <2> QED BY <1>11, <2>1 DEF Restart, Typed, objects, caller
<1> QED BY <1>1, <1>2, <1>3, <1>4, <1>5, <1>6, <1>7, <1>8, <1>9, <1>10, <1>11
        DEF WorkerStep, ServeStep, ScanStep

LEMMA WorkerAsks ==
  ASSUME IInv, WorkerStep
  PROVE  OnlyAsked'
<1> USE DEF IInv, OnlyAsked, Typed
<1>1. CASE Pass BY <1>1 DEF Pass, objects, caller
<1>2. CASE EndPass BY <1>2 DEF EndPass, objects, caller
<1>3. ASSUME NEW c \in Calls, Skip(c) PROVE OnlyAsked'
  BY <1>3 DEF Skip, objects, caller
<1>4. ASSUME NEW c \in Calls, Expire(c) PROVE OnlyAsked'
  BY <1>4 DEF Expire, DeleteOf, caller
<1>5. ASSUME NEW c \in Calls, Start(c) PROVE OnlyAsked'
  BY <1>5 DEF Start, objects, caller
<1>6. CASE Chunk BY <1>6 DEF Chunk, caller
<1>7. CASE Handled BY <1>7 DEF Handled, objects, caller
<1>8. CASE PushFinal BY <1>8 DEF PushFinal, caller
<1>9. CASE Delete BY <1>9 DEF Delete, DeleteOf, caller
<1>10. CASE PushFails BY <1>10 DEF PushFails, objects, caller
<1>11. CASE Restart BY <1>11 DEF Restart, objects, caller
<1> QED BY <1>1, <1>2, <1>3, <1>4, <1>5, <1>6, <1>7, <1>8, <1>9, <1>10, <1>11
        DEF WorkerStep, ServeStep, ScanStep

LEMMA WorkerRecords ==
  ASSUME IInv, WorkerStep
  PROVE  RunsRecorded' /\ AnswersTrue'
<1> USE DEF IInv
<1>0. NoAnswer.ok = FALSE BY DEF NoAnswer, Answer
<1> USE DEF RunsRecorded, AnswersTrue
<1>1. CASE Pass BY <1>1 DEF Pass, objects, caller
<1>2. CASE EndPass BY <1>2 DEF EndPass, objects, caller
<1>3. ASSUME NEW c \in Calls, Skip(c) PROVE RunsRecorded' /\ AnswersTrue'
  BY <1>3 DEF Skip, objects, caller
<1>4. ASSUME NEW c \in Calls, Expire(c) PROVE RunsRecorded' /\ AnswersTrue'
  BY <1>4 DEF Expire, caller
<1>5. ASSUME NEW c \in Calls, Start(c) PROVE RunsRecorded' /\ AnswersTrue'
  <2>1. /\ started' = [started EXCEPT ![c] = @ + 1]
        /\ cur' = c /\ spc' = "run" /\ said' = NoAnswer
        /\ UNCHANGED <<bres, ans, pc, job, done>>
    BY <1>5 DEF Start, objects, caller, OnlyAsked
  <2>2. started[c] \in Nat /\ started'[c] = started[c] + 1
    BY <2>1 DEF Typed
  <2>3. \A d \in Calls : d # c => started'[d] = started[d] BY <2>1 DEF Typed
  <2>4. done[c] \subseteq 1 .. started[c] OBVIOUS
  <2>5. RunsRecorded' BY <2>1, <2>2, <2>3, <2>4
  <2>6. AnswersTrue' BY <2>1, <1>0
  <2> QED BY <2>5, <2>6
<1>6. CASE Chunk BY <1>6 DEF Chunk, caller
<1>7. CASE Handled
  <2>1. PICK ok \in BOOLEAN :
          /\ said' = Answer(started[cur], ok, emitted)
          /\ done' = IF ok THEN [done EXCEPT ![cur] = @ \cup {started[cur]}] ELSE done
    BY <1>7 DEF Handled
  <2>2. /\ cur \in Calls /\ started[cur] > 0 /\ started[cur] \in Nat
        /\ spc' = "answer" /\ UNCHANGED <<bres, ans, pc, job, started, cur>>
    BY <1>7 DEF Handled, OnlyAsked, Typed, objects, caller
  <2>3. \A d \in Calls : done[d] \subseteq done'[d] BY <2>1, <2>2 DEF Typed
  <2>4. \A d \in Calls : done'[d] \subseteq done[d] \cup (IF d = cur THEN {started[cur]} ELSE {})
    BY <2>1, <2>2 DEF Typed
  <2>5. said'.ok = ok /\ said'.run = started[cur] BY <2>1 DEF Answer
  <2>6. ok => started[cur] \in done'[cur] BY <2>1, <2>2 DEF Typed
  <2>7. RunsRecorded' BY <2>2, <2>4
  <2>8. AnswersTrue' BY <2>2, <2>3, <2>5, <2>6
  <2> QED BY <2>7, <2>8
<1>8. CASE PushFinal
  <2>1. /\ bres' = [bres EXCEPT ![cur] = said] /\ cur \in Calls
        /\ UNCHANGED <<ans, pc, job, started, done, cur, said>> /\ spc' = "delete"
    BY <1>8 DEF PushFinal, OnlyAsked, caller
  <2>2. \A d \in Calls : bres'[d] = IF d = cur THEN said ELSE bres[d]
    BY <2>1 DEF Typed
  <2> QED BY <2>1, <2>2
<1>9. CASE Delete BY <1>9, <1>0 DEF Delete, caller
<1>10. CASE PushFails BY <1>10, <1>0 DEF PushFails, objects, caller
<1>11. CASE Restart BY <1>11, <1>0 DEF Restart, objects, caller
<1> QED BY <1>1, <1>2, <1>3, <1>4, <1>5, <1>6, <1>7, <1>8, <1>9, <1>10, <1>11
        DEF WorkerStep, ServeStep, ScanStep

LEMMA WorkerCounts ==
  ASSUME IInv, WorkerStep
  PROVE  RunsCounted'
<1> USE DEF IInv, RunsCounted, Typed
<1>1. CASE Pass BY <1>1 DEF Pass
<1>2. CASE EndPass BY <1>2 DEF EndPass
<1>3. ASSUME NEW c \in Calls, Skip(c) PROVE RunsCounted' BY <1>3 DEF Skip
<1>4. ASSUME NEW c \in Calls, Expire(c) PROVE RunsCounted' BY <1>4 DEF Expire
<1>5. ASSUME NEW c \in Calls, Start(c) PROVE RunsCounted'
  <2>1. cur = NoCall /\ NoCall \notin Calls
    BY <1>5, BrokerAssumption DEF Start, OnlyAsked
  <2>2. /\ c \notin served /\ cur' = c
        /\ started' = [started EXCEPT ![c] = @ + 1]
        /\ UNCHANGED <<served, restarts, repush>>
    BY <1>5 DEF Start
  <2> QED BY <2>1, <2>2
<1>6. CASE Chunk BY <1>6 DEF Chunk
<1>7. CASE Handled BY <1>7 DEF Handled
<1>8. CASE PushFinal BY <1>8 DEF PushFinal
<1>9. CASE Delete BY <1>9 DEF Delete
<1>10. CASE PushFails BY <1>10 DEF PushFails
<1>11. CASE Restart BY <1>11 DEF Restart
<1> QED BY <1>1, <1>2, <1>3, <1>4, <1>5, <1>6, <1>7, <1>8, <1>9, <1>10, <1>11
        DEF WorkerStep, ServeStep, ScanStep

LEMMA Invariance == ASSUME IInv, [Next]_vars PROVE IInv'
<1>1. ASSUME NEW c \in Calls, CallerStep(c) PROVE IInv'
  BY <1>1, CallerTyped, CallerKeeps DEF IInv
<1>2. CASE WorkerStep
  BY <1>2, WorkerTyped, WorkerAsks, WorkerRecords, WorkerCounts DEF IInv
<1>3. CASE Tick
  BY <1>3 DEF Tick, IInv, Typed, OnlyAsked, RunsRecorded, AnswersTrue, RunsCounted,
     objects, caller, worker
<1>4. CASE UNCHANGED vars
  BY <1>4 DEF vars, IInv, Typed, OnlyAsked, RunsRecorded, AnswersTrue, RunsCounted,
     objects, caller, worker
<1> QED BY <1>1, <1>2, <1>3, <1>4 DEF Next, WorkerStep

LEMMA Always == Spec => []IInv
<1>1. Init => IInv BY InitIInv
<1>2. IInv /\ [Next]_vars => IInv' BY Invariance
<1> QED BY <1>1, <1>2, PTL DEF Spec

\* The row in which the requester records that its job is done says the truth:
\* the run whose answer it returned is recorded as done by the worker
\* (MediaCmd::Generate, media_run_op).
THEOREM DoneIsTrue == Spec => []DoneWasRun
<1>1. IInv => DoneWasRun BY DEF IInv, AnswersTrue, DoneWasRun
<1> QED BY <1>1, Always, PTL

\* A request is run once, and once more at most for every restart of the worker
\* and every push of it that failed (serve_once).
THEOREM RunsOnceEach == Spec => []RunsOnce
<1>1. IInv => RunsOnce
  BY DEF IInv, Typed, RunsCounted, RunsOnce
<1> QED BY <1>1, Always, PTL

-----------------------------------------------------------------------------
(* Streams, and what calls leave behind.                                   *)

\* The rest of the state has its types.
RestTyped ==
    /\ clock \in Nat /\ faults \in Nat
    /\ streamed \subseteq Calls /\ served \subseteq Calls
    /\ chunks \in [Calls -> SUBSET Nat] /\ todo \in [Calls -> SUBSET Nat]
    /\ pend \in [Calls -> SUBSET Nat]
    /\ deadline \in [Calls -> Nat] /\ next \in [Calls -> Nat]
    /\ cur \in Calls \cup {NoCall}
    /\ spc \in {"run", "answer", "delete"} => started[cur] > 0

\* A chunk of the run that is under way or has answered is on the transport
\* until the caller has it: handed over, or drained.
Streams(c) ==
    /\ pc[c] \in {"new", "queued", "refused"} =>
          bres[c] = NoAnswer /\ chunks[c] = {} /\ c \notin served
    /\ chunks[c] # {} => c \in streamed
    /\ pc[c] # "drain" => pend[c] = {}
    /\ c \in streamed /\ pc[c] \in {"poll", "scan"} =>
          \A i \in Nat : i < bres[c].n \/ (cur = c /\ i < emitted)
              => i < next[c] \/ i \in chunks[c]
    /\ c \in streamed /\ pc[c] = "drain" =>
          \A i \in Nat : i < ans[c].n
              => i < next[c] \/ i \in pend[c] \/ (i \in todo[c] /\ i \in chunks[c])
    /\ c \in streamed /\ pc[c] \in {"took", "ok"} => next[c] >= ans[c].n

\* Without a fault the worker runs a request once, and is about to delete it
\* or has deleted it when there is an answer.
Clean(c) ==
    /\ c \in scan => c \in breq /\ cur # c
    /\ c \in served => c \notin breq /\ cur # c
    /\ bres[c] # NoAnswer \/ pc[c] \in {"drain", "took", "ok", "error"} =>
          c \in served \/ (cur = c /\ spc = "delete")
    /\ pc[c] \in {"ok", "error"} => bres[c] = NoAnswer /\ chunks[c] = {}
    /\ pc[c] = "took" => chunks[c] = {}
    /\ pc[c] = "drain" => chunks[c] \subseteq todo[c]

SInv ==
    /\ RestTyped
    /\ \A c \in Calls : Streams(c)
    /\ spc \in {"answer", "delete"} => said.n = emitted
    /\ faults = 0 => \A c \in Calls : Clean(c)

LEMMA CallerRestTyped ==
  ASSUME IInv, RestTyped, NEW c \in Calls, CallerStep(c)
  PROVE  RestTyped'
<1> USE BrokerAssumption DEF IInv, Typed, RestTyped
<1>1. CASE Enqueue(c) BY <1>1 DEF Enqueue, objects, worker
<1>2. CASE NoPeer(c) BY <1>2 DEF NoPeer, Finish, objects, worker
<1>3. CASE Ask(c) BY <1>3 DEF Ask, worker
<1>4. CASE AskFails(c) BY <1>4 DEF AskFails, Fault, Finish, worker
<1>5. CASE Take(c) BY <1>5 DEF Take, objects, worker
<1>6. CASE List(c) BY <1>6 DEF List, objects, worker
<1>7. CASE Scan(c)
  <2>1. PICK i \in todo[c] :
          /\ todo' = [todo EXCEPT ![c] = @ \ {i}]
          /\ IF i = next[c] /\ i \in chunks[c]
             THEN /\ next' = [next EXCEPT ![c] = @ + 1]
                  /\ DeleteOf(chunks, [chunks EXCEPT ![c] = @ \ {i}])
             ELSE UNCHANGED <<next, chunks, faults>>
    BY <1>7 DEF Scan
  <2>2. /\ next' \in [Calls -> Nat] /\ todo' \in [Calls -> SUBSET Nat]
        /\ chunks' \in [Calls -> SUBSET Nat] /\ faults' \in Nat
    BY <2>1 DEF DeleteOf, Fault
  <2> QED BY <1>7, <2>2 DEF Scan, worker
<1>8. CASE Final(c) BY <1>8 DEF Final, objects, worker
<1>9. CASE Drain(c)
  <2>1. PICK i \in todo[c] :
          /\ todo' = [todo EXCEPT ![c] = @ \ {i}]
          /\ IF i \in chunks[c]
             THEN /\ pend' = [pend EXCEPT ![c] = @ \cup {i}]
                  /\ DeleteOf(chunks, [chunks EXCEPT ![c] = @ \ {i}])
             ELSE UNCHANGED <<pend, chunks, faults>>
    BY <1>9 DEF Drain
  <2>2. /\ pend' \in [Calls -> SUBSET Nat] /\ todo' \in [Calls -> SUBSET Nat]
        /\ chunks' \in [Calls -> SUBSET Nat] /\ faults' \in Nat
    BY <2>1 DEF DeleteOf, Fault
  <2> QED BY <1>9, <2>2 DEF Drain, worker
<1>10. CASE Drained(c)
  <2>1. PICK n \in next[c] .. next[c] + MaxChunks : next' = [next EXCEPT ![c] = n]
    BY <1>10 DEF Drained
  <2>2. n \in Nat OBVIOUS
  <2>3. next' \in [Calls -> Nat] BY <2>1, <2>2
  <2>4. pend' \in [Calls -> SUBSET Nat] BY <1>10 DEF Drained
  <2> QED BY <1>10, <2>3, <2>4 DEF Drained, objects, worker
<1>11. CASE Return(c) BY <1>11 DEF Return, Finish, DeleteOf, Fault, worker
<1>12. CASE GiveUp(c) BY <1>12 DEF GiveUp, Finish, objects, worker
<1>13. CASE CallFails(c) BY <1>13 DEF CallFails, Fault, Finish, objects, worker
<1>14. CASE Quit(c) BY <1>14 DEF Quit, Fault, objects, worker
<1> QED BY <1>1, <1>2, <1>3, <1>4, <1>5, <1>6, <1>7, <1>8, <1>9, <1>10, <1>11,
           <1>12, <1>13, <1>14 DEF CallerStep

\* A caller touches nothing of another call, and nothing of the worker.
LEMMA CallerFrame ==
  ASSUME IInv, RestTyped, NEW c \in Calls, CallerStep(c), NEW d \in Calls, d # c
  PROVE  (Streams(d) => Streams(d)') /\ (Clean(d) => Clean(d)')
<1> USE DEF IInv, Typed, RestTyped
<1>1. /\ pc'[d] = pc[d] /\ bres'[d] = bres[d] /\ chunks'[d] = chunks[d]
      /\ next'[d] = next[d] /\ todo'[d] = todo[d] /\ pend'[d] = pend[d]
      /\ ans'[d] = ans[d]
      /\ d \in streamed' <=> d \in streamed
      /\ d \in breq' <=> d \in breq
  <2>1. CASE Enqueue(c) \/ NoPeer(c) \/ GiveUp(c) \/ CallFails(c)
    BY <2>1 DEF Enqueue, NoPeer, GiveUp, CallFails, Finish, objects
  <2>2. CASE Ask(c) \/ AskFails(c) BY <2>2 DEF Ask, AskFails, Finish
  <2>3. CASE Take(c) \/ List(c) \/ Final(c) BY <2>3 DEF Take, List, Final, objects
  <2>4. CASE Scan(c) BY <2>4 DEF Scan, DeleteOf
  <2>5. CASE Drain(c) BY <2>5 DEF Drain, DeleteOf
  <2>6. CASE Drained(c) BY <2>6 DEF Drained, objects
  <2>7. CASE Return(c) BY <2>7 DEF Return, Finish, DeleteOf
  <2>8. CASE Quit(c) BY <2>8 DEF Quit, objects
  <2> QED BY <2>1, <2>2, <2>3, <2>4, <2>5, <2>6, <2>7, <2>8 DEF CallerStep
<1>2. UNCHANGED <<cur, spc, emitted, served, scan>>
  BY DEF CallerStep, Enqueue, NoPeer, Ask, AskFails, Take, List, Scan, Final,
     Drain, Drained, Return, GiveUp, CallFails, Quit, worker
<1>3. Streams(d) => Streams(d)' BY <1>1, <1>2 DEF Streams
<1>4. Clean(d) => Clean(d)' BY <1>1, <1>2 DEF Clean
<1> QED BY <1>3, <1>4

\* The caller of c: what it takes off the transport it has handed over or keeps
\* until it has drained the rest.
LEMMA CallerStreams ==
  ASSUME IInv, RestTyped, NEW c \in Calls, CallerStep(c), Streams(c)
  PROVE  Streams(c)'
<1> USE DEF IInv, Typed, RestTyped
<1>0. UNCHANGED <<cur, spc, emitted, served>>
  BY DEF CallerStep, Enqueue, NoPeer, Ask, AskFails, Take, List, Scan, Final,
     Drain, Drained, Return, GiveUp, CallFails, Quit, worker
<1>u. pc[c] \in {"new", "queued", "refused"} => bres[c].n = 0 /\ cur # c
  BY BrokerAssumption DEF Streams, OnlyAsked, Asked, NoAnswer, Answer
\* The call ends: what is asked of it while it polls is over.
<1>e. ASSUME pc'[c] \in {"error", "timeout", "quit"}, chunks'[c] = chunks[c],
             c \in streamed => c \in streamed', pend'[c] = {}
      PROVE  Streams(c)'
  BY <1>e DEF Streams
<1>1. CASE Enqueue(c) BY <1>0, <1>1 DEF Enqueue, Streams, objects
<1>2. CASE NoPeer(c) BY <1>0, <1>2 DEF NoPeer, Finish, Streams, objects
<1>3. CASE Ask(c)
  <2>1. /\ pc[c] = "queued" /\ pc'[c] = "poll"
        /\ UNCHANGED <<bres, chunks, next, pend, ans, todo>>
    BY <1>3 DEF Ask
  <2>2. /\ bres'[c].n = 0 /\ cur' # c /\ chunks'[c] = {} /\ pend'[c] = {}
    BY <1>0, <1>u, <2>1 DEF Streams
  <2> QED BY <2>1, <2>2 DEF Streams
<1>4. CASE AskFails(c)
  <2>1. /\ pc'[c] = "error" /\ pend'[c] = {} /\ chunks' = chunks
        /\ c \in streamed => c \in streamed'
    BY <1>4 DEF AskFails, Finish
  <2> QED BY <1>e, <2>1
<1>5. CASE Take(c) BY <1>0, <1>5 DEF Take, Streams, objects
<1>6. CASE List(c) BY <1>0, <1>6 DEF List, Streams, objects
<1>7. CASE Scan(c)
  <2>1. PICK i \in todo[c] :
          IF i = next[c] /\ i \in chunks[c]
          THEN /\ next' = [next EXCEPT ![c] = @ + 1]
               /\ DeleteOf(chunks, [chunks EXCEPT ![c] = @ \ {i}])
          ELSE UNCHANGED <<next, chunks, faults>>
    BY <1>7 DEF Scan
  <2>2. /\ pc[c] = "scan" /\ UNCHANGED <<pc, bres, streamed, pend, ans>>
    BY <1>7 DEF Scan
  <2>3. \/ next'[c] = next[c] + 1 /\ chunks[c] \ {next[c]} \subseteq chunks'[c]
           /\ chunks'[c] \subseteq chunks[c]
        \/ next'[c] = next[c] /\ chunks'[c] = chunks[c]
    BY <2>1 DEF DeleteOf
  <2>4. \A j \in Nat : j < next[c] \/ j \in chunks[c] => j < next'[c] \/ j \in chunks'[c]
    BY <2>3
  <2> QED BY <1>0, <2>2, <2>3, <2>4 DEF Streams
<1>8. CASE Final(c)
  <2>1. CASE bres[c] = NoAnswer
    BY <1>0, <1>8, <2>1 DEF Final, Streams, objects
  <2>2. CASE bres[c] # NoAnswer
    <3>1. /\ pc[c] = "scan" /\ pc'[c] = "drain" /\ todo'[c] = chunks[c]
          /\ ans'[c] = bres[c] /\ UNCHANGED <<bres, chunks, streamed, next, pend>>
      BY <1>8, <2>2 DEF Final, objects
    <3> QED BY <1>0, <3>1 DEF Streams
  <2> QED BY <2>1, <2>2
<1>9. CASE Drain(c)
  <2>1. PICK i \in todo[c] :
          /\ todo' = [todo EXCEPT ![c] = @ \ {i}]
          /\ IF i \in chunks[c]
             THEN /\ pend' = [pend EXCEPT ![c] = @ \cup {i}]
                  /\ DeleteOf(chunks, [chunks EXCEPT ![c] = @ \ {i}])
             ELSE UNCHANGED <<pend, chunks, faults>>
    BY <1>9 DEF Drain
  <2>2. pc[c] = "drain" /\ UNCHANGED <<pc, streamed, next, ans>>
    BY <1>9 DEF Drain
  <2>3. /\ todo'[c] = todo[c] \ {i} /\ pend[c] \subseteq pend'[c]
        /\ chunks'[c] \subseteq chunks[c] /\ chunks[c] \ {i} \subseteq chunks'[c]
        /\ i \in chunks[c] => i \in pend'[c]
    BY <2>1 DEF DeleteOf
  <2> QED BY <2>2, <2>3 DEF Streams
<1>10. CASE Drained(c)
  <2>1. PICK n \in next[c] .. next[c] + MaxChunks :
          /\ n \notin pend[c]
          /\ next' = [next EXCEPT ![c] = n]
    BY <1>10 DEF Drained
  <2>2. /\ pc[c] = "drain" /\ pc'[c] = "took" /\ todo[c] = {} /\ pend'[c] = {}
        /\ next'[c] = n /\ UNCHANGED <<bres, chunks, streamed, ans>>
    BY <1>10, <2>1 DEF Drained, objects
  <2>3. n \in Nat /\ n >= next[c] /\ next[c] \in Nat /\ ans[c].n \in Nat
    BY <2>1 DEF Answers
  <2>4. c \in streamed => n >= ans[c].n
    BY <2>1, <2>2, <2>3 DEF Streams
  <2> QED BY <2>2, <2>4 DEF Streams
<1>11. CASE Return(c)
  <2>1. /\ pc[c] = "took" /\ pc'[c] \in {"ok", "error"} /\ pend'[c] = {}
        /\ UNCHANGED <<chunks, streamed, next, ans>>
    BY <1>11 DEF Return, Finish
  <2> QED BY <2>1 DEF Streams
<1>12. CASE GiveUp(c)
  <2>1. /\ pc'[c] = "timeout" /\ pend'[c] = {} /\ UNCHANGED <<chunks, streamed>>
    BY <1>12 DEF GiveUp, Finish, objects
  <2> QED BY <1>e, <2>1
<1>13. CASE CallFails(c)
  <2>1. /\ pc'[c] = "error" /\ pend'[c] = {} /\ UNCHANGED <<chunks, streamed>>
    BY <1>13 DEF CallFails, Finish, objects
  <2> QED BY <1>e, <2>1
<1>14. CASE Quit(c)
  <2>1. /\ pend'[c] = {} /\ UNCHANGED <<bres, chunks, streamed>>
    BY <1>14 DEF Quit, objects
  <2>2. CASE pc[c] = "queued"
    <3>1. pc'[c] = "refused" BY <1>14, <2>2 DEF Quit
    <3> QED BY <1>0, <2>1, <2>2, <3>1 DEF Streams
  <2>3. CASE pc[c] # "queued"
    <3>1. pc'[c] = "quit" BY <1>14, <2>3 DEF Quit
    <3> QED BY <1>e, <2>1, <3>1
  <2> QED BY <2>2, <2>3
<1> QED BY <1>1, <1>2, <1>3, <1>4, <1>5, <1>6, <1>7, <1>8, <1>9, <1>10, <1>11,
           <1>12, <1>13, <1>14 DEF CallerStep

LEMMA CallerClean ==
  ASSUME IInv, RestTyped, NEW c \in Calls, CallerStep(c), Streams(c), Clean(c),
         faults' = 0
  PROVE  Clean(c)'
<1> USE DEF IInv, Typed, RestTyped
<1>0. UNCHANGED <<cur, spc, emitted, served, scan>>
  BY DEF CallerStep, Enqueue, NoPeer, Ask, AskFails, Take, List, Scan, Final,
     Drain, Drained, Return, GiveUp, CallFails, Quit, worker
<1>f. ~Fault BY DEF Fault
\* A step of a call that has not taken an answer and takes none.
<1>q. ASSUME bres'[c] = bres[c], breq' = breq \/ (breq' = breq \cup {c} /\ c \notin served),
             pc'[c] \notin {"drain", "took", "ok", "error"}
      PROVE  Clean(c)'
  BY <1>0, <1>q DEF Clean
<1>1. CASE Enqueue(c) BY <1>1, <1>q DEF Enqueue, objects
<1>2. CASE NoPeer(c) BY <1>2, <1>q DEF NoPeer, Finish, objects
<1>3. CASE Ask(c) BY <1>3, <1>q DEF Ask, Streams
<1>4. CASE AskFails(c) BY <1>4, <1>f DEF AskFails
<1>5. CASE Take(c)
  <2>1. /\ pc'[c] = "took" /\ bres[c] # NoAnswer /\ c \notin streamed
        /\ UNCHANGED objects
    BY <1>5 DEF Take
  <2>2. chunks[c] = {} BY <2>1 DEF Streams
  <2> QED BY <1>0, <2>1, <2>2 DEF Clean, objects
<1>6. CASE List(c) BY <1>6, <1>q DEF List, objects
<1>7. CASE Scan(c) BY <1>7, <1>q DEF Scan
<1>8. CASE Final(c)
  <2>1. CASE bres[c] = NoAnswer BY <1>8, <1>q, <2>1 DEF Final, objects
  <2>2. CASE bres[c] # NoAnswer
    <3>1. /\ pc'[c] = "drain" /\ todo'[c] = chunks[c] /\ UNCHANGED objects
      BY <1>8, <2>2 DEF Final
    <3> QED BY <1>0, <2>2, <3>1 DEF Clean, objects
  <2> QED BY <2>1, <2>2
<1>9. CASE Drain(c)
  <2>1. PICK i \in todo[c] :
          /\ todo' = [todo EXCEPT ![c] = @ \ {i}]
          /\ IF i \in chunks[c]
             THEN /\ pend' = [pend EXCEPT ![c] = @ \cup {i}]
                  /\ DeleteOf(chunks, [chunks EXCEPT ![c] = @ \ {i}])
             ELSE UNCHANGED <<pend, chunks, faults>>
    BY <1>9 DEF Drain
  <2>2. pc[c] = "drain" /\ UNCHANGED <<pc, breq, bres>>
    BY <1>9 DEF Drain
  <2>3. todo'[c] = todo[c] \ {i} /\ chunks'[c] = chunks[c] \ {i}
    BY <1>f, <2>1 DEF DeleteOf
  <2> QED BY <1>0, <2>2, <2>3 DEF Clean
<1>10. CASE Drained(c)
  <2>1. /\ pc[c] = "drain" /\ pc'[c] = "took" /\ todo[c] = {} /\ UNCHANGED objects
    BY <1>10 DEF Drained
  <2> QED BY <1>0, <2>1 DEF Clean, objects
<1>11. CASE Return(c)
  <2>1. /\ pc[c] = "took" /\ pc'[c] \in {"ok", "error"} /\ bres'[c] = NoAnswer
        /\ UNCHANGED <<breq, chunks>>
    BY <1>11, <1>f DEF Return, Finish, DeleteOf
  <2> QED BY <1>0, <2>1 DEF Clean
<1>12. CASE GiveUp(c) BY <1>12, <1>q DEF GiveUp, Finish, objects
<1>13. CASE CallFails(c) BY <1>13, <1>f DEF CallFails
<1>14. CASE Quit(c) BY <1>14, <1>f DEF Quit
<1> QED BY <1>1, <1>2, <1>3, <1>4, <1>5, <1>6, <1>7, <1>8, <1>9, <1>10, <1>11,
           <1>12, <1>13, <1>14 DEF CallerStep

LEMMA WorkerRestTyped ==
  ASSUME IInv, SInv, WorkerStep
  PROVE  RestTyped' /\ (spc' \in {"answer", "delete"} => said'.n = emitted')
<1> USE BrokerAssumption DEF IInv, SInv, RestTyped
<1>1. CASE Pass BY <1>1 DEF Pass, objects, caller
<1>2. CASE EndPass BY <1>2 DEF EndPass, objects, caller
<1>3. ASSUME NEW c \in Calls, Skip(c)
      PROVE  RestTyped' /\ (spc' \in {"answer", "delete"} => said'.n = emitted')
  BY <1>3 DEF Skip, objects, caller
<1>4. ASSUME NEW c \in Calls, Expire(c)
      PROVE  RestTyped' /\ (spc' \in {"answer", "delete"} => said'.n = emitted')
  BY <1>4 DEF Expire, DeleteOf, Fault, caller
<1>5. ASSUME NEW c \in Calls, Start(c)
      PROVE  RestTyped' /\ (spc' \in {"answer", "delete"} => said'.n = emitted')
  BY <1>5 DEF Start, objects, caller, Typed
<1>6. CASE Chunk
  <2>1. cur \in Calls BY <1>6 DEF Chunk
  <2>2. chunks' \in [Calls -> SUBSET Nat] BY <1>6, <2>1 DEF Chunk, Typed
  <2> QED BY <1>6, <2>2 DEF Chunk, caller
<1>7. CASE Handled BY <1>7 DEF Handled, objects, caller, Answer
<1>8. CASE PushFinal BY <1>8 DEF PushFinal, caller
<1>9. CASE Delete BY <1>9 DEF Delete, DeleteOf, Fault, caller, OnlyAsked
<1>10. CASE PushFails BY <1>10 DEF PushFails, Fault, objects, caller
<1>11. CASE Restart BY <1>11 DEF Restart, Fault, objects, caller
<1> QED BY <1>1, <1>2, <1>3, <1>4, <1>5, <1>6, <1>7, <1>8, <1>9, <1>10, <1>11
        DEF WorkerStep, ServeStep, ScanStep

\* The worker: a run starts with no chunk of its own, leaves every chunk it
\* emits on the transport, and its answer counts them.
LEMMA WorkerStreams ==
  ASSUME IInv, SInv, WorkerStep, NEW d \in Calls
  PROVE  Streams(d)'
<1> USE DEF IInv, Typed, SInv, RestTyped
<1>0. Streams(d) /\ UNCHANGED caller
  BY DEF WorkerStep, ServeStep, ScanStep, Pass, Skip, Expire, Start, EndPass, Chunk,
     Handled, PushFinal, Delete, PushFails, Restart
<1>a. spc \in {"run", "answer", "delete"} =>
        cur \in Calls /\ pc[cur] \notin {"new", "queued", "refused"}
  BY DEF OnlyAsked, Asked
<1>q. ASSUME UNCHANGED <<bres, chunks>>,
             d \in served' => d \in served \/ pc[d] \notin {"new", "queued", "refused"},
             cur' = d => emitted' = 0 \/ UNCHANGED <<cur, emitted>>
      PROVE  Streams(d)'
  BY <1>0, <1>q DEF Streams, caller
<1>1. CASE Pass BY <1>1, <1>q DEF Pass, objects
<1>2. CASE EndPass BY <1>2, <1>q DEF EndPass, objects
<1>3. ASSUME NEW c \in Calls, Skip(c) PROVE Streams(d)'
  BY <1>3, <1>q DEF Skip, objects
<1>4. ASSUME NEW c \in Calls, Expire(c) PROVE Streams(d)'
  BY <1>4, <1>q DEF Expire, OnlyAsked, Asked
<1>5. ASSUME NEW c \in Calls, Start(c) PROVE Streams(d)'
  BY <1>5, <1>q DEF Start, objects
<1>6. CASE Chunk
  <2>1. /\ chunks' = [chunks EXCEPT ![cur] = @ \cup {emitted}] /\ emitted' = emitted + 1
        /\ cur \in streamed /\ spc = "run" /\ cur \in Calls
        /\ UNCHANGED <<bres, cur, served>>
    BY <1>6 DEF Chunk
  <2>2. CASE d # cur
    <3>1. chunks'[d] = chunks[d] BY <2>1, <2>2
    <3> QED BY <1>0, <2>1, <2>2, <3>1 DEF Streams, caller
  <2>3. CASE d = cur
    <3>1. chunks'[d] = chunks[d] \cup {emitted} BY <2>1, <2>3
    <3>2. \A i \in Nat : i < emitted' => i < emitted \/ i = emitted BY <2>1
    <3> QED BY <1>0, <1>a, <2>1, <2>3, <3>1, <3>2 DEF Streams, caller
  <2> QED BY <2>2, <2>3
<1>7. CASE Handled BY <1>7, <1>q DEF Handled, objects
<1>8. CASE PushFinal
  <2>1. /\ bres' = [bres EXCEPT ![cur] = said] /\ said.n = emitted /\ spc = "answer"
        /\ UNCHANGED <<chunks, cur, emitted, served>>
    BY <1>8 DEF PushFinal
  <2>2. CASE d # cur
    <3>1. bres'[d] = bres[d] BY <2>1, <2>2
    <3> QED BY <1>0, <2>1, <2>2, <3>1 DEF Streams, caller
  <2>3. CASE d = cur
    <3>1. bres'[d] = said BY <2>1, <2>3
    <3> QED BY <1>0, <1>a, <2>1, <2>3, <3>1 DEF Streams, caller
  <2> QED BY <2>2, <2>3
<1>9. CASE Delete BY <1>9, <1>a, <1>q DEF Delete
<1>10. CASE PushFails BY <1>10, <1>q DEF PushFails, objects
<1>11. CASE Restart BY <1>11, <1>q DEF Restart, objects
<1> QED BY <1>1, <1>2, <1>3, <1>4, <1>5, <1>6, <1>7, <1>8, <1>9, <1>10, <1>11
        DEF WorkerStep, ServeStep, ScanStep

LEMMA WorkerClean ==
  ASSUME IInv, SInv, WorkerStep, faults' = 0, NEW d \in Calls
  PROVE  Clean(d)'
<1> USE DEF IInv, Typed, SInv, RestTyped
<1>f. ~Fault BY DEF Fault
<1>0. UNCHANGED caller /\ faults = 0
  BY <1>f DEF WorkerStep, ServeStep, ScanStep, Pass, Skip, Expire, Start, EndPass, Chunk,
     Handled, PushFinal, Delete, DeleteOf, PushFails, Restart
<1>c. \A c \in Calls : Clean(c) BY <1>0
<1>a. /\ spc \in {"run", "answer", "delete"} => cur \in Calls
      /\ spc \in {"idle", "scan"} => cur = NoCall
  BY DEF OnlyAsked
<1>n. NoCall \notin Calls BY BrokerAssumption
<1> USE DEF Clean, caller
<1>1. CASE Pass BY <1>0, <1>1, <1>a, <1>c, <1>n DEF Pass, objects
<1>2. CASE EndPass BY <1>0, <1>2, <1>a, <1>c, <1>n DEF EndPass, objects
<1>3. ASSUME NEW c \in Calls, Skip(c) PROVE Clean(d)'
  BY <1>0, <1>3, <1>c DEF Skip, objects
<1>4. ASSUME NEW c \in Calls, Expire(c) PROVE Clean(d)'
  <2>1. /\ breq' = breq \ {c} /\ scan' = scan \ {c} /\ served' = served \cup {c}
        /\ UNCHANGED <<bres, chunks, cur, spc>> /\ spc = "scan"
    BY <1>4, <1>f DEF Expire, DeleteOf
  <2> QED BY <1>0, <1>a, <1>c, <1>n, <2>1
<1>5. ASSUME NEW c \in Calls, Start(c) PROVE Clean(d)'
  <2>1. /\ scan' = scan \ {c} /\ cur' = c /\ spc = "scan" /\ c \notin served
        /\ UNCHANGED <<breq, bres, chunks, served>>
    BY <1>5 DEF Start, objects
  <2> QED BY <1>0, <1>a, <1>c, <1>n, <2>1
<1>6. CASE Chunk
  <2>1. /\ \A c \in Calls : c # cur => chunks'[c] = chunks[c]
        /\ spc = "run" /\ UNCHANGED <<breq, bres, scan, served, cur, spc>>
    BY <1>6 DEF Chunk
  <2> QED BY <1>0, <1>c, <2>1
<1>7. CASE Handled BY <1>0, <1>7, <1>c DEF Handled, objects
<1>8. CASE PushFinal
  <2>1. /\ \A c \in Calls : c # cur => bres'[c] = bres[c]
        /\ spc = "answer" /\ spc' = "delete"
        /\ UNCHANGED <<breq, chunks, scan, served, cur>>
    BY <1>8 DEF PushFinal
  <2> QED BY <1>0, <1>c, <2>1
<1>9. CASE Delete
  <2>1. /\ breq' = breq \ {cur} /\ served' = served \cup {cur} /\ cur' = NoCall
        /\ UNCHANGED <<bres, chunks, scan>> /\ spc = "delete"
    BY <1>9, <1>f DEF Delete, DeleteOf
  <2> QED BY <1>0, <1>a, <1>c, <1>n, <2>1
<1>10. CASE PushFails BY <1>10, <1>f DEF PushFails
<1>11. CASE Restart BY <1>11, <1>f DEF Restart
<1> QED BY <1>1, <1>2, <1>3, <1>4, <1>5, <1>6, <1>7, <1>8, <1>9, <1>10, <1>11
        DEF WorkerStep, ServeStep, ScanStep

LEMMA SInvariance == ASSUME IInv, SInv, [Next]_vars PROVE SInv'
<1>1. ASSUME NEW c \in Calls, CallerStep(c) PROVE SInv'
  <2>1. RestTyped' BY <1>1, CallerRestTyped DEF SInv
  <2>2. \A d \in Calls : Streams(d)'
    BY <1>1, CallerStreams, CallerFrame DEF SInv
  <2>3. UNCHANGED <<spc, said, emitted>>
    BY <1>1 DEF CallerStep, Enqueue, NoPeer, Ask, AskFails, Take, List, Scan, Final,
       Drain, Drained, Return, GiveUp, CallFails, Quit, worker
  <2>4. faults' = 0 => faults = 0
    BY <1>1 DEF CallerStep, Enqueue, NoPeer, Ask, AskFails, Take, List, Scan, Final,
       Drain, Drained, Return, GiveUp, CallFails, Quit, DeleteOf, Fault, SInv, RestTyped
  <2>5. faults' = 0 => \A d \in Calls : Clean(d)'
    BY <1>1, <2>4, CallerClean, CallerFrame DEF SInv
  <2> QED BY <2>1, <2>2, <2>3, <2>5 DEF SInv
<1>2. CASE WorkerStep
  BY <1>2, WorkerRestTyped, WorkerStreams, WorkerClean DEF SInv
<1>3. CASE Tick
  BY <1>3 DEF Tick, SInv, RestTyped, Streams, Clean, objects, caller, worker
<1>4. CASE UNCHANGED vars
  BY <1>4 DEF vars, SInv, RestTyped, Streams, Clean, objects, caller, worker
<1> QED BY <1>1, <1>2, <1>3, <1>4 DEF Next, WorkerStep

LEMMA InitSInv == ASSUME Init PROVE SInv
<1>1. /\ RestTyped /\ spc = "idle" /\ scan = {} /\ cur = NoCall /\ served = {}
      /\ \A c \in Calls : /\ pc[c] = "new" /\ bres[c] = NoAnswer /\ chunks[c] = {}
                          /\ pend[c] = {}
  BY DEF Init, InitAt, RestTyped
<1> QED BY <1>1 DEF SInv, Streams, Clean

\* A stream that ends well has handed over every chunk of the run that ended
\* it, whatever runs broke off before, deletes failed and restarts came between;
\* and without a fault a call leaves nothing on the transport (serve_stream,
\* call_stream).
THEOREM StreamsAreWhole == Spec => []StreamsWhole
<1>1. IInv /\ SInv => StreamsWhole
  <2> SUFFICES ASSUME IInv, SInv PROVE StreamsWhole OBVIOUS
  <2>1. TypeOK
    BY DEF IInv, SInv, Typed, RestTyped, OnlyAsked, RunsRecorded, TypeOK
  <2>2. WholeStream BY DEF SInv, RestTyped, Streams, WholeStream
  <2>3. NothingLeft BY DEF SInv, Clean, NothingLeft
  <2> QED BY <2>1, <2>2, <2>3 DEF StreamsWhole
<1>2. Init => IInv /\ SInv BY InitIInv, InitSInv
<1>3. IInv /\ SInv /\ [Next]_vars => IInv' /\ SInv' BY Invariance, SInvariance
<1> QED BY <1>1, <1>2, <1>3, PTL DEF Spec

-----------------------------------------------------------------------------
(* The refinement.                                                         *)

LEMMA DoneFinite ==
  ASSUME IInv, NEW c \in Calls
  PROVE  IsFiniteSet(done[c]) /\ Cardinality(done[c]) \in Nat
<1>1. IsFiniteSet(1 .. started[c]) BY FS_Interval DEF IInv, Typed
<1>2. done[c] \subseteq 1 .. started[c] BY DEF IInv, RunsRecorded
<1> QED BY <1>1, <1>2, FS_Subset, FS_CardinalityType

\* What a caller's step does to the state it is mapped to.
RemoteState == [c \in Calls |-> Known(pc[c])]
RemoteRan == [c \in Calls |-> Cardinality(done[c])]

LEMMA CallerMaps ==
  ASSUME IInv, NEW c \in Calls, NEW where \in PCs,
         pc' = [pc EXCEPT ![c] = where], done' = done
  PROVE  /\ RemoteState' = [RemoteState EXCEPT ![c] = Known(where)]
         /\ RemoteRan' = RemoteRan
         /\ Known(where) = Known(pc[c]) => RemoteState' = RemoteState
BY DEF IInv, Typed, RemoteState, RemoteRan

\* A caller's step goes forward in the order a RemoteCall allows.
LEMMA CallerForward ==
  ASSUME IInv, NEW c \in Calls, CallerStep(c)
  PROVE  \E where \in PCs :
           /\ pc' = [pc EXCEPT ![c] = where] /\ done' = done
           /\ \/ Known(where) = Known(pc[c])
              \/ Known(pc[c]) = "unasked" /\ Known(where) \in {"open", "refused", "failed"}
              \/ Known(pc[c]) = "open" /\ Known(where) = "failed"
              \/ Known(pc[c]) = "open" /\ Known(where) = "ok" /\ done[c] # {}
<1> USE DEF IInv, Known, PCs, Ended, worker
<1>0. pc = [pc EXCEPT ![c] = pc[c]] /\ pc[c] \in PCs BY DEF Typed
<1>1. CASE Enqueue(c) BY <1>1 DEF Enqueue
<1>2. CASE NoPeer(c) BY <1>2 DEF NoPeer, Finish
<1>3. CASE Ask(c) BY <1>3 DEF Ask
<1>4. CASE AskFails(c) BY <1>4 DEF AskFails, Finish
<1>5. CASE Take(c) BY <1>5 DEF Take
<1>6. CASE List(c) BY <1>6 DEF List
<1>7. CASE Scan(c) BY <1>7, <1>0 DEF Scan
<1>8. CASE Final(c) BY <1>8 DEF Final
<1>9. CASE Drain(c) BY <1>9, <1>0 DEF Drain
<1>10. CASE Drained(c) BY <1>10 DEF Drained
<1>11. CASE Return(c)
  <2>1. CASE ans[c].ok
    <3>1. done[c] # {} BY <2>1 DEF AnswersTrue
    <3> QED BY <1>11, <2>1, <3>1 DEF Return, Finish
  <2>2. CASE ~ans[c].ok
    <3>1. pc[c] = "took" /\ done' = done BY <1>11 DEF Return
    <3>2. pc' = [pc EXCEPT ![c] = "error"] BY <1>11, <2>2 DEF Return, Finish
    <3>3. Known(pc[c]) = "open" /\ Known("error") = "failed" BY <3>1
    <3> QED BY <3>1, <3>2, <3>3
  <2> QED BY <2>1, <2>2
<1>12. CASE GiveUp(c) BY <1>12 DEF GiveUp, Finish
<1>13. CASE CallFails(c) BY <1>13 DEF CallFails, Finish
<1>14. CASE Quit(c)
  <2>1. pc \in [Calls -> PCs] /\ done' = done BY <1>14 DEF Quit, Typed
  <2>2. CASE pc[c] = "queued"
    <3>1. pc' = [pc EXCEPT ![c] = "refused"] BY <1>14, <2>2 DEF Quit
    <3> QED BY <2>1, <2>2, <3>1
  <2>3. CASE pc[c] # "queued"
    <3>1. pc' = [pc EXCEPT ![c] = "quit"] BY <1>14, <2>3 DEF Quit
    <3>2. pc[c] \in {"poll", "scan", "drain", "took"} BY <1>14, <2>3 DEF Quit
    <3>3. Known(pc[c]) = "open" /\ Known("quit") = "failed" BY <3>2
    <3> QED BY <2>1, <3>1, <3>3
  <2> QED BY <2>2, <2>3
<1> QED BY <1>1, <1>2, <1>3, <1>4, <1>5, <1>6, <1>7, <1>8, <1>9, <1>10, <1>11,
           <1>12, <1>13, <1>14 DEF CallerStep

LEMMA CallerImplements ==
  ASSUME IInv, NEW c \in Calls, CallerStep(c)
  PROVE  [Remote!Next]_<<RemoteState, RemoteRan>>
<1>1. PICK where \in PCs :
        /\ pc' = [pc EXCEPT ![c] = where] /\ done' = done
        /\ \/ Known(where) = Known(pc[c])
           \/ Known(pc[c]) = "unasked" /\ Known(where) \in {"open", "refused", "failed"}
           \/ Known(pc[c]) = "open" /\ Known(where) = "failed"
           \/ Known(pc[c]) = "open" /\ Known(where) = "ok" /\ done[c] # {}
  BY CallerForward
<1>2. /\ RemoteState' = [RemoteState EXCEPT ![c] = Known(where)]
      /\ RemoteRan' = RemoteRan
      /\ Known(where) = Known(pc[c]) => RemoteState' = RemoteState
  BY <1>1, CallerMaps
<1>3. RemoteState[c] = Known(pc[c]) BY DEF RemoteState
<1>4. RemoteRan[c] = Cardinality(done[c]) BY DEF RemoteRan
<1>5. CASE Known(where) = Known(pc[c]) BY <1>2, <1>5
<1>6. CASE Known(pc[c]) = "unasked" /\ Known(where) = "open"
  BY <1>2, <1>3, <1>6 DEF Remote!Next, Remote!Ask, RemoteState, RemoteRan
<1>7. CASE Known(pc[c]) = "unasked" /\ Known(where) = "refused"
  BY <1>2, <1>3, <1>7 DEF Remote!Next, Remote!Refuse, RemoteState, RemoteRan
<1>8. CASE Known(pc[c]) \in {"unasked", "open"} /\ Known(where) = "failed"
  BY <1>2, <1>3, <1>8 DEF Remote!Next, Remote!Fail, RemoteState, RemoteRan
<1>9. CASE Known(pc[c]) = "open" /\ Known(where) = "ok" /\ done[c] # {}
  <2>1. Cardinality(done[c]) > 0 BY <1>9, DoneFinite, FS_EmptySet
  <2> QED BY <1>2, <1>3, <1>4, <1>9, <2>1
       DEF Remote!Next, Remote!Succeed, RemoteState, RemoteRan
<1> QED BY <1>1, <1>5, <1>6, <1>7, <1>8, <1>9

\* A worker's step leaves the callers where they are, and counts a run when the
\* handler is through without an error.
LEMMA WorkerImplements ==
  ASSUME IInv, WorkerStep
  PROVE  [Remote!Next]_<<RemoteState, RemoteRan>>
<1>1. pc' = pc
  BY DEF WorkerStep, ServeStep, ScanStep, Pass, Skip, Expire, Start, EndPass, Chunk,
     Handled, PushFinal, Delete, PushFails, Restart, caller
<1>2. RemoteState' = RemoteState BY <1>1 DEF RemoteState
<1>3. CASE done' = done BY <1>2, <1>3 DEF RemoteRan
<1>4. CASE done' # done
  <2>1. Handled
    BY <1>4 DEF WorkerStep, ServeStep, ScanStep, Pass, Skip, Expire, Start, EndPass,
       Chunk, PushFinal, Delete, PushFails, Restart
  <2>2. done' = [done EXCEPT ![cur] = @ \cup {started[cur]}] BY <1>4, <2>1 DEF Handled
  <2>3. /\ spc = "run" /\ cur \in Calls BY <2>1 DEF Handled, IInv, OnlyAsked
  <2>4. Known(pc[cur]) \in {"open", "ok", "failed"}
    BY <2>3 DEF IInv, Typed, OnlyAsked, Asked, Known, PCs, Ended
  <2>5. started[cur] \notin done[cur]
    BY <2>3 DEF IInv, RunsRecorded
  <2>6. Cardinality(done[cur] \cup {started[cur]}) = Cardinality(done[cur]) + 1
    BY <2>3, <2>5, DoneFinite, FS_AddElement
  <2>7. RemoteRan' = [RemoteRan EXCEPT ![cur] = @ + 1]
    BY <2>2, <2>3, <2>6 DEF RemoteRan, IInv, Typed
  <2>8. RemoteState[cur] = Known(pc[cur]) BY <2>3 DEF RemoteState
  <2>9. Remote!Run(cur)
    BY <1>2, <2>4, <2>7, <2>8 DEF Remote!Run, RemoteState, RemoteRan
  <2> QED BY <2>3, <2>9 DEF Remote!Next, RemoteState, RemoteRan
<1> QED BY <1>3, <1>4

\* Calls between paired devices do what RemoteCall promises: nothing runs that
\* was not asked for, a call ends once, and it ends well only when the worker
\* has done what it asked for (call, call_stream, serve_once, serve_stream).
THEOREM Implements == Spec => RemoteSpec
<1>1. Init => Remote!Init
  BY FS_EmptySet DEF Init, InitAt, Remote!Init, Known
<1>2. IInv /\ [Next]_vars => [Remote!Next]_<<RemoteState, RemoteRan>>
  <2> SUFFICES ASSUME IInv, [Next]_vars
               PROVE  [Remote!Next]_<<RemoteState, RemoteRan>>
    OBVIOUS
  <2>1. CASE \E c \in Calls : CallerStep(c) BY <2>1, CallerImplements
  <2>2. CASE WorkerStep BY <2>2, WorkerImplements
  <2>3. CASE Tick \/ UNCHANGED vars
    <3>1. pc' = pc /\ done' = done BY <2>3 DEF Tick, vars, caller, worker
    <3> QED BY <3>1 DEF RemoteState, RemoteRan
  <2> QED BY <2>1, <2>2, <2>3 DEF Next, WorkerStep
<1>3. Spec => [][Remote!Next]_<<RemoteState, RemoteRan>>
  BY <1>2, Always, PTL DEF Spec
<1> QED BY <1>1, <1>3, PTL DEF Spec, RemoteSpec, Remote!Spec, RemoteState, RemoteRan

-----------------------------------------------------------------------------
(* Guests.  A token and the ones it was delegated from form a chain; that  *)
(* verify_chain walks it to its end is an induction over the tokens.       *)

LEMMA LeastOf ==
  ASSUME NEW T, T \subseteq Nat, T # {}
  PROVE  \E x \in T : \A y \in T : x <= y
<1> DEFINE Less == {ss \in Nat \X Nat : ss[1] < ss[2]}
<1>1. IsWellFoundedOn(Less, Nat)
  BY NatLessThanWellFounded DEF OpToRel
<1>2. \A x, y \in Nat : y < x => <<y, x>> \in Less
  OBVIOUS
<1> HIDE DEF Less
<1>3. PICK x \in T : \A y \in T : ~(<<y, x>> \in Less)
  BY <1>1, WFMin
<1>4. ASSUME NEW y \in T PROVE x <= y
  <2>1. x \in Nat /\ y \in Nat
    OBVIOUS
  <2>2. ~(y < x)
    BY <1>2, <1>3, <2>1
  <2> QED BY <2>1, <2>2
<1> QED BY <1>4

GCap == [actions : SUBSET G!Actions, key : G!Keys, exp : Nat, by : Device, up : Nat]

\* What a sub-token has from its parent.
Derived(x, p) ==
    /\ "share" \in p.actions /\ x.actions \subseteq p.actions /\ x.exp <= p.exp
    /\ p.key # Bearer /\ x.by = p.key

Minted ==
    /\ caps \in Seq(GCap)
    /\ \A t \in 1 .. Len(caps) :
          /\ caps[t].up \in 0 .. t - 1 /\ caps[t].actions # {}
          /\ caps[t].up = 0 => caps[t].by = Host
          /\ caps[t].up # 0 => Derived(caps[t], caps[caps[t].up])

LEMMA MintedFields ==
  ASSUME Minted, NEW t \in 1 .. Len(caps)
  PROVE  /\ Len(caps) \in Nat /\ t \in Nat
         /\ caps[t].actions \subseteq G!Actions /\ caps[t].actions # {} /\ caps[t].key \in G!Keys
         /\ caps[t].exp \in Nat /\ caps[t].by \in Device
         /\ caps[t].up \in Nat /\ caps[t].up < t
         /\ caps[t].up # 0 => caps[t].up \in 1 .. Len(caps) /\ caps[t].up \in 1 .. t - 1
<1>1. /\ Len(caps) \in Nat /\ caps[t] \in GCap /\ caps[t].up \in 0 .. t - 1
      /\ caps[t].actions # {}
  BY DEF Minted
<1> QED BY <1>1 DEF GCap

\* The chain of every token is defined.
LEMMA ChainIs ==
  ASSUME Minted
  PROVE  G!Chain = [t \in 0 .. Len(caps) |->
                      IF t = 0 THEN {} ELSE {t} \cup G!Chain[caps[t].up]]
<1> DEFINE Good(n) == \E f : f = [t \in 0 .. n |->
                                    IF t = 0 THEN {} ELSE {t} \cup f[caps[t].up]]
<1> DEFINE Bad == {n \in 0 .. Len(caps) : ~Good(n)}
<1>0. Len(caps) \in Nat
  BY DEF Minted
<1>1. Good(0)
  <2>1. [t \in 0 .. 0 |-> {}] =
          [t \in 0 .. 0 |-> IF t = 0 THEN {} ELSE {t} \cup [i \in 0 .. 0 |-> {}][caps[t].up]]
    OBVIOUS
  <2> QED BY <2>1
<1>2. ASSUME NEW n \in 1 .. Len(caps), Good(n - 1) PROVE Good(n)
  <2>1. PICK f : f = [t \in 0 .. n - 1 |->
                        IF t = 0 THEN {} ELSE {t} \cup f[caps[t].up]]
    BY <1>2
  <2>2. PICK g : g = [t \in 0 .. n |->
                        IF t = n THEN {n} \cup f[caps[n].up] ELSE f[t]]
    OBVIOUS
  <2>3. \A i \in 0 .. n - 1 : g[i] = f[i]
    BY <1>0, <2>2
  <2>4. ASSUME NEW t \in 0 .. n
        PROVE  g[t] = IF t = 0 THEN {} ELSE {t} \cup g[caps[t].up]
    <3>1. CASE t = n
      <4>1. caps[n].up \in 0 .. n - 1
        BY DEF Minted
      <4>2. g[n] = {n} \cup f[caps[n].up] /\ n # 0
        BY <1>0, <2>2
      <4>3. g[caps[n].up] = f[caps[n].up]
        BY <2>3, <4>1
      <4> QED BY <3>1, <4>2, <4>3
    <3>2. CASE t # n /\ t # 0
      <4>1. t \in 1 .. Len(caps) /\ t \in 0 .. n - 1
        BY <1>0, <3>2
      <4>2. caps[t].up \in 0 .. t - 1
        BY <4>1 DEF Minted
      <4>3. caps[t].up \in 0 .. n - 1
        BY <1>0, <4>1, <4>2
      <4>4. f[t] = {t} \cup f[caps[t].up]
        BY <2>1, <3>2, <4>1
      <4> QED BY <2>3, <3>2, <4>1, <4>3, <4>4
    <3>3. CASE t # n /\ t = 0
      <4>1. 0 \in 0 .. n - 1
        BY <1>0, <3>3
      <4>2. f[0] = {}
        BY <2>1, <4>1
      <4> QED BY <2>3, <3>3, <4>1, <4>2
    <3> QED BY <3>1, <3>2, <3>3
  <2>5. g = [t \in 0 .. n |-> IF t = 0 THEN {} ELSE {t} \cup g[caps[t].up]]
    <3>1. g = [t \in 0 .. n |-> g[t]]
      BY <2>2
    <3> QED BY <2>4, <3>1
  <2> QED BY <2>5
<1> HIDE DEF Good
<1>3. Bad = {}
  <2>1. SUFFICES ASSUME Bad # {} PROVE FALSE
    OBVIOUS
  <2>2. Bad \subseteq Nat
    BY <1>0
  <2>3. PICK n \in Bad : \A y \in Bad : n <= y
    BY <2>1, <2>2, LeastOf
  <2>4. n \in 0 .. Len(caps) /\ ~Good(n)
    OBVIOUS
  <2>5. n # 0
    BY <1>1, <2>4
  <2>6. n \in 1 .. Len(caps) /\ n - 1 \in 0 .. Len(caps) /\ ~(n <= n - 1)
    BY <1>0, <2>4, <2>5
  <2>7. ~(n - 1 \in Bad)
    BY <2>3, <2>6
  <2>8. Good(n - 1)
    BY <2>6, <2>7
  <2> QED BY <1>2, <2>4, <2>6, <2>8
<1>4. Good(Len(caps))
  BY <1>0, <1>3
<1> QED BY <1>4 DEF G!Chain, Good

LEMMA ChainStep ==
  ASSUME Minted
  PROVE  /\ G!Chain[0] = {}
         /\ \A t \in 1 .. Len(caps) : G!Chain[t] = {t} \cup G!Chain[caps[t].up]
<1>1. Len(caps) \in Nat
  BY DEF Minted
<1>2. 0 \in 0 .. Len(caps) /\ \A t \in 1 .. Len(caps) : t \in 0 .. Len(caps) /\ t # 0
  BY <1>1
<1> HIDE DEF G!Chain
<1>3. PICK f : f = G!Chain
  OBVIOUS
<1>4. f = [t \in 0 .. Len(caps) |-> IF t = 0 THEN {} ELSE {t} \cup f[caps[t].up]]
  BY <1>3, ChainIs
<1>5. f[0] = {} /\ \A t \in 1 .. Len(caps) : f[t] = {t} \cup f[caps[t].up]
  BY <1>2, <1>4
<1> QED BY <1>3, <1>5

LEMMA ChainBelow ==
  ASSUME Minted PROVE \A t \in 0 .. Len(caps) : G!Chain[t] \subseteq 1 .. t
<1>1. Len(caps) \in Nat
  BY DEF Minted
<1> DEFINE Bad == {t \in 0 .. Len(caps) : ~(G!Chain[t] \subseteq 1 .. t)}
<1>2. SUFFICES ASSUME Bad # {} PROVE FALSE
  OBVIOUS
<1>3. PICK t \in Bad : \A u \in Bad : t <= u
  <2>1. Bad \subseteq Nat
    BY <1>1
  <2> HIDE DEF Bad
  <2> QED BY <1>2, <2>1, LeastOf
<1>4. t \in 0 .. Len(caps) /\ ~(G!Chain[t] \subseteq 1 .. t)
  OBVIOUS
<1>5. t # 0
  BY <1>4, ChainStep
<1>6. t \in 1 .. Len(caps) /\ t \in Nat
  BY <1>1, <1>4, <1>5
<1>7. PICK u : u = caps[t].up
  OBVIOUS
<1>8. u \in 0 .. t - 1 /\ u \in 0 .. Len(caps) /\ ~(t <= u) /\ 1 .. u \subseteq 1 .. t /\ t \in 1 .. t
  BY <1>1, <1>6, <1>7, MintedFields
<1>9. G!Chain[u] \subseteq 1 .. u
  BY <1>3, <1>8
<1>10. G!Chain[t] = {t} \cup G!Chain[u]
  BY <1>6, <1>7, ChainStep
<1> QED BY <1>4, <1>8, <1>9, <1>10

\* What verify_chain asks of one link.
Link(s, u, a) ==
    IF caps[u].up = 0
    THEN caps[u].by \in G!Issuers(s) /\ G!Verify(s, u, caps[u].by, a)
    ELSE /\ "share" \in caps[caps[u].up].actions
         /\ caps[u].actions \subseteq caps[caps[u].up].actions
         /\ caps[u].exp <= caps[caps[u].up].exp /\ caps[caps[u].up].key # Bearer
         /\ G!Verify(s, u, caps[caps[u].up].key, a)

\* verify_chain asks it of every link.
LEMMA VerifyAll ==
  ASSUME Minted, NEW s, NEW a, NEW t \in 1 .. Len(caps)
  PROVE  G!VerifyChain(s, t, a) <=> \A u \in G!Chain[t] : Link(s, u, a)
<1>0. Len(caps) \in Nat /\ t \in Nat /\ 1 .. t \subseteq 1 .. Len(caps) /\ t \in 1 .. t
  BY DEF Minted
<1> DEFINE Body(f, i) ==
      IF caps[i].up = 0
      THEN caps[i].by \in G!Issuers(s) /\ G!Verify(s, i, caps[i].by, a)
      ELSE LET p == caps[caps[i].up] IN
           /\ "share" \in p.actions /\ caps[i].actions \subseteq p.actions
           /\ caps[i].exp <= p.exp /\ p.key # Bearer
           /\ G!Verify(s, i, p.key, a)
           /\ f[caps[i].up]
<1> DEFINE Ok == CHOOSE ok : ok = [i \in 1 .. t |-> Body(ok, i)]
<1>1. G!VerifyChain(s, t, a) = Ok[t]
  BY DEF G!VerifyChain
<1>10. \A f, i : Body(f, i) <=> Link(s, i, a) /\ (caps[i].up # 0 => f[caps[i].up])
  BY DEF Link
<1>11. \A f, i : Body(f, i) \in BOOLEAN
  BY DEF G!Verify
<1> HIDE DEF Body
<1> DEFINE all == [i \in 1 .. t |-> \A u \in G!Chain[i] : Link(s, u, a)]
<1>2. ASSUME NEW i \in 1 .. t
      PROVE  (\A u \in G!Chain[i] : Link(s, u, a)) <=> Body(all, i)
  <2>1. G!Chain[i] = {i} \cup G!Chain[caps[i].up]
    BY <1>0, ChainStep
  <2>2. CASE caps[i].up = 0
    BY <1>10, <2>1, <2>2, ChainStep
  <2>3. CASE caps[i].up # 0
    <3>1. caps[i].up \in 1 .. t
      BY <1>0, <2>3, MintedFields
    <3>2. all[caps[i].up] <=> \A u \in G!Chain[caps[i].up] : Link(s, u, a)
      BY <3>1
    <3> QED BY <1>10, <2>1, <2>3, <3>2
  <2> QED BY <2>2, <2>3
<1>3. all = [i \in 1 .. t |-> Body(all, i)]
  <2>1. \A i \in 1 .. t : (\A u \in G!Chain[i] : Link(s, u, a)) = Body(all, i)
    BY <1>2, <1>11
  <2> QED BY <2>1
<1>4. Ok = [i \in 1 .. t |-> Body(Ok, i)]
  BY <1>3

<1> DEFINE every(i) == \A u \in G!Chain[i] : Link(s, u, a)
<1>5. \A i \in 1 .. t : Ok[i] = Body(Ok, i)
  <2> HIDE DEF Ok
  <2>1. PICK f : f = Ok
    OBVIOUS
  <2>2. f = [i \in 1 .. t |-> Body(f, i)]
    BY <1>4, <2>1
  <2>3. \A i \in 1 .. t : f[i] = Body(f, i)
    BY <2>2
  <2> QED BY <2>1, <2>3
<1>6. PICK f : f = Ok
  OBVIOUS
<1> HIDE DEF Ok
<1>7. \A i \in 1 .. t : f[i] <=> Link(s, i, a) /\ (caps[i].up # 0 => f[caps[i].up])
  <2>1. \A i \in 1 .. t : f[i] = Body(f, i)
    BY <1>5, <1>6
  <2> QED BY <1>10, <2>1
<1> DEFINE Bad == {i \in 1 .. t : ~(f[i] <=> every(i))}
<1>8. Bad = {}
  <2>1. SUFFICES ASSUME Bad # {} PROVE FALSE
    OBVIOUS
  <2>2. PICK i \in Bad : \A j \in Bad : i <= j
    <3>1. Bad \subseteq Nat
      BY <1>0
    <3> HIDE DEF Bad
    <3> QED BY <2>1, <3>1, LeastOf
  <2>3. i \in 1 .. t /\ ~(f[i] <=> every(i)) /\ i \in 1 .. Len(caps) /\ i \in Nat
    BY <1>0
  <2>4. G!Chain[i] = {i} \cup G!Chain[caps[i].up]
    BY <2>3, ChainStep
  <2>5. CASE caps[i].up = 0
    <3>1. every(i) <=> Link(s, i, a)
      BY <2>4, <2>5, ChainStep
    <3>2. f[i] <=> Link(s, i, a)
      BY <1>7, <2>3, <2>5
    <3> QED BY <2>3, <3>1, <3>2
  <2>6. CASE caps[i].up # 0
    <3>1. PICK j : j = caps[i].up
      OBVIOUS
    <3>2. j \in 1 .. t /\ ~(i <= j)
      BY <1>0, <2>3, <2>6, <3>1, MintedFields
    <3>3. f[j] <=> every(j)
      BY <2>2, <3>2
    <3>4. every(i) <=> Link(s, i, a) /\ every(j)
      BY <2>4, <3>1
    <3>5. f[i] <=> Link(s, i, a) /\ f[j]
      BY <1>7, <2>3, <2>6, <3>1
    <3> QED BY <2>3, <3>3, <3>4, <3>5
  <2> QED BY <2>5, <2>6
<1>9. f[t] <=> every(t)
  BY <1>0, <1>8
<1> QED BY <1>1, <1>6, <1>9

\* Every link of a chain grants what the token at its end grants.
LEMMA ChainActions ==
  ASSUME Minted
  PROVE  \A t \in 1 .. Len(caps) : \A u \in G!Chain[t] : caps[t].actions \subseteq caps[u].actions
<1>1. Len(caps) \in Nat
  BY DEF Minted
<1> DEFINE Grants(t) == \A u \in G!Chain[t] : caps[t].actions \subseteq caps[u].actions
           Bad == {t \in 1 .. Len(caps) : ~Grants(t)}
<1>2. SUFFICES ASSUME Bad # {} PROVE FALSE
  OBVIOUS
<1>3. PICK t \in Bad : \A u \in Bad : t <= u
  <2>1. Bad \subseteq Nat
    BY <1>1
  <2> HIDE DEF Bad
  <2> QED BY <1>2, <2>1, LeastOf
<1>4. t \in 1 .. Len(caps) /\ ~Grants(t) /\ t \in Nat
  BY <1>1
<1>5. PICK u : u = caps[t].up
  OBVIOUS
<1>6. G!Chain[t] = {t} \cup G!Chain[u]
  BY <1>4, <1>5, ChainStep
<1>7. u # 0
  BY <1>4, <1>6, ChainStep
<1>8. u \in 1 .. Len(caps) /\ ~(t <= u)
  BY <1>1, <1>4, <1>5, <1>7, MintedFields
<1>9. Grants(u)
  BY <1>3, <1>8
<1>10. caps[t].actions \subseteq caps[u].actions
  BY <1>4, <1>5, <1>7 DEF Minted, Derived
<1> QED BY <1>4, <1>6, <1>9, <1>10

\* What the commands mint passes verify_chain at the device of the root.
LEMMA MintedAreHonoured ==
  ASSUME Minted PROVE G!MintedWorks
<1> SUFFICES ASSUME NEW t \in DOMAIN caps, NEW a \in caps[t].actions,
                    \A u \in G!Chain[t] : caps[u].exp > gclock
                                          /\ u \notin revoked \cap G!Listed(Host)
             PROVE  G!VerifyChain(Host, t, a)
  BY DEF G!MintedWorks
<1>1. Len(caps) \in Nat /\ t \in 1 .. Len(caps)
  BY DEF Minted
<1>2. ASSUME NEW u \in G!Chain[t] PROVE Link(Host, u, a)
  <2>1. u \in 1 .. Len(caps)
    BY <1>1, ChainBelow
  <2>2. a \in caps[u].actions
    BY <1>1, ChainActions
  <2>3. \A key : key = caps[u].by => G!Verify(Host, u, key, a)
    BY <2>2 DEF G!Verify
  <2>4. CASE caps[u].up = 0
    <3>1. caps[u].by = Host
      BY <2>1, <2>4 DEF Minted
    <3> QED BY <2>3, <2>4, <3>1 DEF Link, G!Issuers
  <2>5. CASE caps[u].up # 0
    <3>1. Derived(caps[u], caps[caps[u].up])
      BY <2>1, <2>5 DEF Minted
    <3> QED BY <2>3, <2>5, <3>1 DEF Link, Derived
  <2> QED BY <2>4, <2>5
<1> QED BY <1>1, <1>2, VerifyAll

\* A token the commands mint: one the host grants, or one that narrows its
\* parent.
LEMMA MintMinted ==
  ASSUME Minted, NEW x \in GCap, x.actions # {}, G!Mint(x),
         \/ x.up = 0 /\ x.by = Host
         \/ x.up \in DOMAIN caps /\ Derived(x, caps[x.up])
  PROVE  /\ Minted'
         /\ DOMAIN caps \subseteq DOMAIN caps'
<1>1. /\ caps \in Seq(GCap) /\ Len(caps) \in Nat /\ DOMAIN caps = 1 .. Len(caps)
  BY DEF Minted
<1>2. caps' = Append(caps, x)
  BY DEF G!Mint
<1>3. /\ caps' \in Seq(GCap) /\ Len(caps') = Len(caps) + 1
      /\ DOMAIN caps' = 1 .. Len(caps')
      /\ \A t \in 1 .. Len(caps) : caps'[t] = caps[t]
      /\ caps'[Len(caps) + 1] = x
  BY <1>1, <1>2
<1>4. ASSUME NEW t \in 1 .. Len(caps')
      PROVE  /\ caps'[t].up \in 0 .. t - 1 /\ caps'[t].actions # {}
             /\ caps'[t].up = 0 => caps'[t].by = Host
             /\ caps'[t].up # 0 => Derived(caps'[t], caps'[caps'[t].up])
  <2>1. CASE t \in 1 .. Len(caps)
    <3>1. caps'[t] = caps[t]
      BY <1>3, <2>1
    <3>2. caps[t].up # 0 => caps[t].up \in 1 .. Len(caps)
      BY <2>1, MintedFields
    <3>3. caps[t].up # 0 => caps'[caps[t].up] = caps[caps[t].up]
      BY <1>3, <3>2
    <3> QED BY <2>1, <3>1, <3>3 DEF Minted
  <2>2. CASE t \notin 1 .. Len(caps)
    <3>1. t = Len(caps) + 1 /\ caps'[t] = x
      BY <1>1, <1>3, <2>2
    <3>2. CASE x.up = 0 /\ x.by = Host
      BY <1>1, <3>1, <3>2
    <3>3. CASE x.up \in DOMAIN caps /\ Derived(x, caps[x.up])
      <4>1. x.up \in 1 .. Len(caps) /\ caps'[x.up] = caps[x.up] /\ x.up # 0
        BY <1>1, <1>3, <3>3
      <4>2. x.up \in 0 .. t - 1
        BY <1>1, <3>1, <4>1
      <4> QED BY <3>1, <3>3, <4>1, <4>2
    <3> QED BY <3>2, <3>3
  <2> QED BY <2>1, <2>2
<1> QED BY <1>1, <1>3, <1>4 DEF Minted

LEMMA CapIs ==
  ASSUME NEW actions \in SUBSET G!Actions, NEW key \in G!Keys,
         NEW exp \in Nat, NEW by \in Device, NEW up \in Nat,
         NEW x, x = G!Cap(actions, key, exp, by, up)
  PROVE  /\ x \in GCap
         /\ x.actions = actions /\ x.key = key /\ x.exp = exp /\ x.by = by /\ x.up = up
<1>1. [actions |-> actions, key |-> key, exp |-> exp, by |-> by, up |-> up] \in GCap
  BY DEF GCap
<1> QED BY <1>1 DEF G!Cap

LEMMA MintKeepsMinted ==
  ASSUME Minted, Host \in Device, Expiries \subseteq Nat, G!MintStep
  PROVE  /\ Minted'
         /\ DOMAIN caps \subseteq DOMAIN caps'
         /\ \A t \in DOMAIN caps : caps'[t] = caps[t]
         /\ UNCHANGED <<gclock, revoked, from, tok, op, path, to, gdeadline, gpc, req,
                        res, at, gscan, gcur, gsaid, runs, gfaults>>
<1>0. DOMAIN caps = 1 .. Len(caps) /\ caps \in Seq(GCap) /\ Len(caps) \in Nat
  BY DEF Minted
<1>1. PICK x \in GCap : /\ G!Mint(x) /\ x.actions # {}
                        /\ \/ x.up = 0 /\ x.by = Host
                           \/ x.up \in DOMAIN caps /\ Derived(x, caps[x.up])
  <2>1. CASE \E actions \in SUBSET G!Actions, key \in G!Keys, exp \in Expiries :
               G!Share(Host, actions, key, exp) \/ G!ShareFfi(Host, actions, key, exp)
    <3>1. PICK actions \in SUBSET G!Actions, key \in G!Keys, exp \in Expiries :
                G!Share(Host, actions, key, exp) \/ G!ShareFfi(Host, actions, key, exp)
      BY <2>1
    <3>2. PICK e \in Expiries : G!Grant(Host, actions, key, e)
      BY <3>1 DEF G!Share, G!ShareFfi
    <3>3. PICK x : x = G!Cap(actions, key, e, Host, 0)
      OBVIOUS
    <3>4. x \in GCap /\ x.up = 0 /\ x.by = Host /\ x.actions # {}
      <4>1. actions # {} /\ e \in Nat /\ 0 \in Nat
        BY <3>1, <3>2 DEF G!Grant
      <4> QED BY <3>1, <3>3, <4>1, CapIs
    <3>5. G!Mint(x)
      BY <3>2, <3>3 DEF G!Grant
    <3> QED BY <3>4, <3>5
  <2>2. CASE \E d \in Device \ {Host}, p \in DOMAIN caps, actions \in SUBSET G!Actions,
               key \in G!Keys, exp \in Expiries :
               \/ G!DelegateCli(d, p, actions, key, exp)
               \/ G!DelegateFfi(d, p, actions, key, exp)
    <3>1. PICK d \in Device \ {Host}, p \in DOMAIN caps, actions \in SUBSET G!Actions,
               key \in G!Keys, exp \in Expiries :
               \/ G!DelegateCli(d, p, actions, key, exp)
               \/ G!DelegateFfi(d, p, actions, key, exp)
      BY <2>2
    <3>2. caps[p].key = d /\ caps[p].exp \in Nat /\ p \in Nat
      BY <1>0, <3>1, MintedFields DEF G!DelegateCli, G!DelegateFfi
    <3>3. PICK e : e \in Nat /\ G!Delegate(d, p, actions, key, e)
      BY <3>1, <3>2 DEF G!DelegateCli, G!DelegateFfi
    <3>4. PICK x : x = G!Cap(actions, key, e, d, p)
      OBVIOUS
    <3>5. /\ x.actions = actions /\ x.key = key /\ x.exp = e /\ x.by = d /\ x.up = p
          /\ x \in GCap /\ x.actions # {}
      BY <3>1, <3>2, <3>3, <3>4, CapIs DEF G!Delegate
    <3>6. Derived(x, caps[x.up])
      BY <3>2, <3>3, <3>5 DEF Derived, G!Delegate, G!Narrows
    <3>7. G!Mint(x)
      BY <3>3, <3>4 DEF G!Delegate
    <3> QED BY <3>5, <3>6, <3>7
  <2> QED BY <2>1, <2>2 DEF G!MintStep
<1>2. caps' = Append(caps, x)
  BY <1>1 DEF G!Mint
<1>3. \A t \in DOMAIN caps : caps'[t] = caps[t]
  BY <1>0, <1>2
<1>4. UNCHANGED <<gclock, revoked, from, tok, op, path, to, gdeadline, gpc, req,
                  res, at, gscan, gcur, gsaid, runs, gfaults>>
  BY <1>1 DEF G!Mint, G!request, G!server
<1> QED BY <1>1, <1>3, <1>4, MintMinted

\* What the guests and the serving devices are doing has its types, and a call
\* was made with a token that exists.
GTyped ==
    /\ gclock \in 0 .. GuestTime /\ gfaults \in 0 .. MaxFaults
    /\ revoked \subseteq DOMAIN caps /\ req \subseteq Calls
    /\ tok \in [Calls -> Nat] /\ to \in [Calls -> Device] /\ runs \in [Calls -> Nat]
    /\ gpc \in [Calls -> {"new", "poll", "ok", "refused", "timeout", "error"}]
    /\ res \in [Calls -> {"none", "ok", "refused"}]
    /\ at \in [Device -> {"idle", "scan", "answer", "delete"}]
    /\ gscan \in [Device -> SUBSET Calls] /\ gcur \in [Device -> Calls \cup {NoCall}]
    /\ gsaid \in [Device -> {"none", "ok", "refused"}]

\* A call that was made names its token and the device that serves it.
Sent ==
    /\ \A c \in Calls : gpc[c] # "new" => tok[c] \in DOMAIN caps
    /\ \A c \in req : gpc[c] # "new"
    /\ \A s \in Device : \A c \in gscan[s] : gpc[c] # "new" /\ to[c] = s
    /\ \A s \in Device : gcur[s] \in Calls =>
          gpc[gcur[s]] # "new" /\ to[gcur[s]] = s /\ gcur[s] \notin gscan[s]

Passing ==
    \A s \in Device :
        /\ gcur[s] \in Calls <=> at[s] \in {"answer", "delete"}
        /\ at[s] = "idle" => gscan[s] = {}

\* A call still to be served: not made, listed in a pass, or on the transport
\* and in no device's hand.
Owed(c) == gpc[c] = "new" \/ c \in gscan[to[c]] \/ (c \in req /\ gcur[to[c]] # c)

\* What was run once is owed again only after something failed.
RunsBounded ==
    \A c \in Calls : runs[c] <= 1 + gfaults /\ (Owed(c) => runs[c] <= gfaults)

\* Success is told of what was done.
SaidTrue ==
    /\ \A c \in Calls : res[c] = "ok" \/ gpc[c] = "ok" => runs[c] > 0
    /\ \A s \in Device : gsaid[s] = "ok" => gcur[s] \in Calls /\ runs[gcur[s]] > 0

GInv == Minted /\ GTyped /\ Sent /\ Passing /\ RunsBounded /\ SaidTrue

LEMMA GuestInit == ASSUME Host \in Device, G!Init PROVE GInv
<1>1. Minted
  BY DEF G!Init, G!InitAt, Minted
<1>2. GTyped
  BY BrokerAssumption, GuestAssumption DEF G!Init, G!InitAt, GTyped
<1>3. Sent /\ Passing
  BY BrokerAssumption DEF G!Init, G!InitAt, Sent, Passing
<1>4. RunsBounded
  BY DEF G!Init, G!InitAt, RunsBounded
<1>5. SaidTrue
  BY DEF G!Init, G!InitAt, SaidTrue
<1> QED BY <1>1, <1>2, <1>3, <1>4, <1>5 DEF GInv

LEMMA GuestMint ==
  ASSUME GInv, Host \in Device, Expiries \subseteq Nat, G!MintStep
  PROVE  GInv'
<1>1. /\ Minted' /\ DOMAIN caps \subseteq DOMAIN caps'
      /\ UNCHANGED <<gclock, revoked, from, tok, op, path, to, gdeadline, gpc, req,
                     res, at, gscan, gcur, gsaid, runs, gfaults>>
  BY MintKeepsMinted DEF GInv
<1>2. GTyped'
  BY <1>1 DEF GInv, GTyped
<1>3. Sent'
  BY <1>1 DEF GInv, Sent
<1>4. Passing'
  BY <1>1 DEF GInv, Passing
<1>5. RunsBounded'
  BY <1>1 DEF GInv, RunsBounded, Owed
<1>6. SaidTrue'
  BY <1>1 DEF GInv, SaidTrue
<1> QED BY <1>1, <1>2, <1>3, <1>4, <1>5, <1>6 DEF GInv

\* Revocations and the clock change nothing a guest or a server looks after.
LEMMA GuestQuiet ==
  ASSUME GInv,
         \/ G!RevokeStep \/ G!Tick
         \/ UNCHANGED <<gclock, caps, revoked, from, tok, op, path, to, gdeadline, gpc,
                        req, res, at, gscan, gcur, gsaid, runs, gfaults>>
  PROVE  GInv'
<1>1. /\ UNCHANGED <<caps, from, tok, op, path, to, gdeadline, gpc, req,
                     res, at, gscan, gcur, gsaid, runs, gfaults>>
      /\ revoked' \subseteq DOMAIN caps /\ gclock' \in 0 .. GuestTime
  <2>1. CASE G!RevokeStep
    <3>1. PICK t \in DOMAIN caps : G!Tombstone(t)
      BY <2>1 DEF G!RevokeStep, G!RevokeCli, G!RevokeFfi
    <3> QED BY <3>1 DEF G!Tombstone, G!request, G!server, GInv, GTyped
  <2>2. CASE G!Tick
    BY <2>2, BrokerAssumption, GuestAssumption DEF G!Tick, G!tokens, G!request, G!server, GInv, GTyped
  <2>3. CASE UNCHANGED <<gclock, caps, revoked, from, tok, op, path, to, gdeadline, gpc,
                         req, res, at, gscan, gcur, gsaid, runs, gfaults>>
    BY <2>3 DEF GInv, GTyped
  <2> QED BY <2>1, <2>2, <2>3
<1>2. Minted'
  BY <1>1 DEF GInv, Minted
<1>3. GTyped'
  BY <1>1 DEF GInv, GTyped
<1>4. Sent' /\ Passing'
  BY <1>1 DEF GInv, Sent, Passing
<1>5. RunsBounded'
  BY <1>1 DEF GInv, RunsBounded, Owed
<1>6. SaidTrue'
  BY <1>1 DEF GInv, SaidTrue
<1> QED BY <1>2, <1>3, <1>4, <1>5, <1>6 DEF GInv

\* A fault, or none.
LEMMA FaultIs ==
  ASSUME GTyped, G!Fault \/ gfaults' = gfaults
  PROVE  /\ gfaults' \in 0 .. MaxFaults /\ gfaults \in Nat /\ gfaults' \in Nat
         /\ gfaults <= gfaults'
         /\ G!Fault => gfaults' = gfaults + 1
  BY BrokerAssumption DEF GTyped, G!Fault

LEMMA GuestAsk ==
  ASSUME GInv, NEW c \in Calls, NEW d \in Device, NEW t \in DOMAIN caps, NEW o, NEW p,
         NEW s \in Device, G!Ask(c, d, t, o, p, s)
  PROVE  GInv'
<1>1. /\ gpc[c] = "new"
      /\ tok' = [tok EXCEPT ![c] = t] /\ to' = [to EXCEPT ![c] = s]
      /\ req' = req \cup {c}
      /\ UNCHANGED <<gclock, caps, revoked, res, at, gscan, gcur, gsaid, runs>>
  BY DEF G!Ask, G!Send, G!tokens, G!server
<1>2. PICK now : now \in {"poll", "error"} /\ gpc' = [gpc EXCEPT ![c] = now]
  BY DEF G!Ask
<1>3. G!Fault \/ gfaults' = gfaults
  BY DEF G!Ask
<1>4. GTyped /\ GTyped'
  <2>1. t \in Nat
    BY DEF GInv, Minted
  <2> QED BY <1>1, <1>2, <1>3, <2>1, FaultIs DEF GInv, GTyped
<1>5. /\ \A x \in Calls : gpc'[x] = IF x = c THEN now ELSE gpc[x]
      /\ \A x \in Calls : to'[x] = IF x = c THEN s ELSE to[x]
      /\ \A x \in Calls : tok'[x] = IF x = c THEN t ELSE tok[x]
  BY <1>1, <1>2, <1>4 DEF GTyped
<1>6. Minted'
  BY <1>1 DEF GInv, Minted
<1>7. Sent'
  <2>1. \A x \in Calls : gpc'[x] # "new" => tok'[x] \in DOMAIN caps'
    BY <1>1, <1>5 DEF GInv, Sent
  <2>2. \A x \in req' : gpc'[x] # "new"
    BY <1>1, <1>2, <1>4, <1>5 DEF GInv, Sent, GTyped
  <2>3. \A y \in Device : \A x \in gscan'[y] : gpc'[x] # "new" /\ to'[x] = y
    <3>1. \A y \in Device : \A x \in gscan[y] : x \in Calls /\ x # c
      BY <1>1, <1>4 DEF GInv, Sent, GTyped
    <3> QED BY <1>1, <1>5, <3>1 DEF GInv, Sent
  <2>4. ASSUME NEW y \in Device, gcur'[y] \in Calls
        PROVE  gpc'[gcur'[y]] # "new" /\ to'[gcur'[y]] = y /\ gcur'[y] \notin gscan'[y]
    <3>1. gcur'[y] = gcur[y] /\ gcur[y] # c /\ gcur[y] \in Calls
      BY <1>1, <2>4 DEF GInv, Sent
    <3> QED BY <1>1, <1>5, <3>1 DEF GInv, Sent
  <2> QED BY <2>1, <2>2, <2>3, <2>4 DEF Sent
<1>8. Passing'
  BY <1>1 DEF GInv, Passing
<1>9. RunsBounded'
  <2> SUFFICES ASSUME NEW x \in Calls
               PROVE  /\ runs'[x] <= 1 + gfaults'
                      /\ Owed(x)' => runs'[x] <= gfaults'
    BY DEF RunsBounded
  <2>0. runs'[x] = runs[x] /\ runs[x] \in Nat /\ gfaults \in Nat /\ gfaults' \in Nat
        /\ gfaults <= gfaults'
    BY <1>1, <1>3, <1>4, FaultIs DEF GTyped
  <2>1. runs[x] <= 1 + gfaults /\ (Owed(x) => runs[x] <= gfaults)
    BY DEF GInv, RunsBounded
  <2>2. Owed(x)' => Owed(x)
    <3>1. CASE x = c
      BY <1>1, <3>1 DEF Owed
    <3>2. CASE x # c
      BY <1>1, <1>5, <3>2 DEF Owed
    <3> QED BY <3>1, <3>2
  <2> QED BY <2>0, <2>1, <2>2
<1>10. SaidTrue'
  <2>1. \A x \in Calls : gpc'[x] = "ok" => gpc[x] = "ok"
    BY <1>2, <1>5
  <2> QED BY <1>1, <2>1 DEF GInv, SaidTrue
<1> QED BY <1>4, <1>6, <1>7, <1>8, <1>9, <1>10 DEF GInv

\* A guest that polls goes on to what it heard, or gives up.
LEMMA GuestHears ==
  ASSUME GInv, NEW c \in Calls, G!Open(c) \/ G!PollFails(c) \/ G!GiveUp(c)
  PROVE  GInv'
<1>1. /\ gpc[c] = "poll"
      /\ UNCHANGED <<gclock, caps, revoked, tok, to, req, at, gscan, gcur, gsaid, runs>>
      /\ \A x \in Calls : res'[x] = res[x] \/ res'[x] = "none"
      /\ res' \in [Calls -> {"none", "ok", "refused"}]
  <2>1. UNCHANGED <<gclock, caps, revoked, tok, to, req, at, gscan, gcur, gsaid, runs>>
        /\ gpc[c] = "poll"
    BY DEF G!Open, G!PollFails, G!GiveUp, G!tokens, G!request, G!server
  <2>2. res' = res \/ res' = [res EXCEPT ![c] = "none"]
    BY DEF G!Open, G!PollFails, G!GiveUp
  <2> QED BY <2>1, <2>2 DEF GInv, GTyped
<1>2. PICK now : /\ now \in {"ok", "refused", "error", "timeout"}
                 /\ now = "ok" => res[c] = "ok"
                 /\ gpc' = [gpc EXCEPT ![c] = now]
  <2>1. res[c] \in {"none", "ok", "refused"}
    BY DEF GInv, GTyped
  <2> QED BY <2>1 DEF G!Open, G!PollFails, G!GiveUp
<1>3. G!Fault \/ gfaults' = gfaults
  BY DEF G!Open, G!PollFails, G!GiveUp
<1>4. GTyped /\ GTyped'
  BY <1>1, <1>2, <1>3, FaultIs DEF GInv, GTyped
<1>5. \A x \in Calls : gpc'[x] = IF x = c THEN now ELSE gpc[x]
  BY <1>2, <1>4 DEF GTyped
<1>50. \A x \in Calls : gpc'[x] # "new" <=> gpc[x] # "new"
  BY <1>1, <1>2, <1>5
<1>6. Minted'
  BY <1>1 DEF GInv, Minted
<1>7. Sent'
  <2>1. req \subseteq Calls /\ \A y \in Device : gscan[y] \subseteq Calls
    BY <1>4 DEF GTyped
  <2> QED BY <1>1, <1>50, <2>1 DEF GInv, Sent
<1>8. Passing'
  BY <1>1 DEF GInv, Passing
<1>9. RunsBounded'
  <2> SUFFICES ASSUME NEW x \in Calls
               PROVE  /\ runs'[x] <= 1 + gfaults'
                      /\ Owed(x)' => runs'[x] <= gfaults'
    BY DEF RunsBounded
  <2>0. runs'[x] = runs[x] /\ runs[x] \in Nat /\ gfaults \in Nat /\ gfaults' \in Nat
        /\ gfaults <= gfaults'
    BY <1>1, <1>3, <1>4, FaultIs DEF GTyped
  <2>1. runs[x] <= 1 + gfaults /\ (Owed(x) => runs[x] <= gfaults)
    BY DEF GInv, RunsBounded
  <2>2. Owed(x)' => Owed(x)
    BY <1>1, <1>50 DEF Owed
  <2> QED BY <2>0, <2>1, <2>2
<1>10. SaidTrue'
  <2>1. \A x \in Calls : gpc'[x] = "ok" => gpc[x] = "ok" \/ res[x] = "ok"
    BY <1>2, <1>5
  <2>2. \A x \in Calls : res'[x] = "ok" => res[x] = "ok"
    BY <1>1
  <2>3. \A x \in Calls : res'[x] = "ok" \/ gpc'[x] = "ok" => runs'[x] > 0
    BY <1>1, <2>1, <2>2 DEF GInv, SaidTrue
  <2>4. \A s \in Device : gsaid'[s] = "ok" => gcur'[s] \in Calls /\ runs'[gcur'[s]] > 0
    BY <1>1 DEF GInv, SaidTrue
  <2> QED BY <2>3, <2>4 DEF SaidTrue
<1> QED BY <1>4, <1>6, <1>7, <1>8, <1>9, <1>10 DEF GInv

\* What every step of a serving device leaves alone.
LEMMA ServeFrame ==
  ASSUME GInv, NEW s \in Device, G!ServeGuests(s) \/ G!PassFails(s)
  PROVE  /\ UNCHANGED <<gclock, caps, revoked, from, tok, op, path, to, gdeadline, gpc>>
         /\ G!Fault \/ gfaults' = gfaults
         /\ req' \subseteq req
         /\ \A y \in Device \ {s} : /\ at'[y] = at[y] /\ gscan'[y] = gscan[y]
                                    /\ gcur'[y] = gcur[y] /\ gsaid'[y] = gsaid[y]
<1>1. UNCHANGED <<gclock, caps, revoked, from, tok, op, path, to, gdeadline, gpc>>
  BY DEF G!ServeGuests, G!Pass, G!Drop, G!Run, G!Answer, G!Delete, G!EndPass, G!PassFails,
     G!tokens, G!request
<1>2. req' \subseteq req /\ (G!Fault \/ gfaults' = gfaults)
  BY DEF G!ServeGuests, G!Pass, G!Drop, G!Run, G!Answer, G!Delete, G!EndPass, G!PassFails,
     G!DropRequest
<1>3. \A y \in Device \ {s} : at'[y] = at[y]
  BY DEF GInv, GTyped, G!ServeGuests, G!Pass, G!Drop, G!Run, G!Answer, G!Delete, G!EndPass,
     G!PassFails, G!Reset
<1>4. \A y \in Device \ {s} : gscan'[y] = gscan[y]
  BY DEF GInv, GTyped, G!ServeGuests, G!Pass, G!Drop, G!Run, G!Answer, G!Delete, G!EndPass,
     G!PassFails, G!Reset
<1>5. \A y \in Device \ {s} : gcur'[y] = gcur[y]
  BY DEF GInv, GTyped, G!ServeGuests, G!Pass, G!Drop, G!Run, G!Answer, G!Delete, G!EndPass,
     G!PassFails, G!Reset
<1>6. \A y \in Device \ {s} : gsaid'[y] = gsaid[y]
  BY DEF GInv, GTyped, G!ServeGuests, G!Pass, G!Drop, G!Run, G!Answer, G!Delete, G!EndPass,
     G!PassFails, G!Reset
<1> QED BY <1>1, <1>2, <1>3, <1>4, <1>5, <1>6

\* What remains to be shown of a step of s: the state of its own pass, and the
\* calls it may have run.
Own(s) ==
    /\ gcur[s] \in Calls <=> at[s] \in {"answer", "delete"}
    /\ at[s] = "idle" => gscan[s] = {}
    /\ \A c \in gscan[s] : gpc[c] # "new" /\ to[c] = s
    /\ gcur[s] \in Calls =>
          gpc[gcur[s]] # "new" /\ to[gcur[s]] = s /\ gcur[s] \notin gscan[s]
    /\ gsaid[s] = "ok" => gcur[s] \in Calls /\ runs[gcur[s]] > 0

LEMMA OwnHolds == ASSUME GInv, NEW s \in Device PROVE Own(s)
  BY DEF GInv, Sent, Passing, SaidTrue, Own

LEMMA ServeKeeps ==
  ASSUME GInv, NEW s \in Device, G!ServeGuests(s) \/ G!PassFails(s),
         GTyped', Own(s)',
         \A c \in Calls : runs[c] <= runs'[c],
         \A c \in Calls : res'[c] = "ok" => runs'[c] > 0,
         \A c \in Calls : to[c] # s => runs'[c] = runs[c],
         \A c \in Calls : to[c] = s => /\ runs'[c] <= 1 + gfaults'
                                       /\ Owed(c)' => runs'[c] <= gfaults'
  PROVE  GInv'
<1>1. /\ UNCHANGED <<gclock, caps, revoked, from, tok, op, path, to, gdeadline, gpc>>
      /\ G!Fault \/ gfaults' = gfaults
      /\ req' \subseteq req
      /\ \A y \in Device \ {s} : /\ at'[y] = at[y] /\ gscan'[y] = gscan[y]
                                 /\ gcur'[y] = gcur[y] /\ gsaid'[y] = gsaid[y]
  BY ServeFrame
<1>2. Minted' /\ GTyped
  BY <1>1 DEF GInv, Minted
<1>3. \A y \in Device : Own(y)'
  <2>1. ASSUME NEW y \in Device \ {s} PROVE Own(y)'
    <3>1. Own(y)
      BY OwnHolds
    <3>2. gcur[y] \in Calls /\ runs[gcur[y]] > 0 => runs'[gcur[y]] > 0
      <4>1. ASSUME gcur[y] \in Calls, runs[gcur[y]] > 0 PROVE runs'[gcur[y]] > 0
        <5>1. runs[gcur[y]] <= runs'[gcur[y]] /\ runs[gcur[y]] \in Nat /\ runs'[gcur[y]] \in Nat
          BY <1>2, <4>1 DEF GTyped
        <5> QED BY <4>1, <5>1
      <4> QED BY <4>1
    <3> QED BY <1>1, <3>1, <3>2 DEF Own
  <2> QED BY <2>1
<1>4. Sent'
  <2>1. \A c \in Calls : gpc'[c] # "new" => tok'[c] \in DOMAIN caps'
    BY <1>1 DEF GInv, Sent
  <2>2. \A c \in req' : gpc'[c] # "new"
    BY <1>1 DEF GInv, Sent
  <2> QED BY <1>3, <2>1, <2>2 DEF Own, Sent
<1>5. Passing'
  BY <1>3 DEF Own, Passing
<1>6. SaidTrue'
  <2>1. ASSUME NEW c \in Calls, gpc'[c] = "ok" PROVE runs'[c] > 0
    <3>1. runs[c] > 0 /\ runs[c] <= runs'[c] /\ runs[c] \in Nat /\ runs'[c] \in Nat
      BY <1>1, <1>2, <2>1 DEF GInv, GTyped, SaidTrue
    <3> QED BY <3>1
  <2> QED BY <1>3, <2>1 DEF Own, SaidTrue
<1>7. RunsBounded'
  <2> SUFFICES ASSUME NEW c \in Calls
               PROVE  /\ runs'[c] <= 1 + gfaults'
                      /\ Owed(c)' => runs'[c] <= gfaults'
    BY DEF RunsBounded
  <2>1. CASE to[c] = s
    BY <2>1
  <2>2. CASE to[c] # s
    <3>0. runs'[c] = runs[c] /\ runs[c] \in Nat /\ gfaults \in Nat /\ gfaults' \in Nat
          /\ gfaults <= gfaults'
      BY <1>1, <1>2, <2>2, FaultIs DEF GTyped
    <3>1. runs[c] <= 1 + gfaults /\ (Owed(c) => runs[c] <= gfaults)
      BY DEF GInv, RunsBounded
    <3>2. to[c] \in Device \ {s} /\ to'[c] = to[c]
      BY <1>1, <1>2, <2>2 DEF GTyped
    <3>3. Owed(c)' => Owed(c)
      BY <1>1, <3>2 DEF Owed
    <3> QED BY <3>0, <3>1, <3>3
  <2> QED BY <2>1, <2>2
<1> QED BY <1>2, <1>4, <1>5, <1>6, <1>7 DEF GInv

\* Steps that run nothing: what was owed stays so, or something failed.
LEMMA ServeQuiet ==
  ASSUME GInv, NEW s \in Device, G!ServeGuests(s) \/ G!PassFails(s),
         GTyped', Own(s)', runs' = runs,
         \A c \in Calls : res'[c] = "ok" => runs'[c] > 0,
         G!Fault \/ \A c \in Calls : to[c] = s /\ Owed(c)' => Owed(c)
  PROVE  GInv'
<1>1. GTyped /\ (G!Fault \/ gfaults' = gfaults)
  BY ServeFrame DEF GInv
<1>2. ASSUME NEW c \in Calls
      PROVE  /\ runs[c] <= runs'[c]
             /\ to[c] = s => /\ runs'[c] <= 1 + gfaults'
                             /\ Owed(c)' => runs'[c] <= gfaults'
  <2>1. runs'[c] = runs[c] /\ runs[c] \in Nat /\ gfaults \in Nat /\ gfaults' \in Nat
        /\ gfaults <= gfaults' /\ (G!Fault => gfaults' = gfaults + 1)
    BY <1>1, FaultIs DEF GTyped
  <2>2. runs[c] <= 1 + gfaults /\ (Owed(c) => runs[c] <= gfaults)
    BY DEF GInv, RunsBounded
  <2>3. CASE G!Fault
    BY <2>1, <2>2, <2>3
  <2>4. CASE \A x \in Calls : to[x] = s /\ Owed(x)' => Owed(x)
    BY <2>1, <2>2, <2>4
  <2> QED BY <2>3, <2>4
<1> QED BY <1>2, ServeKeeps

LEMMA GuestPass == ASSUME GInv, NEW s \in Device, G!Pass(s) PROVE GInv'
<1>1. /\ at[s] = "idle" /\ at' = [at EXCEPT ![s] = "scan"]
      /\ gscan' = [gscan EXCEPT ![s] = G!Mine(s)]
      /\ UNCHANGED <<gclock, gfaults, caps, revoked, tok, to, gpc, req, res, gcur, gsaid, runs>>
  BY DEF G!Pass, G!tokens, G!request
<1>2. G!Mine(s) \subseteq Calls /\ \A c \in G!Mine(s) : c \in req /\ to[c] = s
  BY DEF G!Mine, GInv, GTyped
<1>3. GTyped /\ GTyped'
  BY <1>1, <1>2 DEF GInv, GTyped
<1>4. at'[s] = "scan" /\ gscan'[s] = G!Mine(s) /\ gcur'[s] = gcur[s] /\ gsaid'[s] = gsaid[s]
  BY <1>1, <1>3 DEF GTyped
<1>5. Own(s)
  BY OwnHolds
<1>6. gcur[s] \notin Calls
  BY <1>1, <1>5 DEF Own
<1>7. \A c \in G!Mine(s) : gpc'[c] # "new" /\ to'[c] = s
  BY <1>1, <1>2 DEF GInv, Sent
<1>8. Own(s)'
  BY <1>1, <1>4, <1>5, <1>6, <1>7 DEF Own
<1>9. \A c \in Calls : to[c] = s /\ Owed(c)' => Owed(c)
  BY <1>1, <1>2, <1>4, <1>6 DEF Owed
<1>10. \A c \in Calls : res'[c] = "ok" => runs'[c] > 0
  BY <1>1 DEF GInv, SaidTrue
<1>11. runs' = runs
  BY <1>1
<1> QED BY <1>3, <1>8, <1>9, <1>10, <1>11, ServeQuiet DEF G!ServeGuests

LEMMA GuestDrop == ASSUME GInv, NEW s \in Device, NEW c \in Calls, G!Drop(s, c) PROVE GInv'
<1>1. /\ at[s] = "scan" /\ c \in gscan[s]
      /\ gscan' = [gscan EXCEPT ![s] = @ \ {c}]
      /\ UNCHANGED <<gclock, caps, revoked, tok, to, gpc, res, at, gcur, gsaid, runs>>
      /\ \/ req' = req \ {c} /\ gfaults' = gfaults
         \/ req' = req /\ G!Fault
  BY DEF G!Drop, G!DropRequest, G!tokens, G!request
<1>2. G!Fault \/ gfaults' = gfaults
  BY <1>1
<1>3. GTyped /\ GTyped'
  BY <1>1, <1>2, FaultIs DEF GInv, GTyped
<1>4. gscan'[s] = gscan[s] \ {c} /\ \A y \in Device : gscan'[y] \subseteq gscan[y]
  BY <1>1, <1>3 DEF GTyped
<1>5. Own(s)
  BY OwnHolds
<1>8. Own(s)'
  BY <1>1, <1>4, <1>5 DEF Own
<1>9. G!Fault \/ \A x \in Calls : to[x] = s /\ Owed(x)' => Owed(x)
  BY <1>1, <1>4 DEF Owed
<1>10. \A x \in Calls : res'[x] = "ok" => runs'[x] > 0
  BY <1>1 DEF GInv, SaidTrue
<1>11. runs' = runs
  BY <1>1
<1>12. G!ServeGuests(s)
  BY DEF G!ServeGuests
<1> QED BY <1>3, <1>8, <1>9, <1>10, <1>11, <1>12, ServeQuiet

LEMMA GuestRun == ASSUME GInv, NEW s \in Device, NEW c \in Calls, G!Run(s, c) PROVE GInv'
<1>1. /\ at[s] = "scan" /\ c \in gscan[s]
      /\ gscan' = [gscan EXCEPT ![s] = @ \ {c}]
      /\ at' = [at EXCEPT ![s] = "answer"] /\ gcur' = [gcur EXCEPT ![s] = c]
      /\ UNCHANGED <<gclock, gfaults, caps, revoked, tok, to, gpc, req, res>>
  BY DEF G!Run, G!tokens, G!request
<1>2. PICK r : /\ r \in {"ok", "refused"} /\ gsaid' = [gsaid EXCEPT ![s] = r]
               /\ \/ runs' = [runs EXCEPT ![c] = @ + 1]
                  \/ runs' = runs /\ r = "refused"
  BY DEF G!Run
<1>3. GTyped /\ GTyped'
  <2>1. GTyped
    BY DEF GInv
  <2>2. runs' \in [Calls -> Nat]
    BY <1>2, <2>1 DEF GTyped
  <2> QED BY <1>1, <1>2, <2>1, <2>2 DEF GTyped
<1>4. /\ at'[s] = "answer" /\ gscan'[s] = gscan[s] \ {c} /\ gcur'[s] = c /\ gsaid'[s] = r
  BY <1>1, <1>2, <1>3 DEF GTyped
<1>5. /\ \A x \in Calls : x # c => runs'[x] = runs[x]
      /\ runs'[c] = runs[c] + 1 \/ (runs'[c] = runs[c] /\ r = "refused")
      /\ runs[c] \in Nat
  BY <1>2, <1>3 DEF GTyped
<1>6. Own(s)
  BY OwnHolds
<1>7. gpc[c] # "new" /\ to[c] = s /\ gcur[s] \notin Calls
  BY <1>1, <1>6 DEF Own
<1>8. Own(s)'
  <2>1. r = "ok" => runs'[c] > 0
    BY <1>5
  <2>2. gpc'[c] # "new" /\ to'[c] = s /\ c \notin gscan'[s]
    BY <1>1, <1>4, <1>7
  <2>3. \A x \in gscan'[s] : gpc'[x] # "new" /\ to'[x] = s
    BY <1>1, <1>4, <1>6 DEF Own
  <2> QED BY <1>4, <2>1, <2>2, <2>3 DEF Own
<1>9. \A x \in Calls : runs[x] <= runs'[x]
  <2>1. \A x \in Calls : runs[x] \in Nat
    BY <1>3 DEF GTyped
  <2> QED BY <1>5, <2>1
<1>10. \A x \in Calls : res'[x] = "ok" => runs'[x] > 0
  <2>1. ASSUME NEW x \in Calls, res'[x] = "ok" PROVE runs'[x] > 0
    <3>1. runs[x] > 0 /\ runs[x] <= runs'[x] /\ runs[x] \in Nat /\ runs'[x] \in Nat
      BY <1>1, <1>3, <1>9, <2>1 DEF GInv, GTyped, SaidTrue
    <3> QED BY <3>1
  <2> QED BY <2>1
<1>11. \A x \in Calls : to[x] # s => runs'[x] = runs[x]
  BY <1>5, <1>7
<1>12. ASSUME NEW x \in Calls, to[x] = s
       PROVE  runs'[x] <= 1 + gfaults' /\ (Owed(x)' => runs'[x] <= gfaults')
  <2>1. gfaults' = gfaults /\ gfaults \in Nat /\ runs[x] \in Nat
    BY <1>1, <1>3, BrokerAssumption DEF GTyped
  <2>2. runs[x] <= 1 + gfaults /\ (Owed(x) => runs[x] <= gfaults)
    BY DEF GInv, RunsBounded
  <2>3. CASE x = c
    <3>1. Owed(c)
      BY <1>1, <1>7 DEF Owed
    <3>2. ~Owed(c)'
      BY <1>1, <1>4, <1>7 DEF Owed
    <3>3. runs'[c] <= runs[c] + 1 /\ runs[c] <= gfaults
      BY <1>5, <2>2, <2>3, <3>1
    <3>4. runs'[c] \in Nat
      BY <1>3 DEF GTyped
    <3>5. runs'[c] <= 1 + gfaults'
      BY <1>5, <2>1, <3>3, <3>4
    <3> QED BY <2>3, <3>2, <3>5
  <2>4. CASE x # c
    <3>1. runs'[x] = runs[x]
      BY <1>5, <2>4
    <3>2. gcur[s] # x
      BY <1>7
    <3>3. Owed(x)' => Owed(x)
      BY <1>1, <1>4, <1>12, <2>4, <3>2 DEF Owed
    <3> QED BY <2>1, <2>2, <3>1, <3>3
  <2> QED BY <2>3, <2>4
<1>13. G!ServeGuests(s)
  BY DEF G!ServeGuests
<1> QED BY <1>3, <1>8, <1>9, <1>10, <1>11, <1>12, <1>13, ServeKeeps

LEMMA GuestAnswer == ASSUME GInv, NEW s \in Device, G!Answer(s) PROVE GInv'
<1>1. /\ at[s] = "answer" /\ at' = [at EXCEPT ![s] = "delete"]
      /\ res' = [res EXCEPT ![gcur[s]] = gsaid[s]]
      /\ UNCHANGED <<gclock, gfaults, caps, revoked, tok, to, gpc, req, gscan, gcur, gsaid, runs>>
  BY DEF G!Answer, G!tokens, G!request
<1>2. GTyped
  BY DEF GInv
<1>3. GTyped'
  <2>1. gsaid[s] \in {"none", "ok", "refused"}
    BY <1>2 DEF GTyped
  <2>2. res' \in [Calls -> {"none", "ok", "refused"}]
    BY <1>1, <1>2, <2>1 DEF GTyped
  <2> QED BY <1>1, <1>2, <2>2 DEF GTyped
<1>4. at'[s] = "delete"
  BY <1>1, <1>2 DEF GTyped
<1>5. Own(s)
  BY OwnHolds
<1>6. Own(s)'
  BY <1>1, <1>4, <1>5 DEF Own
<1>7. \A c \in Calls : res'[c] = "ok" => runs'[c] > 0
  <2>1. ASSUME NEW c \in Calls, res'[c] = "ok" PROVE runs'[c] > 0
    <3>1. CASE c = gcur[s]
      <4>1. gsaid[s] = "ok"
        BY <1>1, <1>2, <2>1, <3>1 DEF GTyped
      <4> QED BY <1>1, <1>5, <3>1, <4>1 DEF Own
    <3>2. CASE c # gcur[s]
      <4>1. res[c] = "ok"
        BY <1>1, <1>2, <2>1, <3>2 DEF GTyped
      <4> QED BY <1>1, <4>1 DEF GInv, SaidTrue
    <3> QED BY <3>1, <3>2
  <2> QED BY <2>1
<1>8. \A c \in Calls : Owed(c)' => Owed(c)
  BY <1>1 DEF Owed
<1>9. runs' = runs
  BY <1>1
<1> QED BY <1>3, <1>6, <1>7, <1>8, <1>9, ServeQuiet DEF G!ServeGuests

LEMMA GuestDelete == ASSUME GInv, NEW s \in Device, G!Delete(s) PROVE GInv'
<1>1. /\ at[s] = "delete" /\ at' = [at EXCEPT ![s] = "scan"]
      /\ gcur' = [gcur EXCEPT ![s] = NoCall] /\ gsaid' = [gsaid EXCEPT ![s] = "none"]
      /\ UNCHANGED <<gclock, caps, revoked, tok, to, gpc, res, gscan, runs>>
      /\ \/ req' = req \ {gcur[s]} /\ gfaults' = gfaults
         \/ req' = req /\ G!Fault
  BY DEF G!Delete, G!DropRequest, G!tokens, G!request
<1>2. G!Fault \/ gfaults' = gfaults
  BY <1>1
<1>3. GTyped /\ GTyped'
  BY <1>1, <1>2, FaultIs DEF GInv, GTyped
<1>4. at'[s] = "scan" /\ gcur'[s] = NoCall /\ gsaid'[s] = "none" /\ gscan'[s] = gscan[s]
  BY <1>1, <1>3 DEF GTyped
<1>5. Own(s)
  BY OwnHolds
<1>6. Own(s)'
  BY <1>1, <1>4, <1>5, BrokerAssumption DEF Own
<1>7. \A c \in Calls : res'[c] = "ok" => runs'[c] > 0
  BY <1>1 DEF GInv, SaidTrue
<1>8. G!Fault \/ \A c \in Calls : to[c] = s /\ Owed(c)' => Owed(c)
  BY <1>1, <1>4 DEF Owed
<1>9. runs' = runs
  BY <1>1
<1> QED BY <1>3, <1>6, <1>7, <1>8, <1>9, ServeQuiet DEF G!ServeGuests

\* The end of a pass, and a pass that something ended.
LEMMA GuestReset ==
  ASSUME GInv, NEW s \in Device, G!EndPass(s) \/ G!PassFails(s) PROVE GInv'
<1>1. /\ at' = [at EXCEPT ![s] = "idle"] /\ gscan' = [gscan EXCEPT ![s] = {}]
      /\ gcur' = [gcur EXCEPT ![s] = NoCall] /\ gsaid' = [gsaid EXCEPT ![s] = "none"]
      /\ UNCHANGED <<gclock, caps, revoked, tok, to, gpc, req, res, runs>>
  BY DEF G!EndPass, G!PassFails, G!Reset, G!tokens, G!request
<1>2. G!Fault \/ (gfaults' = gfaults /\ at[s] = "scan" /\ gscan[s] = {})
  BY DEF G!EndPass, G!PassFails
<1>3. GTyped /\ GTyped'
  BY <1>1, <1>2, FaultIs DEF GInv, GTyped
<1>4. at'[s] = "idle" /\ gcur'[s] = NoCall /\ gsaid'[s] = "none" /\ gscan'[s] = {}
  BY <1>1, <1>3 DEF GTyped
<1>5. Own(s)
  BY OwnHolds
<1>6. Own(s)'
  BY <1>4, BrokerAssumption DEF Own
<1>7. \A c \in Calls : res'[c] = "ok" => runs'[c] > 0
  BY <1>1 DEF GInv, SaidTrue
<1>8. G!Fault \/ \A c \in Calls : to[c] = s /\ Owed(c)' => Owed(c)
  <2>1. CASE at[s] = "scan"
    <3>1. gcur[s] \notin Calls
      BY <1>5, <2>1 DEF Own
    <3> QED BY <1>1, <1>4, <3>1 DEF Owed
  <2> QED BY <1>2, <2>1
<1>9. runs' = runs
  BY <1>1
<1> QED BY <1>3, <1>6, <1>7, <1>8, <1>9, ServeQuiet DEF G!ServeGuests

LEMMA GuestNext ==
  ASSUME GInv, Host \in Device, Expiries \subseteq Nat, [G!Next]_G!vars
  PROVE  GInv'
<1>1. CASE G!MintStep
  BY <1>1, GuestMint
<1>2. CASE G!RevokeStep \/ G!Tick
  BY <1>2, GuestQuiet
<1>3. ASSUME NEW c \in Calls, G!GuestStep(c) PROVE GInv'
  <2>1. CASE G!Open(c) \/ G!PollFails(c) \/ G!GiveUp(c)
    BY <2>1, GuestHears
  <2>2. CASE \E d \in Device \ {Host}, t \in DOMAIN caps,
                p \in {"files", "data", "outside"}, s \in Device :
                \/ G!ReadCli(c, d, t, p, s) \/ G!WriteCli(c, d, t, p, s)
                \/ \E o \in Ops : G!AskFfi(c, d, t, o, p, s)
    <3>1. PICK d \in Device \ {Host}, t \in DOMAIN caps,
               p \in {"files", "data", "outside"}, s \in Device :
                \/ G!ReadCli(c, d, t, p, s) \/ G!WriteCli(c, d, t, p, s)
                \/ \E o \in Ops : G!AskFfi(c, d, t, o, p, s)
      BY <2>2
    <3>2. PICK o : G!Ask(c, d, t, o, p, s)
      BY <3>1 DEF G!ReadCli, G!WriteCli, G!AskCli, G!AskFfi
    <3> QED BY <3>2, GuestAsk
  <2> QED BY <1>3, <2>1, <2>2 DEF G!GuestStep
<1>4. ASSUME NEW s \in Device, G!ServeGuests(s) \/ G!PassFails(s) PROVE GInv'
  BY <1>4, GuestPass, GuestAnswer, GuestDelete, GuestReset, GuestDrop, GuestRun
     DEF G!ServeGuests
<1>5. CASE UNCHANGED G!vars
  <2>1. UNCHANGED <<gclock, caps, revoked, from, tok, op, path, to, gdeadline, gpc,
                    req, res, at, gscan, gcur, gsaid, runs, gfaults>>
    BY <1>5 DEF G!vars, G!tokens, G!request, G!server
  <2> QED BY <2>1, GuestQuiet
<1> QED BY <1>1, <1>2, <1>3, <1>4, <1>5 DEF G!Next, G!UseStep

\* Whatever is minted, delegated and revoked in whatever order, and whatever
\* fails: a token the commands mint is honoured until a link of its chain is
\* revoked or expires, a request runs once and once more per failure at most,
\* and a guest told "ok" was served (delegate, verify_chain, serve_once).
THEOREM GuestsStayServed ==
  ASSUME Host \in Device, Expiries \subseteq Nat
  PROVE  G!Spec => []GuestsServed
<1>1. G!Init => GInv
  BY GuestInit
<1>2. GInv /\ [G!Next]_G!vars => GInv'
  BY GuestNext
<1>3. GInv => GuestsServed
  <2> SUFFICES ASSUME GInv PROVE GuestsServed
    OBVIOUS
  <2>1. G!TypeOK
    <3>1. \A t \in DOMAIN caps :
            /\ caps[t].actions # {} /\ caps[t].actions \subseteq G!Actions
            /\ caps[t].key \in G!Keys /\ caps[t].exp \in Nat /\ caps[t].by \in Device
            /\ caps[t].up \in 0 .. t - 1
      <4>1. DOMAIN caps = 1 .. Len(caps)
        BY DEF GInv, Minted
      <4> QED BY <4>1, MintedFields DEF GInv, Minted
    <3>2. \A s \in Device :
            /\ at[s] \in {"idle", "scan", "answer", "delete"}
            /\ gcur[s] \in Calls <=> at[s] \in {"answer", "delete"}
            /\ gscan[s] \subseteq Calls
      BY DEF GInv, GTyped, Passing
    <3>3. \A c \in Calls :
            /\ gpc[c] \in {"new", "poll", "ok", "refused", "timeout", "error"}
            /\ res[c] \in {"none", "ok", "refused"}
            /\ gpc[c] # "new" => tok[c] \in DOMAIN caps
      BY DEF GInv, GTyped, Sent
    <3> QED BY <3>1, <3>2, <3>3 DEF G!TypeOK, GInv, GTyped
  <2>2. G!MintedWorks
    BY MintedAreHonoured DEF GInv
  <2>3. G!RunsOnce
    BY DEF GInv, RunsBounded, G!RunsOnce
  <2>4. G!OkMeansRun
    BY DEF GInv, SaidTrue, G!OkMeansRun
  <2> QED BY <2>1, <2>2, <2>3, <2>4 DEF GuestsServed, G!GuestsServed
<1> QED BY <1>1, <1>2, <1>3, PTL DEF G!Spec

LEMMA RunIsGranted ==
  ASSUME GInv, NEW s \in Device, NEW c \in Calls, G!Run(s, c), runs'[c] # runs[c],
         NEW t \in G!Chain[tok[c]]
  PROVE  /\ G!OpAction[op[c]] \in caps[t].actions
         /\ gclock < caps[t].exp
         /\ ~(t \in revoked /\ caps[t].by = to[c])
<1>1. G!GuestVerify(s, c) /\ c \in gscan[s]
  BY DEF G!Run
<1>2. to[c] = s /\ tok[c] \in 1 .. Len(caps) /\ Minted
  BY <1>1 DEF GInv, Sent, Minted
<1>3. G!VerifyChain(s, tok[c], G!OpAction[op[c]])
  BY <1>1 DEF G!GuestVerify
<1>4. Link(s, t, G!OpAction[op[c]])
  BY <1>2, <1>3, VerifyAll
<1>5. PICK key : G!Verify(s, t, key, G!OpAction[op[c]])
  BY <1>4 DEF Link
<1>6. t \in 1 .. Len(caps)
  BY <1>2, ChainBelow DEF Minted
<1>7. gclock \in Nat /\ caps[t].exp \in Nat
  BY <1>2, <1>6, MintedFields, BrokerAssumption DEF GInv, GTyped
<1> QED BY <1>2, <1>5, <1>6, <1>7 DEF G!Verify, G!Listed

LEMMA OnlyRunRuns ==
  ASSUME GInv, [G!Next]_G!vars, NEW c \in Calls, runs'[c] # runs[c]
  PROVE  \E s \in Device : G!Run(s, c)
<1>1. ~(UNCHANGED runs)
  OBVIOUS
<1>2. ~G!MintStep /\ ~G!RevokeStep /\ ~G!Tick /\ ~UNCHANGED G!vars
  BY <1>1 DEF G!MintStep, G!Share, G!ShareFfi, G!Grant, G!DelegateCli, G!DelegateFfi,
     G!Delegate, G!Mint, G!RevokeStep, G!RevokeCli, G!RevokeFfi, G!Tombstone, G!Tick, G!vars
<1>3. \A x \in Calls : ~G!GuestStep(x)
  BY <1>1 DEF G!GuestStep, G!ReadCli, G!WriteCli, G!AskCli, G!AskFfi, G!Ask, G!Open,
     G!PollFails, G!GiveUp
<1>4. PICK s \in Device : G!ServeGuests(s) \/ G!PassFails(s)
  BY <1>2, <1>3 DEF G!Next, G!UseStep
<1>5. PICK x \in Calls : G!Run(s, x)
  BY <1>1, <1>4 DEF G!ServeGuests, G!Pass, G!Answer, G!Delete, G!EndPass, G!Drop, G!PassFails
<1>6. x = c
  BY <1>5 DEF G!Run, GInv, GTyped
<1> QED BY <1>5, <1>6

\* A guest never gets more than every link of the chain grants: what runs was
\* granted by each, none of them had expired, and none was revoked where it
\* ran, whatever the commands minted and however late the request is served.
THEOREM NothingBeyondTheGrant ==
  ASSUME Host \in Device, Expiries \subseteq Nat
  PROVE  G!Spec => WithinGrant
<1>1. G!Init => GInv
  BY GuestInit
<1>2. GInv /\ [G!Next]_G!vars => GInv'
  BY GuestNext
<1> DEFINE Granted ==
      \A c \in Calls : runs'[c] # runs[c] =>
          \A t \in G!Chain[tok[c]] :
              /\ G!OpAction[op[c]] \in caps[t].actions
              /\ gclock < caps[t].exp
              /\ ~(t \in revoked /\ caps[t].by = to[c])
<1>3. GInv /\ [G!Next]_G!vars => [Granted]_G!vars
  <2> SUFFICES ASSUME GInv, [G!Next]_G!vars, NEW c \in Calls, runs'[c] # runs[c],
                      NEW t \in G!Chain[tok[c]]
               PROVE  /\ G!OpAction[op[c]] \in caps[t].actions
                      /\ gclock < caps[t].exp
                      /\ ~(t \in revoked /\ caps[t].by = to[c])
    OBVIOUS
  <2>1. PICK s \in Device : G!Run(s, c)
    BY OnlyRunRuns
  <2> QED BY <2>1, RunIsGranted
<1>4. G!Spec => [][Granted]_G!vars
  BY <1>1, <1>2, <1>3, PTL DEF G!Spec
<1> QED BY <1>4 DEF WithinGrant, G!WithinGrant

-----------------------------------------------------------------------------
(* The calls of a run to its model.                                        *)

\* The parts of the state the argument is about have their types.
ChatTyped ==
    /\ source \in {"server", "child"} /\ streams \in BOOLEAN
    /\ reader \in BOOLEAN /\ waiter \in BOOLEAN
    /\ corrected \in BOOLEAN /\ torn \in BOOLEAN
    /\ reply \in Chat!Text /\ Chat!OneObject(reply)
    /\ heard \in Chat!Text /\ first \in Chat!Text
    /\ written \in Nat /\ read \in Nat
    /\ Chat!TypeOK

\* A child writes and its reader takes whole lines, it exits well after the
\* last, and its output stays open while it runs; an error for each thread that
\* is gone may be in the channel beside the lines.
Wired ==
    /\ source = "child" =>
        /\ \E m, n \in Nat : written = 2 * m /\ read = 2 * n
        /\ written <= Chat!Whole
        /\ child = "ok" => written = Chat!Whole
        /\ child = "running" => pipe = "open"
        /\ Len(queue) <= (read \div 2) + (IF reader THEN 0 ELSE 1)
                                       + (IF waiter THEN 0 ELSE 1)
    /\ source = "server" => Len(queue) <= Len(reply) /\ ~reader /\ ~waiter
    /\ ~streams => ~reader /\ queue = <<>>

\* The lines taken from the model so far.
Taken == IF read = Chat!Whole + 2 THEN Len(reply) ELSE read \div 2

\* While a call streams and no error is on its way, what it was handed and what
\* is in the channel are the lines taken so far, in order; a waiter that is gone
\* has seen the child exit well, and a reader that is gone the end of its output.
Flow ==
    Chat!Calling /\ streams /\ (\A j \in 1 .. Len(queue) : queue[j] # 0) =>
        /\ Len(heard) + Len(queue) = Taken
        /\ \A j \in 1 .. Len(queue) : queue[j] = Len(heard) + j
        /\ \A i \in 1 .. Len(heard) : i <= Len(reply) /\ heard[i] = reply[i]
        /\ source = "child" =>
            /\ ~waiter => child = "ok"
            /\ ~reader => read = written /\ pipe = "closed"

\* What is on the screen before a call is what the corrected one showed; what
\* ends the run is whole, and what was shown.
Ends ==
    /\ call \in {"new", "first"} => first = <<>> /\ screen = <<>>
    /\ call \in {"again", "retry"} =>
        /\ first # <<>>
        /\ screen = (IF streams THEN Chat!Shown(first) ELSE <<>>)
    /\ call \in {"new", "first", "again", "retry"} => ~corrected
    /\ Chat!NothingHalf /\ Chat!ShownIsKept

ChatInv == ChatTyped /\ Wired /\ Flow /\ Ends

LEMMA ShownTyped ==
    ASSUME NEW lines \in Chat!Text
    PROVE  /\ Chat!Content(lines) \in Chat!Text
           /\ Chat!Shown(lines) \in Chat!Text
           /\ Chat!AnswerOf(lines) \in Chat!Text
<1>1. Chat!Content(lines) \in Chat!Text
  <2>1. CASE Chat!Pieces(lines) \cap {"a", "b"} = {}
    BY <2>1 DEF Chat!Content, Chat!Text
  <2>2. CASE Chat!Pieces(lines) \cap {"a", "b"} # {}
    <3>1. lines \in Seq(SUBSET Chat!Piece)
      BY DEF Chat!Text
    <3>2. DOMAIN lines = 1 .. Len(lines) /\ Len(lines) \in Nat
      BY <3>1
    <3>3. \A i \in 1 .. Len(lines) : lines[i] \cap {"a", "b"} \in SUBSET Chat!Piece
      BY <3>1, <3>2
    <3>4. Chat!Content(lines) = [i \in 1 .. Len(lines) |-> lines[i] \cap {"a", "b"}]
      BY <2>2, <3>2 DEF Chat!Content
    <3>5. Chat!Content(lines) \in [1 .. Len(lines) -> SUBSET Chat!Piece]
      BY <3>3, <3>4
    <3> QED
      BY <3>2, <3>5 DEF Chat!Text
  <2> QED
    BY <2>1, <2>2
<1>2. <<>> \in Chat!Text
  BY DEF Chat!Text
<1> QED
  BY <1>1, <1>2 DEF Chat!Shown, Chat!AnswerOf

\* A regular reply is shown as the answer it is, or not while it comes.
LEMMA ShownIsAnswer ==
    ASSUME NEW lines \in Chat!Text, Chat!OneObject(lines), ~Chat!Irregular(lines)
    PROVE  \/ Chat!Shown(lines) = <<>>
           \/ Chat!Action(lines) # "tool" /\ Chat!Shown(lines) = Chat!AnswerOf(lines)
<1> DEFINE S == Chat!Settling(lines)
           met == lines[Chat!Min(S)]
<1>1. CASE S = {} \/ "fn" \in met
  BY <1>1 DEF Chat!Shown
<1>2. CASE S # {} /\ "fn" \notin met /\ "head" \in met
  <2>1. Chat!Shown(lines) = Chat!Content(lines)
    BY <1>2 DEF Chat!Shown
  <2>2. Chat!Min(S) \in S
    <3>1. S \subseteq Nat
      BY DEF Chat!Settling, Chat!Text
    <3>2. \E x \in S : \A y \in S : x <= y
      BY <1>2, <3>1, LeastOf
    <3> QED
      BY <3>2 DEF Chat!Min
  <2>3. "head" \in Chat!Pieces(lines)
    BY <1>2, <2>2 DEF Chat!Pieces, Chat!Settling
  <2>4. "fn" \notin Chat!Pieces(lines) /\ Chat!Action(lines) # "none"
    BY <2>3 DEF Chat!OneObject, Chat!Irregular
  <2>5. Chat!Action(lines) = "final"
    BY <2>4 DEF Chat!Action
  <2> QED
    BY <2>1, <2>5 DEF Chat!AnswerOf
<1>3. CASE S # {} /\ "fn" \notin met /\ "head" \notin met
  <2>1. Chat!Shown(lines) = lines
    BY <1>3 DEF Chat!Shown
  <2>2. "head" \notin Chat!Pieces(lines) /\ "fn" \notin Chat!Pieces(lines)
    BY <2>1 DEF Chat!Irregular
  <2>3. Chat!Action(lines) = "none"
    BY <2>2 DEF Chat!Action, Chat!Final
  <2> QED
    BY <2>1, <2>3 DEF Chat!AnswerOf
<1> QED
  BY <1>1, <1>2, <1>3

\* What the properties are about stays as it is while source and reply do.
LEMMA EndsFrame ==
    ASSUME Ends, UNCHANGED <<source, streams, reply, first, corrected, torn, screen, kept, call>>,
           child = "ok" => child' = "ok"
    PROVE  Ends'
<1>1. \A l : Chat!Action(l)' = Chat!Action(l) /\ Chat!AnswerOf(l)' = Chat!AnswerOf(l)
             /\ (Chat!Irregular(l)' <=> Chat!Irregular(l))
  BY DEF Chat!Action, Chat!Final, Chat!AnswerOf, Chat!Irregular
<1> QED
  BY <1>1 DEF Ends, Chat!NothingHalf, Chat!ShownIsKept, Chat!Accepted

LEMMA FailEnds ==
    ASSUME ChatTyped, Ends, NEW lines \in Chat!Text, Chat!FailAfter(lines),
           call \in {"new", "first", "again", "retry"},
           UNCHANGED <<source, streams, reply>>
    PROVE  /\ Ends' /\ ~Chat!Calling'
           /\ call' \in {"failed", "answered", "tool"}
           /\ UNCHANGED <<heard, first, corrected, torn>>
<1>1. UNCHANGED <<heard, first, corrected, torn>> /\ ~corrected
  BY DEF Chat!FailAfter, Ends
<1>2. CASE call \in {"new", "first"}
  BY <1>1, <1>2 DEF Chat!FailAfter, Ends, Chat!NothingHalf, Chat!ShownIsKept, Chat!Accepted, Chat!Calling
<1>3. CASE call \in {"again", "retry"}
  <2>1. call' \in {"answered", "tool"} /\ first # <<>>
    BY <1>3 DEF Chat!FailAfter, Chat!Dispatch, Ends
  <2>2. ~Chat!Accepted'
    BY <1>1, <2>1 DEF Chat!Accepted
  <2> QED
    BY <1>1, <2>1, <2>2 DEF Ends, Chat!NothingHalf, Chat!ShownIsKept, Chat!Calling
<1> QED
  BY <1>2, <1>3, <1>1

LEMMA EmptyFirst == ASSUME NEW s \in Chat!Text PROVE <<>> \o s = s /\ s \o <<>> = s
BY DEF Chat!Text

LEMMA RespondEnds ==
    ASSUME ChatTyped, Ends, Chat!Calling, NEW lines \in Chat!Text, NEW cut \in BOOLEAN,
           Chat!Respond(lines, cut), UNCHANGED <<source, streams, reply, child>>,
           ~cut => lines = reply, source = "child" => child = "ok"
    PROVE  /\ Ends' /\ ~Chat!Calling'
           /\ call' \in {"again", "answered", "tool"}
           /\ heard' = lines /\ torn' = cut /\ corrected' \in BOOLEAN
           /\ first' \in Chat!Text
<1> DEFINE came == IF streams THEN Chat!Shown(lines) ELSE <<>>
           shown == screen \o came
<1>1. /\ heard' = lines /\ torn' = cut /\ corrected' = (call = "retry")
      /\ call \in {"first", "retry"}
  BY DEF Chat!Respond, Chat!Calling
<1>2. CASE call = "first" /\ Chat!Malformed(lines)
  <2>1. call' = "again" /\ first' = lines /\ screen' = shown /\ kept' = kept
    BY <1>2 DEF Chat!Respond
  <2>2. came \in Chat!Text
    BY ShownTyped DEF Chat!Text
  <2>3. screen' = came
    BY <1>2, <2>1, <2>2, EmptyFirst DEF Ends
  <2>4. lines # <<>>
    BY <1>2 DEF Chat!Malformed, Chat!Pieces
  <2>5. ~Chat!Accepted'
    BY <2>1 DEF Chat!Accepted
  <2>6. ~corrected'
    BY <1>1, <1>2
  <2> QED
    BY <1>1, <2>1, <2>3, <2>4, <2>5, <2>6 DEF Ends, Chat!NothingHalf, Chat!ShownIsKept, Chat!Calling
<1>3. CASE ~(call = "first" /\ Chat!Malformed(lines))
  <2>1. Chat!Dispatch(lines, shown, shown # <<>>) /\ first' = first
    BY <1>3 DEF Chat!Respond
  <2>2. /\ call' = (IF Chat!Action(lines) = "tool" THEN "tool" ELSE "answered")
        /\ kept' = Chat!AnswerOf(lines)
        /\ screen' = (IF shown # <<>> \/ Chat!Action(lines) = "tool" THEN shown
                      ELSE shown \o Chat!AnswerOf(lines))
    BY <2>1 DEF Chat!Dispatch
  <2>3. \A l : Chat!Action(l)' = Chat!Action(l) /\ Chat!AnswerOf(l)' = Chat!AnswerOf(l)
               /\ (Chat!Irregular(l)' <=> Chat!Irregular(l))
    BY DEF Chat!Action, Chat!Final, Chat!AnswerOf, Chat!Irregular
  <2>4. Chat!NothingHalf'
    BY <1>1, <2>2, <2>3 DEF Chat!NothingHalf
  <2>5. Chat!ShownIsKept'
    <3> SUFFICES ASSUME ~torn', ~Chat!Irregular(reply), streams => Chat!Shown(first) = <<>>
                 PROVE  screen' = IF call' = "answered" THEN kept' ELSE <<>>
      BY <2>1, <2>3 DEF Chat!ShownIsKept
    <3>1. lines = reply /\ Chat!OneObject(lines) /\ ~Chat!Irregular(lines)
      BY <1>1 DEF ChatTyped
    <3>2. came \in Chat!Text /\ Chat!AnswerOf(lines) \in Chat!Text
      BY ShownTyped DEF Chat!Text
    <3>3. shown = came
      BY <1>1, <3>2, EmptyFirst DEF Ends
    <3>4. \/ came = <<>>
          \/ Chat!Action(lines) # "tool" /\ came = Chat!AnswerOf(lines)
      BY <3>1, ShownIsAnswer
    <3> HIDE DEF came, shown
    <3> QED
      BY <2>2, <3>2, <3>3, <3>4, EmptyFirst
  <2>6. call' \in {"answered", "tool"}
    BY <2>2
  <2> QED
    BY <1>1, <2>1, <2>4, <2>5, <2>6 DEF Ends, Chat!Calling, ChatTyped
<1> QED
  BY <1>1, <1>2, <1>3, ShownTyped DEF ChatTyped

\* A step that leaves the wires alone ends a call.
LEMMA WiresSame ==
    ASSUME ChatInv, UNCHANGED Chat!wires, heard' \in Chat!Text, first' \in Chat!Text,
           corrected' \in BOOLEAN, torn' \in BOOLEAN,
           call' \in {"again", "answered", "tool", "failed"}
    PROVE  ChatTyped' /\ Wired' /\ Flow'
<1>1. UNCHANGED <<source, streams, reply, written, read, pipe, child, reader, waiter, queue>>
  BY DEF Chat!wires
<1>2. ChatTyped'
  BY <1>1 DEF ChatInv, ChatTyped, Chat!TypeOK, Chat!Whole, Chat!OneObject
<1>3. Wired'
  BY <1>1 DEF ChatInv, Wired, Chat!Whole
<1>4. Flow'
  BY DEF Flow, Chat!Calling
<1> QED
  BY <1>2, <1>3, <1>4

\* The end of a call that had a response, or none.
LEMMA CallEnds ==
    ASSUME ChatInv, UNCHANGED Chat!wires, NEW lines \in Chat!Text,
           \/ /\ Chat!FailAfter(lines) /\ call \in {"new", "first", "again", "retry"}
           \/ /\ \E cut \in BOOLEAN : Chat!Respond(lines, cut) /\ (~cut => lines = reply)
              /\ Chat!Calling /\ (source = "child" => child = "ok")
    PROVE  ChatInv'
<1>1. UNCHANGED <<source, streams, reply, child>>
  BY DEF Chat!wires
<1>2. CASE Chat!FailAfter(lines) /\ call \in {"new", "first", "again", "retry"}
  <2>1. /\ Ends' /\ call' \in {"failed", "answered", "tool"}
        /\ UNCHANGED <<heard, first, corrected, torn>>
    BY <1>1, <1>2, FailEnds DEF ChatInv
  <2> QED
    BY <2>1, WiresSame DEF ChatInv, ChatTyped
<1>3. CASE /\ \E cut \in BOOLEAN : Chat!Respond(lines, cut) /\ (~cut => lines = reply)
           /\ Chat!Calling /\ (source = "child" => child = "ok")
  <2>1. PICK cut \in BOOLEAN : Chat!Respond(lines, cut) /\ (~cut => lines = reply)
    BY <1>3
  <2>2. /\ Ends' /\ call' \in {"again", "answered", "tool"}
        /\ heard' = lines /\ torn' = cut /\ corrected' \in BOOLEAN /\ first' \in Chat!Text
    BY <1>1, <1>3, <2>1, RespondEnds DEF ChatInv
  <2> QED
    BY <2>1, <2>2, WiresSame DEF ChatInv
<1> QED
  BY <1>2, <1>3

LEMMA Halves == \A n \in Nat : (2 * n) \div 2 = n /\ (2 * n + 2) \div 2 = n + 1
OBVIOUS

\* What a call has when nothing is in the channel any more.
LEMMA AllHeard ==
    ASSUME ChatInv, Chat!Calling, streams, queue = <<>>,
           Taken = Len(reply)
    PROVE  heard = reply
<1>1. /\ Len(heard) = Len(reply)
      /\ \A i \in 1 .. Len(heard) : heard[i] = reply[i]
  BY DEF ChatInv, Flow, ChatTyped, Chat!Text
<1> QED
  BY <1>1 DEF ChatInv, ChatTyped, Chat!Text

LEMMA StreamDoneKeeps == ChatInv /\ Chat!StreamDone => ChatInv'
<1> SUFFICES ASSUME ChatInv, Chat!StreamDone PROVE ChatInv'
  OBVIOUS
<1>1. /\ Chat!Calling /\ source = "server" /\ streams /\ queue = <<>>
      /\ Chat!Respond(heard, read < Chat!Whole + 2) /\ UNCHANGED Chat!wires
  BY DEF Chat!StreamDone
<1>2. ~(read < Chat!Whole + 2) => heard = reply
  <2>1. read <= Chat!Whole + 2 /\ read \in Nat /\ Chat!Whole \in Nat
    BY DEF ChatInv, ChatTyped, Chat!TypeOK, Chat!Whole, Chat!Text
  <2>2. ASSUME ~(read < Chat!Whole + 2) PROVE Taken = Len(reply)
    BY <2>1, <2>2 DEF Taken
  <2> QED
    BY <1>1, <2>2, AllHeard
<1>3. heard \in Chat!Text /\ (read < Chat!Whole + 2) \in BOOLEAN
  BY DEF ChatInv, ChatTyped
<1> QED
  BY <1>1, <1>2, <1>3, CallEnds

LEMMA ChildDoneKeeps == ChatInv /\ Chat!ChildDone => ChatInv'
<1> SUFFICES ASSUME ChatInv, Chat!ChildDone PROVE ChatInv'
  OBVIOUS
<1>1. /\ Chat!Calling /\ source = "child" /\ streams /\ queue = <<>>
      /\ ~reader /\ ~waiter
      /\ Chat!Respond(heard, FALSE) /\ UNCHANGED Chat!wires
  BY DEF Chat!ChildDone
<1>2. child = "ok" /\ read = written
  BY <1>1 DEF ChatInv, Flow
<1>3. Taken = Len(reply)
  BY <1>1, <1>2, Halves DEF Taken, ChatInv, Wired, Chat!Whole, ChatTyped, Chat!Text
<1>4. heard = reply
  BY <1>1, <1>3, AllHeard
<1>5. heard \in Chat!Text
  BY DEF ChatInv, ChatTyped
<1> QED
  BY <1>1, <1>2, <1>4, <1>5, CallEnds

LEMMA PlainEnds ==
    ChatInv /\ (Chat!CannotStart \/ Chat!StreamFails \/ Chat!Body \/ Chat!HearError \/ Chat!StepTimeout) => ChatInv'
<1>0. ChatInv => heard \in Chat!Text /\ reply \in Chat!Text
  BY DEF ChatInv, ChatTyped
<1>1. ASSUME ChatInv, Chat!CannotStart PROVE ChatInv'
  <2>1. <<>> \in Chat!Text
    BY DEF Chat!Text
  <2> QED
    BY <1>1, <2>1, CallEnds DEF Chat!CannotStart
<1>2. ASSUME ChatInv, Chat!StreamFails \/ Chat!HearError \/ Chat!StepTimeout PROVE ChatInv'
  <2>1. /\ Chat!FailAfter(heard) /\ UNCHANGED Chat!wires
        /\ call \in {"first", "retry"}
    BY <1>2 DEF Chat!StreamFails, Chat!HearError, Chat!StepTimeout, Chat!Fail, Chat!Calling,
                Chat!Waiting
  <2> QED
    BY <1>0, <1>2, <2>1, CallEnds
<1>3. ASSUME ChatInv, Chat!Body PROVE ChatInv'
  <2>1. /\ UNCHANGED Chat!wires /\ source # "child" /\ Chat!Calling
        /\ Chat!Respond(reply, FALSE) \/ Chat!FailAfter(heard)
    BY <1>3 DEF Chat!Body, Chat!Fail
  <2> QED
    BY <1>0, <1>3, <2>1, CallEnds DEF Chat!Calling
<1> QED
  BY <1>1, <1>2, <1>3

LEMMA BeginKeeps ==
    ASSUME ChatInv, NEW r \in Chat!Text, Chat!OneObject(r), Chat!Begin(r)
    PROVE  ChatInv'
<1>1. /\ call \in {"new", "again"}
      /\ call' = IF call = "new" THEN "first" ELSE "retry"
      /\ reply' = r /\ written' = 0 /\ read' = 0 /\ pipe' = "open"
      /\ child' = IF source = "child" THEN "running" ELSE "none"
      /\ reader' = (source = "child" /\ streams)
      /\ waiter' = (source = "child")
      /\ queue' = <<>> /\ finished' = FALSE /\ heard' = <<>>
      /\ UNCHANGED <<source, streams, first, corrected, torn, screen, kept>>
  BY DEF Chat!Begin
<1>2. reader' \in BOOLEAN /\ waiter' \in BOOLEAN
  BY <1>1
<1>3. Len(r) \in Nat /\ Chat!OneObject(reply)'
  BY <1>1 DEF Chat!Text, Chat!OneObject, Chat!Pieces
<1>4. ChatTyped'
  <2>1. heard' \in Chat!Text
    BY <1>1 DEF Chat!Text
  <2>2. queue' \in Seq(0 .. Len(r)) /\ Len(queue') = 0
    BY <1>1
  <2> QED
    BY <1>1, <1>2, <1>3, <2>1, <2>2 DEF ChatInv, ChatTyped, Chat!TypeOK, Chat!Whole
<1>5. Wired'
  <2>1. \E m, n \in Nat : 0 = 2 * m /\ 0 = 2 * n
    OBVIOUS
  <2>2. source = "child" => child' = "running"
    BY <1>1
  <2>3. Len(queue') = 0 /\ (0 \div 2) = 0
    BY <1>1
  <2>4. ~streams => ~reader'
    BY <1>1
  <2>5. source = "server" => ~reader' /\ ~waiter'
    BY <1>1
  <2> QED
    BY <1>1, <1>3, <2>1, <2>2, <2>3, <2>4, <2>5 DEF Wired, Chat!Whole
<1>6. Flow'
  <2>1. Len(heard') = 0 /\ Len(queue') = 0 /\ Taken' = 0
    BY <1>1, <1>3 DEF Taken, Chat!Whole
  <2>2. source = "child" /\ streams => waiter' /\ reader'
    BY <1>1
  <2> QED
    BY <1>1, <2>1, <2>2 DEF Flow
<1>7. Ends'
  BY <1>1 DEF ChatInv, Ends, Chat!NothingHalf, Chat!ShownIsKept, Chat!Accepted
<1> QED
  BY <1>4, <1>5, <1>6, <1>7 DEF ChatInv

\* Steps that touch neither the call nor what it has.
LEMMA QuietKeeps ==
    ASSUME ChatInv, UNCHANGED <<source, streams, reply, heard, first, corrected, torn, screen, kept, call>>,
           child = "ok" => child' = "ok",
           reader' \in BOOLEAN, waiter' \in BOOLEAN, written' \in Nat, read' \in Nat,
           Chat!TypeOK', Wired', Flow'
    PROVE  ChatInv'
<1>1. Ends'
  BY EndsFrame DEF ChatInv
<1>2. ChatTyped'
  BY DEF ChatInv, ChatTyped, Chat!OneObject, Chat!Pieces
<1> QED
  BY <1>1, <1>2 DEF ChatInv

LEMMA ServerWritesKeeps == ChatInv /\ Chat!ServerWrites => ChatInv'
<1> SUFFICES ASSUME ChatInv, Chat!ServerWrites PROVE ChatInv'
  OBVIOUS
<1>1. /\ source = "server" /\ pipe = "open" /\ written < Chat!Whole + 2 /\ written' = written + 1
      /\ UNCHANGED <<source, streams, reply, read, pipe, child, reader, waiter, queue, finished>>
      /\ UNCHANGED <<heard, first, corrected, torn, screen, kept, call>>
  BY DEF Chat!ServerWrites, Chat!results
<1>2. written \in Nat /\ read \in 0 .. written /\ Len(reply) \in Nat
  BY DEF ChatInv, ChatTyped, Chat!TypeOK, Chat!Text
<1>3. Chat!TypeOK'
  BY <1>1, <1>2 DEF ChatInv, ChatTyped, Chat!TypeOK, Chat!Whole
<1>4. Wired'
  BY <1>1, <1>2 DEF ChatInv, Wired
<1>5. Flow'
  BY <1>1, <1>2 DEF ChatInv, Flow, Taken, Chat!Calling, Chat!Whole
<1> QED
  BY <1>1, <1>2, <1>3, <1>4, <1>5, QuietKeeps DEF ChatInv, ChatTyped

LEMMA ServerClosesKeeps == ChatInv /\ (Chat!ServerCloses \/ Chat!EndOfStream) => ChatInv'
<1> SUFFICES ASSUME ChatInv, Chat!ServerCloses \/ Chat!EndOfStream PROVE ChatInv'
  OBVIOUS
<1>1. /\ source = "server"
      /\ UNCHANGED <<source, streams, reply, written, read, child, reader, waiter, queue>>
      /\ UNCHANGED <<heard, first, corrected, torn, screen, kept, call>>
  BY DEF Chat!ServerCloses, Chat!EndOfStream, Chat!Waiting, Chat!results
<1>3. Chat!TypeOK'
  BY <1>1 DEF ChatInv, ChatTyped, Chat!TypeOK, Chat!Whole
<1>4. Wired'
  BY <1>1 DEF ChatInv, Wired
<1>5. Flow'
  BY <1>1 DEF ChatInv, Flow, Taken, Chat!Calling, Chat!Whole
<1> QED
  BY <1>1, <1>3, <1>4, <1>5, QuietKeeps DEF ChatInv, ChatTyped

LEMMA ChunkKeeps == ASSUME ChatInv, NEW n \in 1 .. Chat!Whole + 2, Chat!Chunk(n) PROVE ChatInv'
<1> DEFINE before == read \div 2
           upto == IF read + n = Chat!Whole + 2 THEN Len(reply) ELSE (read + n) \div 2
<1>1. /\ Chat!Calling /\ source = "server" /\ streams /\ queue = <<>>
      /\ read + n <= written /\ read' = read + n
      /\ queue' = [i \in 1 .. (upto - before) |-> before + i]
      /\ UNCHANGED <<source, streams, reply, written, pipe, child, reader, waiter>>
      /\ UNCHANGED <<heard, first, corrected, torn, screen, kept, call>>
  BY DEF Chat!Chunk, Chat!Waiting, Chat!results
<1>2. /\ written \in 0 .. Chat!Whole + 2 /\ read \in 0 .. written /\ Len(reply) \in Nat
      /\ Chat!Whole = 2 * Len(reply) /\ n \in Nat /\ n >= 1
  BY DEF ChatInv, ChatTyped, Chat!TypeOK, Chat!Whole, Chat!Text
<1>3. read + n <= Chat!Whole + 2
  BY <1>1, <1>2
<1>4. before \in Nat /\ upto \in Nat /\ before <= upto /\ upto <= Len(reply)
  BY <1>2, <1>3
<1> HIDE DEF before, upto
<1>5. /\ queue' \in Seq(0 .. Len(reply)) /\ Len(queue') = upto - before
      /\ \A i \in 1 .. Len(queue') : queue'[i] = before + i
  <2>1. \A i \in 1 .. (upto - before) : before + i \in 0 .. Len(reply)
    BY <1>2, <1>4
  <2>2. upto - before \in Nat
    BY <1>4
  <2> QED
    BY <1>1, <2>1, <2>2
<1>6. Chat!TypeOK'
  BY <1>1, <1>2, <1>4, <1>5 DEF ChatInv, ChatTyped, Chat!TypeOK, Chat!Whole
<1>7. Wired'
  BY <1>1, <1>2, <1>4, <1>5 DEF ChatInv, Wired
<1>8. Flow'
  <2>1. Taken' = upto /\ Taken = before
    BY <1>1, <1>2, <1>3 DEF Taken, Chat!Whole, upto, before
  <2>2. Len(heard) = before /\ \A i \in 1 .. Len(heard) : i <= Len(reply) /\ heard[i] = reply[i]
    BY <1>1, <2>1 DEF ChatInv, Flow, ChatTyped, Chat!Text
  <2> QED
    BY <1>1, <1>4, <1>5, <2>1, <2>2 DEF Flow
<1>9. read' \in Nat
  BY <1>1, <1>2
<1> QED
  BY <1>1, <1>6, <1>7, <1>8, <1>9, QuietKeeps DEF ChatInv, ChatTyped

\* What the steps of a child and its threads start from.
LEMMA ChildFacts ==
    ASSUME ChatInv
    PROVE  /\ written \in Nat /\ read \in 0 .. written /\ Len(reply) \in Nat
           /\ queue \in Seq(0 .. Len(reply)) /\ Len(queue) \in Nat /\ Len(heard) \in Nat
           /\ Chat!Whole = 2 * Len(reply) /\ written <= Chat!Whole + 2
           /\ Len(queue) <= Len(reply) + 2
           /\ reader \in BOOLEAN /\ waiter \in BOOLEAN
BY DEF ChatInv, ChatTyped, Chat!TypeOK, Chat!Whole, Chat!Text

LEMMA ChildWritesKeeps == ChatInv /\ Chat!ChildWrites => ChatInv'
<1> SUFFICES ASSUME ChatInv, Chat!ChildWrites PROVE ChatInv'
  OBVIOUS
<1>1. /\ child = "running" /\ written < Chat!Whole /\ written' = written + 2
      /\ UNCHANGED <<source, streams, reply, read, pipe, child, reader, waiter, queue, finished>>
      /\ UNCHANGED <<heard, first, corrected, torn, screen, kept, call>>
  BY DEF Chat!ChildWrites, Chat!results
<1>2. source = "child" => written' <= Chat!Whole
  <2> SUFFICES ASSUME source = "child" PROVE written' <= Chat!Whole
    OBVIOUS
  <2>1. PICK m, n \in Nat : written = 2 * m /\ read = 2 * n
    BY DEF ChatInv, Wired
  <2> QED
    BY <1>1, <2>1, ChildFacts
<1>3. written' <= Chat!Whole + 2
  BY <1>1, ChildFacts
<1>4. Chat!TypeOK' /\ written' \in Nat
  BY <1>1, <1>3, ChildFacts DEF ChatInv, ChatTyped, Chat!TypeOK, Chat!Whole
<1>5. Wired'
  <2>1. source = "child" => \E m, n \in Nat : written' = 2 * m /\ read' = 2 * n
    <3> SUFFICES ASSUME source = "child" PROVE \E m, n \in Nat : written' = 2 * m /\ read' = 2 * n
      OBVIOUS
    <3>1. PICK m, n \in Nat : written = 2 * m /\ read = 2 * n
      BY DEF ChatInv, Wired
    <3>2. m + 1 \in Nat /\ written' = 2 * (m + 1)
      BY <1>1, <3>1
    <3> QED
      BY <1>1, <3>1, <3>2
  <2> QED
    BY <1>1, <1>2, <2>1 DEF ChatInv, Wired, Chat!Whole
<1>6. Flow'
  BY <1>1, ChildFacts DEF ChatInv, Flow, Wired, Taken, Chat!Calling, Chat!Whole
<1> QED
  BY <1>1, <1>4, <1>5, <1>6, QuietKeeps DEF ChatInv, ChatTyped

LEMMA ChildExitsKeeps ==
    ASSUME ChatInv, NEW how \in {"ok", "bad"}, Chat!ChildExits(how)
    PROVE  ChatInv'
<1>1. /\ child = "running" /\ (how = "ok" => written = Chat!Whole) /\ child' = how
      /\ UNCHANGED <<source, streams, reply, written, read, pipe, reader, waiter, queue, finished>>
      /\ UNCHANGED <<heard, first, corrected, torn, screen, kept, call>>
  BY DEF Chat!ChildExits, Chat!results
<1>2. Chat!TypeOK'
  BY <1>1 DEF ChatInv, ChatTyped, Chat!TypeOK, Chat!Whole
<1>3. Wired'
  BY <1>1 DEF ChatInv, Wired, Chat!Whole
<1>4. Flow'
  BY <1>1 DEF ChatInv, Flow, Taken, Chat!Calling, Chat!Whole
<1> QED
  BY <1>1, <1>2, <1>3, <1>4, QuietKeeps DEF ChatInv, ChatTyped

LEMMA PipeClosesKeeps == ChatInv /\ (Chat!PipeCloses \/ Chat!ReaderEnds) => ChatInv'
<1> SUFFICES ASSUME ChatInv, Chat!PipeCloses \/ Chat!ReaderEnds PROVE ChatInv'
  OBVIOUS
<1>1. /\ UNCHANGED <<source, streams, reply, written, read, child, waiter, queue, finished>>
      /\ UNCHANGED <<heard, first, corrected, torn, screen, kept, call>>
      /\ \/ child # "running" /\ reader' = reader /\ pipe' = "closed"
         \/ reader /\ reader' = FALSE /\ pipe' = pipe /\ pipe = "closed" /\ read = written
  BY DEF Chat!PipeCloses, Chat!ReaderEnds, Chat!results
<1>2. Chat!TypeOK' /\ reader' \in BOOLEAN
  BY <1>1, ChildFacts DEF ChatInv, ChatTyped, Chat!TypeOK, Chat!Whole
<1>3. Wired'
  <2>1. source = "child" => Len(queue') <= (read' \div 2) + (IF reader' THEN 0 ELSE 1)
                                           + (IF waiter' THEN 0 ELSE 1)
    BY <1>1, ChildFacts, SMTT(60), ZenonT(60) DEF ChatInv, Wired
  <2> QED
    BY <1>1, <2>1 DEF ChatInv, Wired, Chat!Whole
<1>4. Flow'
  BY <1>1 DEF ChatInv, Flow, Taken, Chat!Calling, Chat!Whole
<1> QED
  BY <1>1, <1>2, <1>3, <1>4, QuietKeeps DEF ChatInv, ChatTyped

\* A thread that puts an error into the channel and is gone.
LEMMA ErrorSent ==
    ASSUME ChatInv, streams, source = "child", queue' = Append(queue, 0),
           reader' \in BOOLEAN, waiter' \in BOOLEAN,
           \/ reader /\ ~reader' /\ waiter' = waiter
           \/ waiter /\ ~waiter' /\ reader' = reader,
           child' \in {"none", "running", "ok", "bad", "killed"},
           child' = child \/ child' = "killed",
           child' = child \/ child = "running",
           UNCHANGED <<source, streams, reply, written, read, pipe>>,
           UNCHANGED <<heard, first, corrected, torn, screen, kept, call>>
    PROVE  ChatInv'
<1>1. PICK m, n \in Nat : written = 2 * m /\ read = 2 * n
  BY DEF ChatInv, Wired
<1>2. read \div 2 = n /\ written <= 2 * Len(reply) /\ n <= Len(reply)
  <2>1. written <= 2 * Len(reply)
    BY ChildFacts DEF ChatInv, Wired
  <2>2. read \div 2 = n
    BY <1>1, Halves
  <2>3. 2 * n <= 2 * Len(reply)
    BY <1>1, <2>1, ChildFacts
  <2> QED
    BY <2>1, <2>2, <2>3, ChildFacts
<1>3. Len(queue') = Len(queue) + 1 /\ queue' \in Seq(0 .. Len(reply)) /\ queue'[Len(queue')] = 0
  BY ChildFacts
<1>4. Len(queue) <= n + (IF reader THEN 0 ELSE 1) + (IF waiter THEN 0 ELSE 1)
  BY <1>2 DEF ChatInv, Wired
<1>5. Len(queue') <= n + (IF reader' THEN 0 ELSE 1) + (IF waiter' THEN 0 ELSE 1)
  BY <1>3, <1>4, ChildFacts
<1>6. Len(queue') <= Len(reply) + 2
  BY <1>2, <1>3, <1>5, ChildFacts
<1>7. Chat!TypeOK'
  BY <1>3, <1>6 DEF ChatInv, ChatTyped, Chat!TypeOK, Chat!Whole
<1>8. Wired'
  BY <1>1, <1>2, <1>5 DEF ChatInv, Wired, Chat!Whole
<1>9. Flow'
  <2>1. Len(queue') \in 1 .. Len(queue')
    BY <1>3, ChildFacts
  <2> QED
    BY <1>3, <2>1 DEF Flow
<1> QED
  BY <1>7, <1>8, <1>9, QuietKeeps DEF ChatInv, ChatTyped

LEMMA ErrorsKeep == ChatInv /\ (Chat!ReadFails \/ Chat!Deadline) => ChatInv'
<1>1. ASSUME ChatInv, Chat!ReadFails PROVE ChatInv'
  <2>1. /\ reader /\ reader' = FALSE /\ waiter' = waiter /\ child' = child
        /\ queue' = Append(queue, 0)
        /\ UNCHANGED <<source, streams, reply, written, read, pipe>>
        /\ UNCHANGED <<heard, first, corrected, torn, screen, kept, call>>
    BY <1>1 DEF Chat!ReadFails, Chat!results
  <2> QED
    BY <1>1, <2>1, ErrorSent DEF ChatInv, Wired, ChatTyped, Chat!TypeOK
<1>2. ASSUME ChatInv, Chat!Deadline PROVE ChatInv'
  <2>1. /\ waiter /\ waiter' = FALSE /\ reader' = reader /\ streams
        /\ child = "running" /\ child' = "killed" /\ queue' = Append(queue, 0)
        /\ UNCHANGED <<source, streams, reply, written, read, pipe>>
        /\ UNCHANGED <<heard, first, corrected, torn, screen, kept, call>>
    BY <1>2 DEF Chat!Deadline, Chat!results
  <2> QED
    BY <1>2, <2>1, ErrorSent DEF ChatInv, Wired, ChatTyped, Chat!TypeOK
<1> QED
  BY <1>1, <1>2

LEMMA ReadLineKeeps == ChatInv /\ Chat!ReadLine => ChatInv'
<1> SUFFICES ASSUME ChatInv, Chat!ReadLine PROVE ChatInv'
  OBVIOUS
<1>1. /\ reader /\ read < written /\ read' = read + 2
      /\ reader' = Chat!Calling
      /\ queue' = IF Chat!Calling THEN Append(queue, (read \div 2) + 1) ELSE queue
      /\ UNCHANGED <<source, streams, reply, written, pipe, child, waiter, finished>>
      /\ UNCHANGED <<heard, first, corrected, torn, screen, kept, call>>
  BY DEF Chat!ReadLine, Chat!results
<1>2. source = "child" /\ streams
  BY <1>1 DEF ChatInv, Wired, ChatTyped
<1>3. PICK m, n \in Nat : written = 2 * m /\ read = 2 * n
  BY <1>2 DEF ChatInv, Wired
<1>4. /\ read \div 2 = n /\ read' = 2 * (n + 1) /\ read' \div 2 = n + 1
      /\ n + 1 \in Nat
  BY <1>1, <1>3, Halves
<1>5. /\ n + 1 <= m /\ m <= Len(reply) /\ read' <= written /\ written <= Chat!Whole
  <2>1. written <= Chat!Whole
    BY <1>2 DEF ChatInv, Wired
  <2> QED
    BY <1>1, <1>3, <2>1, ChildFacts
<1>6. /\ queue' \in Seq(0 .. Len(reply)) /\ Len(queue') \in Nat
      /\ Len(queue') <= Len(queue) + 1
  <2>1. n + 1 \in 0 .. Len(reply)
    BY <1>3, <1>5, ChildFacts
  <2>2. CASE Chat!Calling
    <3>1. queue' = Append(queue, n + 1)
      BY <1>1, <1>4, <2>2
    <3> QED
      BY <2>1, <3>1, ChildFacts
  <2>3. CASE ~Chat!Calling
    BY <1>1, <2>3, ChildFacts
  <2> QED
    BY <2>2, <2>3
<1>7. reader' \in BOOLEAN
  BY <1>1 DEF Chat!Calling
<1>8. Len(queue) <= n + (IF waiter THEN 0 ELSE 1)
  BY <1>1, <1>2, <1>4, ChildFacts DEF ChatInv, Wired
<1>9. Len(queue') <= (n + 1) + (IF waiter THEN 0 ELSE 1)
  BY <1>6, <1>8, <1>3, ChildFacts
<1>10. Chat!TypeOK'
  <2>1. Len(queue') <= Len(reply) + 2
    <3>1. Len(queue') <= (n + 1) + 1
      BY <1>3, <1>6, <1>9
    <3>2. n + 1 <= Len(reply)
      BY <1>3, <1>5, ChildFacts
    <3> QED
      BY <1>3, <1>6, <3>1, <3>2, ChildFacts
  <2>2. read' \in 0 .. written
    BY <1>1, <1>5, ChildFacts, SMTT(60), ZenonT(60)
  <2> QED
    BY <1>1, <1>6, <2>1, <2>2 DEF ChatInv, ChatTyped, Chat!TypeOK, Chat!Whole
<1>11. Wired'
  <2>1. Len(queue') <= (read' \div 2) + (IF reader' THEN 0 ELSE 1) + (IF waiter' THEN 0 ELSE 1)
    BY <1>1, <1>3, <1>4, <1>6, <1>7, <1>9, ChildFacts
  <2>2. \E i, j \in Nat : written' = 2 * i /\ read' = 2 * j
    BY <1>1, <1>3, <1>4
  <2> QED
    BY <1>1, <1>2, <2>1, <2>2 DEF ChatInv, Wired, Chat!Whole
<1>12. Flow'
  <2> SUFFICES ASSUME Chat!Calling, \A j \in 1 .. Len(queue') : queue'[j] # 0
               PROVE  /\ Len(heard') + Len(queue') = Taken'
                      /\ \A j \in 1 .. Len(queue') : queue'[j] = Len(heard') + j
                      /\ \A i \in 1 .. Len(heard') : i <= Len(reply') /\ heard'[i] = reply'[i]
                      /\ ~waiter' => child' = "ok"
                      /\ ~reader' => read' = written' /\ pipe' = "closed"
    BY <1>1 DEF Flow, Chat!Calling
  <2>1. queue' = Append(queue, n + 1) /\ reader'
    BY <1>1, <1>4
  <2>2. /\ Len(queue') = Len(queue) + 1 /\ queue'[Len(queue) + 1] = n + 1
        /\ \A j \in 1 .. Len(queue) : queue'[j] = queue[j]
    BY <2>1, ChildFacts
  <2>3. \A j \in 1 .. Len(queue) : queue[j] # 0
    BY <2>2, ChildFacts
  <2>4. /\ Len(heard) + Len(queue) = Taken
        /\ \A j \in 1 .. Len(queue) : queue[j] = Len(heard) + j
        /\ \A i \in 1 .. Len(heard) : i <= Len(reply) /\ heard[i] = reply[i]
        /\ ~waiter => child = "ok"
    BY <1>2, <2>3 DEF ChatInv, Flow
  <2>5. Taken = n /\ Taken' = n + 1
    BY <1>1, <1>3, <1>4, <1>5, ChildFacts DEF Taken, Chat!Whole
  <2>6. Len(heard) + Len(queue') = n + 1
    BY <2>2, <2>4, <2>5, ChildFacts
  <2>7. ASSUME NEW j \in 1 .. Len(queue') PROVE queue'[j] = Len(heard) + j
    <3>1. CASE j = Len(queue) + 1
      <4>1. Len(heard) + Len(queue) = n
        BY <2>4, <2>5
      <4> QED
        BY <3>1, <4>1, <2>2, <1>3, ChildFacts
    <3>2. CASE j # Len(queue) + 1
      <4>1. j \in 1 .. Len(queue)
        BY <3>2, <2>2, ChildFacts
      <4> QED
        BY <4>1, <2>2, <2>4
    <3> QED
      BY <3>1, <3>2
  <2> QED
    BY <1>1, <2>1, <2>4, <2>5, <2>6, <2>7
<1>13. read' \in Nat
  BY <1>4
<1> QED
  BY <1>1, <1>7, <1>10, <1>11, <1>12, <1>13, QuietKeeps DEF ChatInv, ChatTyped

LEMMA WaiterEndsKeeps == ChatInv /\ Chat!WaiterEnds => ChatInv'
<1> SUFFICES ASSUME ChatInv, Chat!WaiterEnds PROVE ChatInv'
  OBVIOUS
<1>1. /\ waiter /\ streams /\ waiter' = FALSE
      /\ \/ child = "ok" /\ UNCHANGED queue
         \/ child = "bad" /\ queue' = Append(queue, 0)
      /\ UNCHANGED <<source, streams, reply, written, read, pipe, child, reader, finished>>
      /\ UNCHANGED <<heard, first, corrected, torn, screen, kept, call>>
  BY DEF Chat!WaiterEnds, Chat!results
<1>2. source = "child"
  BY <1>1 DEF ChatInv, Wired, ChatTyped
<1>3. CASE child = "bad" /\ queue' = Append(queue, 0)
  BY <1>1, <1>2, <1>3, ErrorSent DEF ChatInv, ChatTyped
<1>4. CASE child = "ok" /\ UNCHANGED queue
  <2>1. Chat!TypeOK'
    BY <1>1, <1>4 DEF ChatInv, ChatTyped, Chat!TypeOK, Chat!Whole
  <2>2. Wired'
    <3>1. Len(queue') <= (read' \div 2) + (IF reader' THEN 0 ELSE 1) + (IF waiter' THEN 0 ELSE 1)
      BY <1>1, <1>2, <1>4, ChildFacts, SMTT(60), ZenonT(60) DEF ChatInv, Wired
    <3> QED
      BY <1>1, <1>2, <1>4, <3>1 DEF ChatInv, Wired, Chat!Whole
  <2>3. Flow'
    BY <1>1, <1>2, <1>4 DEF ChatInv, Flow, Taken, Chat!Calling, Chat!Whole
  <2> QED
    BY <1>1, <2>1, <2>2, <2>3, QuietKeeps DEF ChatInv, ChatTyped
<1> QED
  BY <1>1, <1>3, <1>4

LEMMA HearKeeps == ChatInv /\ Chat!Hear => ChatInv'
<1> SUFFICES ASSUME ChatInv, Chat!Hear PROVE ChatInv'
  OBVIOUS
<1>1. /\ Chat!Calling /\ queue # <<>> /\ Head(queue) # 0
      /\ heard' = Append(heard, reply[Head(queue)]) /\ queue' = Tail(queue)
      /\ UNCHANGED <<source, streams, reply, written, read, pipe, child, reader, waiter>>
      /\ UNCHANGED <<first, corrected, torn, screen, kept, call>>
  BY DEF Chat!Hear
<1>2. /\ Head(queue) = queue[1] /\ queue[1] \in 1 .. Len(reply)
      /\ queue' \in Seq(0 .. Len(reply)) /\ Len(queue') = Len(queue) - 1
      /\ \A j \in 1 .. Len(queue') : queue'[j] = queue[j + 1]
      /\ Len(queue) >= 1
  BY <1>1, ChildFacts, SMTT(60), ZenonT(60)
<1>3. /\ heard' \in Chat!Text /\ Len(heard') = Len(heard) + 1
      /\ heard'[Len(heard) + 1] = reply[queue[1]]
      /\ \A i \in 1 .. Len(heard) : heard'[i] = heard[i]
  BY <1>1, <1>2, ChildFacts DEF ChatInv, ChatTyped, Chat!Text
<1>4. Ends'
  BY <1>1, EndsFrame DEF ChatInv
<1>5. Chat!TypeOK'
  BY <1>1, <1>2, ChildFacts DEF ChatInv, ChatTyped, Chat!TypeOK, Chat!Whole
<1>6. ChatTyped'
  BY <1>1, <1>3, <1>5 DEF ChatInv, ChatTyped, Chat!OneObject, Chat!Pieces
<1>7. streams
  BY <1>1 DEF ChatInv, Wired
<1>8. Wired'
  <2>1. source = "child" => Len(queue') <= (read' \div 2) + (IF reader' THEN 0 ELSE 1)
                                           + (IF waiter' THEN 0 ELSE 1)
    <3> SUFFICES ASSUME source = "child"
                 PROVE  Len(queue') <= (read \div 2) + (IF reader THEN 0 ELSE 1)
                                                     + (IF waiter THEN 0 ELSE 1)
      BY <1>1
    <3> DEFINE room == (read \div 2) + (IF reader THEN 0 ELSE 1) + (IF waiter THEN 0 ELSE 1)
    <3>1. Len(queue) <= room
      BY DEF ChatInv, Wired
    <3>2. room \in Nat
      BY ChildFacts
    <3> HIDE DEF room
    <3>3. Len(queue') <= room
      BY <1>2, <3>1, <3>2, ChildFacts
    <3> QED
      BY <3>3 DEF room
  <2>2. Len(queue') <= Len(queue)
    BY <1>2, ChildFacts
  <2>3. source = "server" => Len(queue') <= Len(reply')
    BY <1>1, <1>2, <2>2, ChildFacts DEF ChatInv, Wired
  <2> QED
    BY <1>1, <1>7, <2>1, <2>3 DEF ChatInv, Wired, Chat!Whole
<1>9. Flow'
  <2> SUFFICES ASSUME \A j \in 1 .. Len(queue') : queue'[j] # 0
               PROVE  /\ Len(heard') + Len(queue') = Taken'
                      /\ \A j \in 1 .. Len(queue') : queue'[j] = Len(heard') + j
                      /\ \A i \in 1 .. Len(heard') : i <= Len(reply') /\ heard'[i] = reply'[i]
                      /\ source' = "child" =>
                            /\ ~waiter' => child' = "ok"
                            /\ ~reader' => read' = written' /\ pipe' = "closed"
    BY DEF Flow
  <2>1. \A j \in 1 .. Len(queue) : queue[j] # 0
    <3> SUFFICES ASSUME NEW j \in 1 .. Len(queue), j # 1 PROVE queue[j] # 0
      BY <1>1, <1>2
    <3>1. j - 1 \in 1 .. Len(queue') /\ (j - 1) + 1 = j
      BY <1>2, ChildFacts
    <3>2. queue'[j - 1] = queue[(j - 1) + 1]
      BY <1>2, <3>1
    <3> QED
      BY <3>1, <3>2
  <2>2. /\ Len(heard) + Len(queue) = Taken
        /\ \A j \in 1 .. Len(queue) : queue[j] = Len(heard) + j
        /\ \A i \in 1 .. Len(heard) : i <= Len(reply) /\ heard[i] = reply[i]
        /\ source = "child" => /\ ~waiter => child = "ok"
                               /\ ~reader => read = written /\ pipe = "closed"
    BY <1>1, <1>7, <2>1 DEF ChatInv, Flow
  <2>3. queue[1] = Len(heard) + 1
    <3>1. 1 \in 1 .. Len(queue)
      BY <1>2, ChildFacts
    <3> QED
      BY <2>2, <3>1
  <2>4. Taken' = Taken
    BY <1>1 DEF Taken, Chat!Whole
  <2>5. Len(heard') + Len(queue') = Taken
    BY <1>2, <1>3, <2>2, ChildFacts
  <2>6. \A j \in 1 .. Len(queue') : queue'[j] = Len(heard') + j
    <3> SUFFICES ASSUME NEW j \in 1 .. Len(queue') PROVE queue'[j] = Len(heard') + j
      OBVIOUS
    <3>1. j + 1 \in 1 .. Len(queue) /\ j \in Nat
      BY <1>2, ChildFacts
    <3>2. queue[j + 1] = Len(heard) + (j + 1)
      BY <2>2, <3>1
    <3> QED
      BY <1>2, <1>3, <3>1, <3>2, ChildFacts
  <2>7. ASSUME NEW i \in 1 .. Len(heard') PROVE i <= Len(reply) /\ heard'[i] = reply[i]
    <3>1. CASE i = Len(heard) + 1
      <4>1. heard'[i] = reply[queue[1]] /\ i = queue[1]
        BY <1>3, <2>3, <3>1
      <4>2. queue[1] <= Len(reply)
        BY <1>2, ChildFacts
      <4> QED
        BY <4>1, <4>2
    <3>2. CASE i # Len(heard) + 1
      <4>1. i \in 1 .. Len(heard)
        BY <1>3, <3>2, ChildFacts
      <4> QED
        BY <1>3, <2>2, <4>1
    <3> QED
      BY <3>1, <3>2
  <2> QED
    BY <1>1, <2>2, <2>4, <2>5, <2>6, <2>7
<1> QED
  BY <1>4, <1>6, <1>8, <1>9 DEF ChatInv

LEMMA CapturesKeep == ChatInv /\ (Chat!CaptureEnds \/ Chat!CaptureDeadline) => ChatInv'
<1> SUFFICES ASSUME ChatInv, Chat!CaptureEnds \/ Chat!CaptureDeadline PROVE ChatInv'
  OBVIOUS
<1>1. /\ waiter /\ ~streams /\ waiter' = FALSE
      /\ UNCHANGED <<source, streams, reply, written, pipe, reader, queue, finished>>
      /\ \/ child # "running" /\ child' = child /\ read' = written
         \/ child = "running" /\ child' = "killed" /\ read' = read
      /\ \/ UNCHANGED <<heard, first, corrected, torn, screen, kept, call>>
         \/ Chat!Calling /\ child' = child /\ child = "ok"
            /\ Chat!Respond(SubSeq(reply, 1, written \div 2), FALSE)
         \/ Chat!Calling /\ Chat!FailAfter(heard)
  BY DEF Chat!CaptureEnds, Chat!CaptureDeadline, Chat!Fail, Chat!results
<1>2. source = "child" /\ ~reader /\ queue = <<>>
  BY <1>1 DEF ChatInv, Wired, ChatTyped
<1>3. /\ Ends' /\ heard' \in Chat!Text /\ first' \in Chat!Text
      /\ corrected' \in BOOLEAN /\ torn' \in BOOLEAN
      /\ call' \in {"new", "first", "again", "retry", "answered", "tool", "failed"}
  <2>1. CASE UNCHANGED <<heard, first, corrected, torn, screen, kept, call>>
    <3>1. Ends'
      BY <1>1, <2>1, EndsFrame DEF ChatInv
    <3> QED
      BY <2>1, <3>1 DEF ChatInv, ChatTyped, Chat!TypeOK
  <2>2. CASE Chat!Calling /\ child' = child /\ child = "ok"
             /\ Chat!Respond(SubSeq(reply, 1, written \div 2), FALSE)
    <3>1. written = 2 * Len(reply)
      BY <1>2, <2>2, ChildFacts DEF ChatInv, Wired
    <3>2. written \div 2 = Len(reply)
      BY <3>1, Halves, ChildFacts
    <3>3. SubSeq(reply, 1, written \div 2) = reply
      BY <3>2, ChildFacts DEF ChatInv, ChatTyped, Chat!Text
    <3>4. Chat!Respond(reply, FALSE) /\ reply \in Chat!Text
      BY <2>2, <3>3 DEF ChatInv, ChatTyped
    <3> QED
      BY <1>1, <2>2, <3>4, RespondEnds DEF ChatInv
  <2>3. CASE Chat!Calling /\ Chat!FailAfter(heard)
    <3>1. heard \in Chat!Text /\ call \in {"first", "retry"}
      BY <2>3 DEF ChatInv, ChatTyped, Chat!Calling
    <3>2. /\ Ends' /\ call' \in {"failed", "answered", "tool"}
          /\ UNCHANGED <<heard, first, corrected, torn>>
      BY <1>1, <2>3, <3>1, FailEnds DEF ChatInv
    <3> QED
      BY <3>2 DEF ChatInv, ChatTyped
  <2> QED
    BY <1>1, <2>1, <2>2, <2>3
<1>4. Chat!TypeOK'
  <2>1. read' \in 0 .. written
    BY <1>1, ChildFacts
  <2> QED
    BY <1>1, <1>3, <2>1 DEF ChatInv, ChatTyped, Chat!TypeOK, Chat!Whole
<1>5. ChatTyped'
  <2>1. read' \in Nat
    BY <1>1, ChildFacts
  <2> QED
    BY <1>1, <1>3, <1>4, <2>1 DEF ChatInv, ChatTyped, Chat!OneObject, Chat!Pieces
<1>6. Wired'
  <2>1. PICK m, n \in Nat : written = 2 * m /\ read = 2 * n
    BY <1>2 DEF ChatInv, Wired
  <2>2. \E i, j \in Nat : written' = 2 * i /\ read' = 2 * j
    BY <1>1, <2>1
  <2>3. Len(queue') = 0 /\ (read' \div 2) \in Nat
    BY <1>1, <1>2, ChildFacts
  <2>4. Len(queue') <= (read' \div 2) + (IF reader' THEN 0 ELSE 1) + (IF waiter' THEN 0 ELSE 1)
    BY <2>3
  <2>5. child' = "running" => child' = child
    BY <1>1
  <2> QED
    BY <1>1, <1>2, <2>2, <2>4, <2>5 DEF ChatInv, Wired, Chat!Whole
<1>7. Flow'
  BY <1>1 DEF Flow
<1> QED
  BY <1>3, <1>5, <1>6, <1>7 DEF ChatInv

\* Whatever a model writes, with one object at most in a reply, and whatever
\* the order in which its lines, its exit, its deadline and the end of its
\* output come in: an answer is kept whole or not at all, and is what the user
\* has seen.
THEOREM AnswersStayWhole ==
    ASSUME Replies \subseteq {r \in Chat!Text : Chat!OneObject(r)}
    PROVE  Chat!Spec => []AnswersAreWhole
<1>1. Chat!Init => ChatInv
  <2> SUFFICES ASSUME Chat!Init PROVE ChatInv
    OBVIOUS
  <2>1. <<>> \in Chat!Text /\ Len(<<>>) = 0 /\ Chat!OneObject(<<>>)
    BY DEF Chat!Text, Chat!OneObject, Chat!Pieces
  <2>2. queue \in Seq(0 .. Len(reply)) /\ Len(queue) = 0
    BY DEF Chat!Init
  <2>3. ChatTyped
    <3>1. reply = <<>> /\ Chat!Whole = 0
      BY <2>1 DEF Chat!Init, Chat!Whole
    <3>2. Chat!TypeOK
      BY <2>2, <3>1 DEF Chat!Init, Chat!TypeOK
    <3> QED
      BY <2>1, <3>1, <3>2 DEF Chat!Init, ChatTyped
  <2>4. Wired
    <3>1. \E m, n \in Nat : 0 = 2 * m /\ 0 = 2 * n
      OBVIOUS
    <3> QED
      BY <2>1, <2>2, <3>1 DEF Chat!Init, Wired, Chat!Whole
  <2>5. Flow /\ Ends
    BY DEF Chat!Init, Flow, Ends, Chat!Calling, Chat!NothingHalf, Chat!ShownIsKept, Chat!Accepted
  <2> QED
    BY <2>3, <2>4, <2>5 DEF ChatInv
<1>2. ChatInv /\ [Chat!Next]_Chat!mvars => ChatInv'
  <2> SUFFICES ASSUME ChatInv, [Chat!Next]_Chat!mvars PROVE ChatInv'
    OBVIOUS
  <2>1. CASE Chat!Begins
    <3>1. PICK r \in Replies : Chat!Begin(r)
      BY <2>1 DEF Chat!Begins
    <3> QED
      BY <3>1, BeginKeeps
  <2>2. CASE Chat!CannotStart \/ Chat!StreamFails \/ Chat!Body \/ Chat!HearError \/ Chat!StepTimeout
    BY <2>2, PlainEnds
  <2>3. ASSUME NEW n \in 1 .. Chat!Whole + 2, Chat!Chunk(n) PROVE ChatInv'
    BY <2>3, ChunkKeeps
  <2>4. CASE Chat!StreamDone \/ Chat!ChildDone \/ Chat!Hear
    BY <2>4, StreamDoneKeeps, ChildDoneKeeps, HearKeeps
  <2>5. CASE Chat!EndOfStream \/ Chat!ServerCloses \/ Chat!ServerWrites \/ Chat!ChildWrites
    BY <2>5, ServerClosesKeeps, ServerWritesKeeps, ChildWritesKeeps
  <2>6. CASE Chat!ReadLine \/ Chat!ReadFails \/ Chat!ReaderEnds \/ Chat!WaiterEnds
             \/ Chat!Deadline \/ Chat!CaptureEnds \/ Chat!CaptureDeadline \/ Chat!PipeCloses
    BY <2>6, ReadLineKeeps, ErrorsKeep, PipeClosesKeeps, WaiterEndsKeeps, CapturesKeep
  <2>7. ASSUME NEW how \in {"ok", "bad"}, Chat!ChildExits(how) PROVE ChatInv'
    BY <2>7, ChildExitsKeeps
  <2>8. CASE UNCHANGED Chat!mvars
    <3>1. /\ UNCHANGED <<source, streams, reply, written, read, pipe, child, reader, waiter, queue>>
          /\ UNCHANGED <<heard, first, corrected, torn, screen, kept, call>>
      BY <2>8 DEF Chat!mvars, Chat!wires, Chat!results
    <3>2. Chat!TypeOK'
      BY <3>1 DEF ChatInv, ChatTyped, Chat!TypeOK, Chat!Whole
    <3>3. Wired'
      BY <3>1 DEF ChatInv, Wired, Chat!Whole
    <3>4. Flow'
      BY <3>1 DEF ChatInv, Flow, Taken, Chat!Calling, Chat!Whole
    <3> QED
      BY <3>1, <3>2, <3>3, <3>4, QuietKeeps DEF ChatInv, ChatTyped
  <2> QED
    BY <2>1, <2>2, <2>3, <2>4, <2>5, <2>6, <2>7, <2>8
       DEF Chat!Next, Chat!CallStep, Chat!Threads, Chat!Model
<1>3. ChatInv => AnswersAreWhole
  BY DEF ChatInv, ChatTyped, Ends, AnswersAreWhole, Chat!AnswersAreWhole
<1> QED
  BY <1>1, <1>2, <1>3, PTL DEF Chat!Spec
=============================================================================
