----------------------------- MODULE ModelStream -----------------------------
(***************************************************************************)
(* One model call of an agent's run, with the correction round that may    *)
(* follow it: generate_step and FinalStream of crates/pai-agent/src/lib.rs *)
(* over the two providers that run a model (crates/pai-inference): a local *)
(* server that streams server-sent events over HTTP (lib.rs), or a child   *)
(* process whose output is the answer (process.rs).                        *)
(*                                                                         *)
(* The server's stream is read by the call itself.  The child has a thread *)
(* that reads its output and one that waits for it and owns the deadline;  *)
(* both send into one channel, which the call reads.  A call that does not *)
(* stream waits for the whole answer, and then reads the child's output.   *)
(*                                                                         *)
(* A reply is a sequence of lines, each the set of the pieces it brings:   *)
(*   "hm", "lead"     prose with no brace in it, short or of 64 bytes      *)
(*   "head", "tail"   what opens and closes a final action's object        *)
(*   "a", "b"         what is written, inside such an object or in prose   *)
(*   "fn", "args"     the two halves of a tool call's object               *)
(* Only the first object of a reply counts, so a reply has one of either   *)
(* kind at most (OneObject).                                               *)
(***************************************************************************)
EXTENDS Naturals, Sequences, FiniteSetsExt

CONSTANTS
    Replies,    \* what a model may write
    PipeLines   \* how many lines of output fit the child's pipe

VARIABLES
    source,    \* "server" or "child"
    streams,   \* whether the caller wants the answer as it comes
    call,      \* "new", "first", "again" (to be corrected), "retry", or the
               \* end: "answered", "tool", "failed"
    reply,     \* what the model writes in this call
    written,   \* half lines the model has written
    read,      \* half lines taken from it: the decoder, or the reader thread
    pipe,      \* the connection, or the child's output: "open", "closed"
    child,     \* "none", "running", "ok", "bad" (non-zero exit) or "killed"
    reader, waiter,  \* whether the two threads run
    queue,     \* the channel, or the decoded events: lines by number, 0 an error
    finished,  \* the server said so, or closed the connection
    heard,     \* the lines the call has been handed
    first,     \* those of the call that was to be corrected
    corrected, \* the correction round had a response
    torn,      \* the response is what came before the connection was closed
    screen,    \* what the user was shown before this call, at the end of all
    kept       \* the answer, as the conversation stores it

wires == <<source, streams, reply, written, read, pipe, child, reader, waiter, queue, finished>>
results == <<heard, first, corrected, torn, screen, kept>>
mvars == <<wires, results, call>>

-----------------------------------------------------------------------------
Piece == {"hm", "lead", "head", "tail", "a", "b", "fn", "args"}
Text == Seq(SUBSET Piece)
Pieces(lines) == UNION {lines[i] : i \in DOMAIN lines}
OneObject(lines) == ~({"head", "fn"} \subseteq Pieces(lines))

\* parse_action, over text that may be prose around it or cut anywhere; a raw
\* line break inside the string makes the object unreadable.
Final(lines) ==
    /\ {"head", "tail"} \subseteq Pieces(lines)
    /\ source = "child" => \E i \in DOMAIN lines : {"head", "tail"} \subseteq lines[i]
Action(lines) ==
    IF Final(lines) THEN "final"
    ELSE IF {"fn", "args"} \subseteq Pieces(lines) THEN "tool" ELSE "none"

Content(lines) ==
    IF Pieces(lines) \cap {"a", "b"} = {} THEN <<>>
    ELSE [i \in DOMAIN lines |-> lines[i] \cap {"a", "b"}]

\* dispatch: what is not an action is an answer as it stands.
AnswerOf(lines) ==
    IF Action(lines) = "final" THEN Content(lines) ELSE lines

\* looks_like_tool_attempt of what parse_action makes nothing of.
Malformed(lines) == Action(lines) = "none" /\ "fn" \in Pieces(lines)

\* FinalStream: the line that brings the first brace, or enough prose without
\* one, settles whether the text is shown raw, or the content of its object, or
\* nothing.
Settling(lines) == {i \in DOMAIN lines : lines[i] \cap {"lead", "head", "fn"} # {}}
Shown(lines) ==
    IF Settling(lines) = {} THEN <<>>
    ELSE LET met == lines[Min(Settling(lines))]
         IN IF "fn" \in met THEN <<>>
            ELSE IF "head" \in met THEN Content(lines) ELSE lines

Whole == 2 * Len(reply)

-----------------------------------------------------------------------------
Init ==
    /\ source \in {"server", "child"} /\ streams \in BOOLEAN
    /\ call = "new" /\ reply = <<>> /\ written = 0 /\ read = 0
    /\ pipe = "closed" /\ child = "none" /\ reader = FALSE /\ waiter = FALSE
    /\ queue = <<>> /\ finished = FALSE /\ heard = <<>> /\ first = <<>>
    /\ corrected = FALSE /\ torn = FALSE /\ screen = <<>> /\ kept = <<>>

Calling == call \in {"first", "retry"}

\* The request is sent, or the child is spawned with its threads.
Begin(r) ==
    /\ call \in {"new", "again"}
    /\ call' = IF call = "new" THEN "first" ELSE "retry"
    /\ reply' = r /\ written' = 0 /\ read' = 0 /\ pipe' = "open"
    /\ child' = IF source = "child" THEN "running" ELSE "none"
    /\ reader' = (source = "child" /\ streams)
    /\ waiter' = (source = "child")
    /\ queue' = <<>> /\ finished' = FALSE /\ heard' = <<>>
    /\ UNCHANGED <<source, streams, first, corrected, torn, screen, kept>>

-----------------------------------------------------------------------------
(* The end of a call.                                                      *)

\* The run ends with `lines' as the model's text: a tool call runs, an answer is
\* stored, and shown if none of it was shown while it came.
Dispatch(lines, shown, streamed) ==
    /\ call' = IF Action(lines) = "tool" THEN "tool" ELSE "answered"
    /\ kept' = AnswerOf(lines)
    /\ screen' = IF streamed \/ Action(lines) = "tool" THEN shown ELSE shown \o AnswerOf(lines)

\* A response: malformed output gets one correction round.
Respond(lines, cut) ==
    /\ heard' = lines
    /\ torn' = cut /\ corrected' = (call = "retry")
    /\ LET shown == screen \o (IF streams THEN Shown(lines) ELSE <<>>)
       IN IF call = "first" /\ Malformed(lines)
          THEN /\ call' = "again" /\ first' = lines /\ screen' = shown
               /\ UNCHANGED kept
          ELSE Dispatch(lines, shown, shown # <<>>) /\ UNCHANGED first

\* An error of the first call fails the run, one of the correction round leaves
\* what was to be corrected.
FailAfter(lines) ==
    /\ IF call \in {"new", "first"}
       THEN call' = "failed" /\ screen' = Shown(lines) /\ UNCHANGED kept
       ELSE Dispatch(first, screen \o Shown(lines), streams /\ Shown(first) # <<>>)
    /\ UNCHANGED <<heard, first, corrected, torn>>
Fail == FailAfter(heard)

\* The request is refused, or the command cannot be spawned.
CannotStart == call \in {"new", "again"} /\ FailAfter(<<>>) /\ UNCHANGED wires

\* step_timeout; the threads and the child are left to themselves.
StepTimeout == Calling /\ Fail /\ UNCHANGED wires

-----------------------------------------------------------------------------
(* A server.                                                               *)

\* The server writes a half line; the last line carries the finish reason.
ServerWrites ==
    /\ Calling /\ source = "server" /\ pipe = "open" /\ written < Whole + 2
    /\ written' = written + 1
    /\ UNCHANGED <<source, streams, reply, read, pipe, child, reader, waiter, queue, finished>>
    /\ UNCHANGED <<results, call>>

ServerCloses ==
    /\ Calling /\ source = "server" /\ pipe = "open" /\ pipe' = "closed"
    /\ UNCHANGED <<source, streams, reply, written, read, child, reader, waiter, queue, finished>>
    /\ UNCHANGED <<results, call>>

Waiting == Calling /\ source = "server" /\ streams /\ queue = <<>> /\ ~finished

\* A chunk of n half lines: those it completes are decoded.
Chunk(n) ==
    /\ Waiting /\ read + n <= written
    /\ read' = read + n
    /\ LET from == read \div 2
           upto == IF read + n = Whole + 2 THEN Len(reply) ELSE (read + n) \div 2
       IN queue' = [i \in 1 .. (upto - from) |-> from + i]
    /\ finished' = (read + n = Whole + 2)
    /\ UNCHANGED <<source, streams, reply, written, pipe, child, reader, waiter, results, call>>

\* The connection is closed: what was accumulated is the answer.
EndOfStream ==
    /\ Waiting /\ pipe = "closed" /\ read = written
    /\ finished' = TRUE
    /\ UNCHANGED <<source, streams, reply, written, read, pipe, child, reader, waiter, queue>>
    /\ UNCHANGED <<results, call>>

\* The connection fails, or the client's timeout has passed.
StreamFails == Waiting /\ Fail /\ UNCHANGED wires

StreamDone ==
    /\ Calling /\ source = "server" /\ streams /\ queue = <<>> /\ finished
    /\ Respond(heard, read < Whole + 2)
    /\ UNCHANGED wires

\* Without streaming the body comes whole or not at all.
Body ==
    /\ Calling /\ source = "server" /\ ~streams
    /\ \/ written = Whole + 2 /\ Respond(reply, FALSE)
       \/ pipe = "closed" /\ written < Whole + 2 /\ Fail
    /\ UNCHANGED wires

-----------------------------------------------------------------------------
(* A child process.                                                        *)

\* A write blocks while the pipe is full.
ChildWrites ==
    /\ child = "running" /\ written < Whole /\ written - read < 2 * PipeLines
    /\ written' = written + 2
    /\ UNCHANGED <<source, streams, reply, read, pipe, child, reader, waiter, queue, finished>>
    /\ UNCHANGED <<results, call>>

\* It exits, well when it has written everything.
ChildExits(how) ==
    /\ child = "running" /\ (how = "ok" => written = Whole)
    /\ child' = how
    /\ UNCHANGED <<source, streams, reply, written, read, pipe, reader, waiter, queue, finished>>
    /\ UNCHANGED <<results, call>>

\* Nobody has its output open any more, which may be long after it.
PipeCloses ==
    /\ child \in {"ok", "bad", "killed"} /\ pipe = "open" /\ pipe' = "closed"
    /\ UNCHANGED <<source, streams, reply, written, read, child, reader, waiter, queue, finished>>
    /\ UNCHANGED <<results, call>>

\* The reader sends a line, or leaves when the call has dropped the channel.
ReadLine ==
    /\ reader /\ read < written
    /\ read' = read + 2
    /\ reader' = Calling
    /\ queue' = IF Calling THEN Append(queue, (read \div 2) + 1) ELSE queue
    /\ UNCHANGED <<source, streams, reply, written, pipe, child, waiter, finished, results, call>>

\* Output that is no text.
ReadFails ==
    /\ reader /\ read < written /\ reader' = FALSE
    /\ queue' = Append(queue, 0)
    /\ UNCHANGED <<source, streams, reply, written, read, pipe, child, waiter, finished>>
    /\ UNCHANGED <<results, call>>

ReaderEnds ==
    /\ reader /\ read = written /\ pipe = "closed" /\ reader' = FALSE
    /\ UNCHANGED <<source, streams, reply, written, read, pipe, child, waiter, queue, finished>>
    /\ UNCHANGED <<results, call>>

\* The waiter: silent about success; of a failure it first reads what the
\* child wrote to its other pipe.
WaiterEnds ==
    /\ waiter /\ streams
    /\ \/ child = "ok" /\ UNCHANGED queue
       \/ child = "bad" /\ pipe = "closed" /\ queue' = Append(queue, 0)
    /\ waiter' = FALSE
    /\ UNCHANGED <<source, streams, reply, written, read, pipe, child, reader, finished>>
    /\ UNCHANGED <<results, call>>

\* Sensitivity variant of Deadline: the waiter kills the child and says nothing.
DeadlineSilent ==
    /\ waiter /\ streams /\ child = "running"
    /\ child' = "killed" /\ waiter' = FALSE
    /\ UNCHANGED <<source, streams, reply, written, read, pipe, reader, queue, finished>>
    /\ UNCHANGED <<results, call>>

Deadline ==
    /\ waiter /\ streams /\ child = "running"
    /\ child' = "killed" /\ waiter' = FALSE
    /\ queue' = Append(queue, 0)
    /\ UNCHANGED <<source, streams, reply, written, read, pipe, reader, finished>>
    /\ UNCHANGED <<results, call>>

ChildDone ==
    /\ Calling /\ source = "child" /\ streams /\ queue = <<>> /\ ~reader /\ ~waiter
    /\ Respond(heard, FALSE)
    /\ UNCHANGED wires

\* wait_capture, of a call that may have been given up: it reads the output
\* once the child has exited, or kills it at the deadline.
CaptureEnds ==
    /\ waiter /\ ~streams /\ child # "running" /\ pipe = "closed"
    /\ waiter' = FALSE /\ read' = written
    /\ IF ~Calling THEN UNCHANGED <<results, call>>
       ELSE IF child = "ok" THEN Respond(SubSeq(reply, 1, written \div 2), FALSE) ELSE Fail
    /\ UNCHANGED <<source, streams, reply, written, pipe, child, reader, queue, finished>>

CaptureDeadline ==
    /\ waiter /\ ~streams /\ child = "running"
    /\ waiter' = FALSE /\ child' = "killed"
    /\ IF Calling THEN Fail ELSE UNCHANGED <<results, call>>
    /\ UNCHANGED <<source, streams, reply, written, read, pipe, reader, queue, finished>>

-----------------------------------------------------------------------------
(* The loop of generate_step.                                              *)

Hear ==
    /\ Calling /\ queue # <<>> /\ Head(queue) # 0
    /\ heard' = Append(heard, reply[Head(queue)])
    /\ queue' = Tail(queue)
    /\ UNCHANGED <<source, streams, reply, written, read, pipe, child, reader, waiter, finished>>
    /\ UNCHANGED <<first, corrected, torn, screen, kept, call>>

HearError == Calling /\ queue # <<>> /\ Head(queue) = 0 /\ Fail /\ UNCHANGED wires

CallStep ==
    \/ \E n \in 1 .. Whole + 2 : Chunk(n)
    \/ EndOfStream \/ StreamFails \/ StreamDone \/ Body
    \/ ChildDone \/ Hear \/ HearError \/ StepTimeout
Threads ==
    \/ ReadLine \/ ReadFails \/ ReaderEnds \/ WaiterEnds
    \/ Deadline \/ CaptureEnds \/ CaptureDeadline
Model ==
    \/ ServerWrites \/ ServerCloses \/ ChildWrites \/ PipeCloses
    \/ \E how \in {"ok", "bad"} : ChildExits(how)
Begins == \E r \in Replies : Begin(r)
Next == Begins \/ CannotStart \/ CallStep \/ Threads \/ Model
Spec == Init /\ [][Next]_mvars

-----------------------------------------------------------------------------
TypeOK ==
    /\ call \in {"new", "first", "again", "retry", "answered", "tool", "failed"}
    /\ written \in 0 .. Whole + 2 /\ read \in 0 .. written
    /\ child \in {"none", "running", "ok", "bad", "killed"}
    /\ queue \in Seq(0 .. Len(reply)) /\ Len(queue) <= Len(reply) + 2

\* What ended the run is a response, not what a failed correction round left.
Accepted == call \in {"answered", "tool"} /\ (first = <<>> \/ corrected)

\* An answer that is stored, and a tool call that runs, is the model's, whole
\* and in order, unless the server closed the connection early: nothing of a
\* child that failed or was killed at its deadline passes for an answer, however
\* its lines, its exit and the end of its output come in.
NothingHalf ==
    Accepted /\ ~torn =>
        /\ source = "child" => child = "ok"
        /\ call = "tool" <=> Action(reply) = "tool"
        /\ call = "answered" => kept = AnswerOf(reply)

\* Prose with an object after it is shown as it is written; of an object that
\* cannot be read to its end the content is shown, and the whole text kept.
Irregular(lines) ==
    \/ Shown(lines) = lines /\ Pieces(lines) \cap {"head", "fn"} # {}
    \/ "head" \in Pieces(lines) /\ Action(lines) = "none"

\* What the user watched come in is what the conversation keeps, and a tool call
\* is never shown, unless the model put prose before its object or a raw line
\* break into it, the connection broke, or something was shown before the
\* correction round.
ShownIsKept ==
    Accepted /\ ~torn /\ ~Irregular(reply) /\ (streams => Shown(first) = <<>>) =>
        screen = IF call = "answered" THEN kept ELSE <<>>

\* A model's answer is kept whole or not at all, and is what the user has seen.
AnswersAreWhole == TypeOK /\ NothingHalf /\ ShownIsKept

\* Every run ends, and no child outlives its deadline.
Over == call \in {"answered", "tool", "failed"} /\ child # "running"
=============================================================================
