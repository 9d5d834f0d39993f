------------------------------- MODULE Bridge -------------------------------
(***************************************************************************)
(* internal/lsp: one Query to a language server.  Query starts the server, *)
(* calls "initialize", notifies it of the open file, calls the action      *)
(* (rename falls back to references when the server refuses), and kills    *)
(* the server.  client.call writes a request and reads frames until its    *)
(* answer arrives; frames of other kinds are skipped, answers are matched  *)
(* to calls by id.                                                         *)
(*                                                                         *)
(* The server and the two pipes are outside src/: the server answers in    *)
(* any order or not at all, sends notifications and requests of its own,   *)
(* and need not read while it writes; a pipe holds a bounded number of     *)
(* messages, and is open as long as a process holds its other end.         *)
(***************************************************************************)
EXTENDS Integers, Sequences

CONSTANTS
  PipeSize,  \* messages a pipe holds
  MaxNoise   \* bound on the frames nobody asked for

ASSUME BridgeAssumption == PipeSize \in Nat \ {0} /\ MaxNoise \in Nat

\* Calls by id: 1 initialize, 2 the action, 3 references after a refused rename.
Ids == 1..3
Note == [kind |-> "note", id |-> 0]

\* A frame of the server: an answer to a call, a notification (or a body that
\* is not JSON), a request of its own with an id it chose, a broken header.
Frames == [kind : {"result", "error", "request"}, id : Ids] \cup {Note, [kind |-> "bad", id |-> 0]}
Messages == [kind : {"call"}, id : Ids] \cup {Note}
NoFrame == [kind |-> "none", id |-> 0]

VARIABLES
  query,     \* Query: the action, where it is, the id of its call, its result
  pending,   \* client.pending: the ids that wait for an answer
  box,       \* the channel of each id, which holds one answer
  stdin,     \* messages written to the server and not read by it
  stdout,    \* frames written by the server and not read by the client
  server,    \* the server: started through npx, alive, the frame it is writing
  unanswered, \* calls the server has read and not answered
  noise,     \* frames nobody asked for so far
  clock,     \* the deadline of 12 seconds: ahead, over, or over and the process killed
  requested, \* ghost: ids the server has used for requests of its own
  answered   \* ghost: the answers the server has given

bridgeVars == <<query, pending, box, stdin, stdout, server, unanswered, noise, clock,
                requested, answered>>

BridgeTypeOK ==
  /\ query \in [action : {"hover", "rename"}, id : Ids,
                at : {"call", "check", "read", "initialized", "didOpen", "shutdown", "ended"},
                result : {"none", "fallback", "result", "request"}]
  /\ pending \subseteq Ids
  /\ box \in [Ids -> {"empty", "result", "error", "request"}]
  /\ stdin \in Seq(Messages) /\ Len(stdin) <= PipeSize
  /\ stdout \in Seq(Frames) /\ Len(stdout) <= PipeSize
  /\ server \in [wrapped : BOOLEAN, alive : BOOLEAN, writing : Frames \cup {NoFrame}]
  /\ unanswered \subseteq Ids /\ noise \in 0..MaxNoise
  /\ clock \in {"ahead", "over", "killed"}
  /\ requested \subseteq Ids
  /\ answered \subseteq [kind : {"result", "error"}, id : Ids]
  /\ query.at \in {"check", "read"} => query.id \in pending

BridgeInit ==
  /\ query \in [action : {"hover", "rename"}, id : {1}, at : {"call"}, result : {"none"}]
  /\ pending = {}
  /\ box = [id \in Ids |-> "empty"]
  /\ stdin = <<>> /\ stdout = <<>>
  /\ server \in [wrapped : BOOLEAN, alive : {TRUE}, writing : {NoFrame}]
  /\ unanswered = {} /\ noise = 0
  /\ clock = "ahead"
  /\ requested = {} /\ answered = {}

At(place) == query.at = place
Goto(place) == query' = [query EXCEPT !.at = place]
------------------------------------------------------------------------------
(* Query and client.call *)

\* A call returned an error: rename asks for references, anything else ends.
CallFails ==
  query' = IF query.action = "rename" /\ query.id = 2
           THEN [query EXCEPT !.at = "call", !.id = 3]
           ELSE [query EXCEPT !.at = "ended", !.result = "fallback"]

CallReturns(kind) ==
  IF kind = "error" THEN CallFails
  ELSE IF query.id = 1 THEN Goto("initialized")
  ELSE query' = [query EXCEPT !.at = "shutdown", !.result = kind]

\* write: it blocks while the pipe is full, and fails when nobody can read it.
\* Notifications ignore its errors.
Write(msg, ok, failed) ==
  \/ /\ server.alive /\ Len(stdin) < PipeSize
     /\ stdin' = Append(stdin, msg)
     /\ ok
  \/ ~server.alive /\ failed /\ UNCHANGED stdin

Call ==
  /\ At("call")
  /\ pending' = pending \cup {query.id}
  /\ Write([kind |-> "call", id |-> query.id], Goto("check"), CallFails)
  /\ UNCHANGED <<box, stdout, server, unanswered, noise, clock, requested, answered>>

Notify ==
  /\ \/ At("initialized") /\ Write(Note, Goto("didOpen"), Goto("didOpen"))
     \/ /\ At("didOpen")
        /\ LET action == query' = [query EXCEPT !.at = "call", !.id = 2]
           IN Write(Note, action, action)
     \/ At("shutdown") /\ Write(Note, Goto("ended"), Goto("ended"))
  /\ UNCHANGED <<pending, box, stdout, server, unanswered, noise, clock, requested, answered>>

\* The deadline is looked at between frames, not while a read blocks.
CheckDeadline ==
  /\ At("check")
  /\ IF clock = "ahead" THEN Goto("read") ELSE CallFails
  /\ UNCHANGED <<pending, box, stdin, stdout, server, unanswered, noise, clock, requested, answered>>

\* Mutant: any answer to a pending call ends the call.
TakeAny(f) ==
  /\ f.id \in pending /\ box[f.id] = "empty"
  /\ pending' = pending \ {f.id}
  /\ CallReturns(f.kind) /\ UNCHANGED box

\* A frame with the id of a pending call goes to the channel of that call,
\* which must have room; the call that is waiting takes its own at once.  A
\* request of the server has an id and no error: it passes for an answer
\* without a result.
Take(f) ==
  /\ f.id \in pending /\ box[f.id] = "empty"
  /\ pending' = pending \ {f.id}
  /\ IF f.id = query.id THEN CallReturns(f.kind) /\ UNCHANGED box
     ELSE box' = [box EXCEPT ![f.id] = f.kind] /\ Goto("check")

Read ==
  /\ At("read")
  /\ \/ /\ stdout # <<>>
        /\ stdout' = Tail(stdout)
        /\ LET f == Head(stdout)
           IN \/ f.kind = "bad" /\ CallFails /\ UNCHANGED <<pending, box>>
              \/ f.kind # "bad" /\ f.id \notin pending /\ Goto("check") /\ UNCHANGED <<pending, box>>
              \/ f.kind # "bad" /\ Take(f)
     \/ /\ stdout = <<>> /\ ~server.alive
        /\ CallFails
        /\ UNCHANGED <<pending, box, stdout>>
  /\ UNCHANGED <<stdin, server, unanswered, noise, clock, requested, answered>>
------------------------------------------------------------------------------
(* The server and the clock *)

ServerReads ==
  /\ server.alive /\ server.writing = NoFrame /\ stdin # <<>>
  /\ stdin' = Tail(stdin)
  /\ unanswered' = IF Head(stdin).kind = "call" THEN unanswered \cup {Head(stdin).id}
                   ELSE unanswered
  /\ UNCHANGED <<query, pending, box, stdout, server, noise, clock, requested, answered>>

ServerAnswers(id, kind) ==
  /\ server.alive /\ server.writing = NoFrame /\ id \in unanswered
  /\ server' = [server EXCEPT !.writing = [kind |-> kind, id |-> id]]
  /\ unanswered' = unanswered \ {id}
  /\ answered' = answered \cup {[kind |-> kind, id |-> id]}
  /\ UNCHANGED <<query, pending, box, stdin, stdout, noise, clock, requested>>

ServerSpeaks(f) ==
  /\ server.alive /\ server.writing = NoFrame /\ noise < MaxNoise
  /\ f.kind \notin {"result", "error"}
  /\ noise' = noise + 1
  /\ server' = [server EXCEPT !.writing = f]
  /\ requested' = IF f.kind = "request" THEN requested \cup {f.id} ELSE requested
  /\ UNCHANGED <<query, pending, box, stdin, stdout, unanswered, clock, answered>>

ServerWrites ==
  /\ server.alive /\ server.writing # NoFrame /\ Len(stdout) < PipeSize
  /\ stdout' = Append(stdout, server.writing)
  /\ server' = [server EXCEPT !.writing = NoFrame]
  /\ UNCHANGED <<query, pending, box, stdin, unanswered, noise, clock, requested, answered>>

ServerExits ==
  /\ server.alive
  /\ server' = [server EXCEPT !.alive = FALSE, !.writing = NoFrame]
  /\ UNCHANGED <<query, pending, box, stdin, stdout, unanswered, noise, clock, requested, answered>>

Deadline ==
  /\ clock = "ahead"
  /\ clock' = "over"
  /\ UNCHANGED <<query, pending, box, stdin, stdout, server, unanswered, noise, requested, answered>>

\* Mutant: exec.Command instead of exec.CommandContext.
KillNobody ==
  /\ clock = "over"
  /\ clock' = "killed"
  /\ UNCHANGED <<query, pending, box, stdin, stdout, server, unanswered, noise, requested, answered>>

\* exec.CommandContext kills the process it started.  Behind npx that is not
\* the server, which goes on holding both pipes.
KillServerProcess ==
  /\ clock = "over"
  /\ clock' = "killed"
  /\ server' = IF server.wrapped THEN server
               ELSE [server EXCEPT !.alive = FALSE, !.writing = NoFrame]
  /\ UNCHANGED <<query, pending, box, stdin, stdout, unanswered, noise, requested, answered>>

ClientStep == Call \/ Notify \/ CheckDeadline \/ Read

BridgeNext ==
  \/ ClientStep
  \/ /\ query.at # "ended"
     /\ \/ ServerReads \/ ServerWrites \/ ServerExits \/ Deadline \/ KillServerProcess
        \/ \E id \in Ids, kind \in {"result", "error"} : ServerAnswers(id, kind)
        \/ \E f \in Frames : ServerSpeaks(f)

\* The server owes nothing; the client, the timer and the kill go on.
BridgeFairness ==
  /\ WF_bridgeVars(ClientStep)
  /\ WF_bridgeVars(Deadline /\ ~At("ended")) /\ WF_bridgeVars(KillServerProcess /\ ~At("ended"))

BridgeSpec == BridgeInit /\ [][BridgeNext]_bridgeVars /\ BridgeFairness
------------------------------------------------------------------------------
(* Properties *)

\* What Query returns is the server's answer to the call it is for, also when
\* an earlier call was given up and its answer comes late; unless the server
\* has used the id for a request of its own.
AnswerIsToThisCall ==
  query.result \in {"result", "request"} =>
    [kind |-> "result", id |-> query.id] \in answered \/ query.id \in requested

\* call sends to the channels of pending calls while nobody receives: the one
\* place of each is free, so the send does not block.
SendNeverBlocks == \A id \in pending : box[id] = "empty"

\* Query ends, whatever the server does with its answers and its pipes, even
\* when each side waits for the other to read.  Of a server behind npx this
\* cannot be said.
QueryEnds == server.wrapped \/ <>At("ended")
=============================================================================
