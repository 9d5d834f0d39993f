------------------------------- MODULE Tasks --------------------------------
(***************************************************************************)
(* internal/taskstore, agent.ExecuteTodo and the task handlers of          *)
(* internal/agentapi: one task document (.codehelper/tasks/<id>.json), its *)
(* plan of ordered todos, and the requests that work on it.  Every         *)
(* operation loads the document, changes its copy and saves the copy; the  *)
(* agent runs for minutes in between, and nothing locks the document.      *)
(*                                                                         *)
(* A save replaces the file in one step here; JsonFile looks inside it.    *)
(* Texts, events, messages and files are data nothing below depends on.    *)
(***************************************************************************)
EXTENDS Integers, FiniteSets

CONSTANTS
  NTodos,      \* todos of a plan
  MaxTries,    \* the largest max_attempts of a request to debug
  PlanTries,   \* debug attempts of the todos in a plan that comes from a user
  MaxPlans,    \* bound on the plans of the task
  Requests,    \* HTTP requests handled at a time
  MaxRequests, \* bound on the requests altogether
  UserStatus   \* statuses a user sets, with PATCH or in a plan

Status == {"planned", "approved", "in_progress", "needs_user_input", "blocked",
           "verifying", "failed", "debugging", "complete", "skipped"}
Todos == 1..NTodos
Plans == 1..MaxPlans

ASSUME TasksAssumption ==
  /\ NTodos \in Nat \ {0} /\ MaxTries \in Nat \ {0}
  /\ MaxPlans \in Nat \ {0} /\ MaxRequests \in Nat
  /\ UserStatus \subseteq Status /\ PlanTries \subseteq 0..(MaxTries + 1)
  /\ IsFiniteSet(Requests)

VARIABLES
  task,      \* the document on disk
  request,   \* each request: what it is, where it is and its copy of the document
  issued,    \* requests so far
  plans,     \* plans made so far
  lost,      \* ghost: a save failed, or replaced a version its writer had not read
  edited,    \* ghost: a user saved the document while a todo was being executed
  asked,     \* ghost: todos a user asked to debug or gave a status that lets them run
  verified,  \* ghost: todos an agent finished without remaining errors, or a user vouched for
  debugs     \* ghost: debug runs of each todo that came to an end

taskVars == <<task, request, issued, plans, lost, edited, asked, verified, debugs>>

Documents == [plan : Plans, todo : [Todos -> Status], tries : [Todos -> 0..(MaxTries + 1)]]
\* A plan of the planner, and those of users, who send any todos.
Planned(p) == [plan |-> p, todo |-> [i \in Todos |-> "planned"], tries |-> [i \in Todos |-> 0]]
UserPlans(p) == [plan : {p}, todo : [Todos -> UserStatus \cup {"planned"}],
                 tries : [Todos -> PlanTries]]

\* The statuses CanExecute accepts, and what a plan itself vouches for.
Runnable == {"approved", "failed", "debugging"}
AskedIn(doc) == {<<doc.plan, i>> : i \in {j \in Todos : doc.todo[j] \in Runnable}}
DoneIn(doc) == {<<doc.plan, i>> : i \in {j \in Todos : doc.todo[j] = "complete"}}

Kinds == {"idle", "execute", "debug", "patch", "approve", "replace", "touch"}
Rereads == {"summary", "memory", "files", "verdict", "debugFiles"}
Places == {"start", "preflight", "agent", "gate", "unfixed", "complete", "finish",
           "final", "debugEnd"} \cup Rereads

\* "limit": the max_attempts of a request to debug, once it is used.
\* "behind": somebody has saved since this request loaded its copy.
\* "reread": a step that loads and saves has loaded.
NoRequest == [kind |-> "idle", at |-> "start", copy |-> Planned(1), todo |-> 1,
              limit |-> 0, behind |-> FALSE, reread |-> FALSE]

TasksTypeOK ==
  /\ task \in Documents
  /\ request \in [Requests -> [kind : Kinds, at : Places, copy : Documents, todo : Todos,
                               limit : 0..MaxTries, behind : BOOLEAN, reread : BOOLEAN]]
  /\ issued \in 0..MaxRequests /\ plans \in Plans
  /\ lost \in BOOLEAN /\ edited \in BOOLEAN
  /\ asked \subseteq Plans \X Todos /\ verified \subseteq Plans \X Todos
  /\ debugs \in [Plans \X Todos -> Nat]
  /\ "verifying" \in UserStatus \/ \A i \in Todos : task.todo[i] # "verifying"

\* The task has been created: by the planner, or from a plan of the user's.
TasksInit ==
  /\ task \in {Planned(1)} \cup UserPlans(1)
  /\ asked = AskedIn(task) /\ verified = DoneIn(task)
  /\ request = [q \in Requests |-> NoRequest]
  /\ issued = 0 /\ plans = 1
  /\ lost = FALSE /\ edited = FALSE
  /\ debugs = [x \in Plans \X Todos |-> 0]

Is(q, kind, place) == request[q].kind = kind /\ request[q].at = place
Executing == {q \in Requests : request[q].kind = "execute" /\ request[q].at \in {"agent", "gate"}}

\* The copy of q with another status of its todo, and where the todo is.
Marked(q, status) == [request[q].copy EXCEPT !.todo[request[q].todo] = status]
This(q) == <<request[q].copy.plan, request[q].todo>>

Terminal(doc, i) == doc.todo[i] \in {"complete", "skipped"}
PriorTodosDone(doc, i) == \A j \in 1..(i - 1) : Terminal(doc, j)
AllTodosTerminal(doc) == \A i \in Todos : Terminal(doc, i)

\* Mutant: planned todos may run as well.
CanExecutePlanned(doc, i) ==
  doc.todo[i] \in Runnable \cup {"planned"} /\ PriorTodosDone(doc, i)

CanExecute(doc, i) ==
  doc.todo[i] \in Runnable /\ PriorTodosDone(doc, i)
------------------------------------------------------------------------------
(* Loading and saving *)

\* The request goes on at another place, or is answered.
To(q, place) ==
  [request[q] EXCEPT !.at = place, !.reread = FALSE]
Goes(q, r) == request' = [request EXCEPT ![q] = r]

\* What one save does to the copies: that of the writer is the file, the others
\* are behind.
AfterSave(q, r) ==
  [p \in Requests |-> IF p = q THEN r
                      ELSE IF request[p].kind = "idle" THEN request[p]
                      ELSE [request[p] EXCEPT !.behind = TRUE]]
Saved(q, doc, place) ==
  [To(q, place) EXCEPT !.copy = doc, !.behind = FALSE]

\* Save, and its errors, which all callers but one ignore.
SaveTask(q, doc, r, failed) ==
  \/ /\ task' = doc
     /\ request' = AfterSave(q, r)
     /\ lost' = (lost \/ request[q].behind)
     /\ edited' = (edited \/ (/\ request[q].kind \in {"debug", "patch", "approve", "replace"}
                              /\ Executing # {}))
  \/ /\ lost' = TRUE
     /\ Goes(q, failed)
     /\ UNCHANGED <<task, edited>>

Store(q, doc, place) == SaveTask(q, doc, Saved(q, doc, place), [To(q, place) EXCEPT !.copy = doc])
StoreAndAnswer(q, doc) == SaveTask(q, doc, NoRequest, NoRequest)
------------------------------------------------------------------------------
(* The handlers *)

\* A request arrives and loads the task.
Arrive(q, kind, i) ==
  /\ request[q].kind = "idle" /\ issued < MaxRequests
  /\ issued' = issued + 1
  /\ Goes(q, [NoRequest EXCEPT !.kind = kind, !.copy = task, !.todo = i])
  /\ UNCHANGED <<task, plans, lost, edited, asked, verified, debugs>>

\* ExecuteTodo
ExecuteTodo(q) ==
  /\ Is(q, "execute", "start")
  /\ Goes(q, IF CanExecute(request[q].copy, request[q].todo) THEN To(q, "preflight")
             ELSE NoRequest)
  /\ UNCHANGED <<task, issued, plans, lost, edited, asked, verified, debugs>>

PreflightBlocked(q) ==
  /\ Is(q, "execute", "preflight")
  /\ StoreAndAnswer(q, Marked(q, "blocked"))
  /\ UNCHANGED <<issued, plans, asked, verified, debugs>>

\* Mutant: the status is changed in the copy alone.
StartTodoUnsaved(q) ==
  /\ Is(q, "execute", "preflight")
  /\ Goes(q, [To(q, "agent") EXCEPT !.copy = Marked(q, "in_progress")])
  /\ UNCHANGED <<task, issued, plans, lost, edited, asked, verified, debugs>>

StartTodo(q) ==
  /\ Is(q, "execute", "preflight")
  /\ Store(q, Marked(q, "in_progress"), "agent")
  /\ UNCHANGED <<issued, plans, asked, verified, debugs>>

\* The agent loop, or later the gate, returns an error.
TodoFails(q) ==
  /\ Is(q, "execute", "agent") \/ Is(q, "execute", "gate")
  /\ StoreAndAnswer(q, Marked(q, "failed"))
  /\ UNCHANGED <<issued, plans, asked, verified, debugs>>

\* Without files written, or with verify = false, no gate is run.
AgentDone(q) ==
  /\ Is(q, "execute", "agent")
  /\ \/ Goes(q, [To(q, "gate") EXCEPT !.copy = Marked(q, "verifying")]) /\ UNCHANGED verified
     \/ Goes(q, To(q, "complete")) /\ verified' = verified \cup {This(q)}
  /\ UNCHANGED <<task, issued, plans, lost, edited, asked, debugs>>

GatePasses(q) ==
  /\ Is(q, "execute", "gate")
  /\ Goes(q, To(q, "complete"))
  /\ verified' = verified \cup {This(q)}
  /\ UNCHANGED <<task, issued, plans, lost, edited, asked, debugs>>

\* Mutant: the todo is complete although errors remain.
GateReportsErrorsUnread(q) ==
  /\ Is(q, "execute", "gate")
  /\ Store(q, Marked(q, "complete"), "unfixed")
  /\ UNCHANGED <<issued, plans, asked, verified, debugs>>

\* AppendEvent, and then Save once more.
GateReportsErrors(q) ==
  /\ Is(q, "execute", "gate")
  /\ Store(q, Marked(q, "debugging"), "unfixed")
  /\ UNCHANGED <<issued, plans, asked, verified, debugs>>

CompleteTodo(q) ==
  /\ Is(q, "execute", "complete")
  /\ Store(q, Marked(q, "complete"), "finish")
  /\ UNCHANGED <<issued, plans, asked, verified, debugs>>

\* The finish check of a task whose todos are all terminal; it may fail.
FinishCheck(q) ==
  /\ Is(q, "execute", "finish")
  /\ \/ AllTodosTerminal(request[q].copy) /\ Store(q, request[q].copy, "summary")
     \/ Goes(q, To(q, "final")) /\ UNCHANGED <<task, lost, edited>>
  /\ UNCHANGED <<issued, plans, asked, verified, debugs>>

\* The copy is saved again however old it is; an error ends the request.
SaveFinal(q) ==
  /\ Is(q, "execute", "final")
  /\ SaveTask(q, request[q].copy, Saved(q, request[q].copy, "files"), NoRequest)
  /\ UNCHANGED <<issued, plans, asked, verified, debugs>>

SaveAndAnswer(q) ==
  /\ Is(q, "execute", "unfixed") \/ Is(q, "debug", "debugEnd") \/ Is(q, "touch", "start")
  /\ StoreAndAnswer(q, request[q].copy)
  /\ UNCHANGED <<issued, plans, asked, verified, debugs>>

\* SetFinalSummary, ProposeMemory, RecordChangedFiles, AddVerificationResult
\* load the task again and save it; the copy becomes what they loaded.
Reread(q) ==
  /\ request[q].at \in Rereads /\ ~request[q].reread
  /\ Goes(q, [request[q] EXCEPT !.copy = task, !.behind = FALSE, !.reread = TRUE])
  /\ UNCHANGED <<task, issued, plans, lost, edited, asked, verified, debugs>>

AfterReread == [summary |-> "memory", memory |-> "final", files |-> "verdict",
                debugFiles |-> "debugEnd"]
SaveReread(q) ==
  /\ request[q].at \in Rereads /\ request[q].reread
  /\ IF request[q].at = "verdict" THEN StoreAndAnswer(q, request[q].copy)
     ELSE Store(q, request[q].copy, AfterReread[request[q].at])
  /\ UNCHANGED <<issued, plans, asked, verified, debugs>>

\* Nothing to claim, to propose, written or verified.
NothingToRecord(q) ==
  /\ request[q].at \in Rereads \ {"debugFiles"} /\ ~request[q].reread
  /\ Goes(q, CASE request[q].at \in {"summary", "memory"} -> To(q, "final")
               [] request[q].at = "files" -> To(q, "verdict")
               [] OTHER -> NoRequest)
  /\ UNCHANGED <<task, issued, plans, lost, edited, asked, verified, debugs>>
------------------------------------------------------------------------------
(* handleDebugTodo: it asks for no status, and an attempt whose agent run      *)
(* fails is not saved.                                                         *)

\* DebugAttempts + 1; what is above the limit is not told apart.
Tried(q) ==
  [request[q].copy EXCEPT !.tries[request[q].todo] = IF @ > MaxTries THEN @ ELSE @ + 1]

LimitReached(q) == [Tried(q) EXCEPT !.todo[request[q].todo] = "needs_user_input"]
Attempt(q, limit) ==
  [To(q, "agent") EXCEPT !.limit = limit,
                         !.copy = [Tried(q) EXCEPT !.todo[request[q].todo] = "debugging"]]

\* Mutant: the limit is checked before the attempt is counted.
DebugTodoLate(q) ==
  /\ Is(q, "debug", "start")
  /\ \E limit \in 1..MaxTries :
       IF request[q].copy.tries[request[q].todo] > limit
       THEN Store(q, LimitReached(q), "debugEnd")
       ELSE Goes(q, Attempt(q, limit)) /\ UNCHANGED <<task, lost, edited>>
  /\ asked' = asked \cup {This(q)}
  /\ UNCHANGED <<issued, plans, verified, debugs>>

DebugTodo(q) ==
  /\ Is(q, "debug", "start")
  /\ \E limit \in 1..MaxTries :
       IF Tried(q).tries[request[q].todo] > limit
       THEN Store(q, LimitReached(q), "debugEnd")
       ELSE Goes(q, Attempt(q, limit)) /\ UNCHANGED <<task, lost, edited>>
  /\ asked' = asked \cup {This(q)}
  /\ UNCHANGED <<issued, plans, verified, debugs>>

DebugRan(q) ==
  /\ Is(q, "debug", "agent")
  /\ \E place \in {"gate", "debugEnd"} : Store(q, request[q].copy, place)
  /\ debugs' = [debugs EXCEPT ![This(q)] = @ + 1]
  /\ UNCHANGED <<issued, plans, asked, verified>>

\* The status is set in the copy that the next step drops.
DebugGate(q) ==
  /\ Is(q, "debug", "gate")
  /\ \/ /\ Goes(q, [To(q, "debugFiles") EXCEPT !.copy = Marked(q, "complete")])
        /\ verified' = verified \cup {This(q)}
     \/ /\ Goes(q, [To(q, "debugFiles") EXCEPT !.copy = Marked(q, "failed")])
        /\ UNCHANGED verified
  /\ UNCHANGED <<task, issued, plans, lost, edited, asked, debugs>>
------------------------------------------------------------------------------
(* What users change *)

\* Whoever sets a todo to complete vouches for it.
PatchTodo(q, status) ==
  /\ Is(q, "patch", "start")
  /\ StoreAndAnswer(q, Marked(q, status))
  /\ asked' = IF status \in Runnable THEN asked \cup {This(q)} ELSE asked
  /\ verified' = IF status = "complete" THEN verified \cup {This(q)} ELSE verified
  /\ UNCHANGED <<issued, plans, debugs>>

ApproveAllPlanned(q) ==
  /\ Is(q, "approve", "start")
  /\ LET doc == request[q].copy
         planned == {i \in Todos : doc.todo[i] = "planned"}
     IN /\ StoreAndAnswer(q, [doc EXCEPT !.todo =
              [i \in Todos |-> IF i \in planned THEN "approved" ELSE doc.todo[i]]])
        /\ asked' = asked \cup {<<doc.plan, i>> : i \in planned}
  /\ UNCHANGED <<issued, plans, verified, debugs>>

\* PUT plan, which stores the todos it is sent, and regenerate, which runs the
\* planner between loading and saving.
ReplacePlan(q) ==
  /\ Is(q, "replace", "start") /\ plans < MaxPlans
  /\ plans' = plans + 1
  /\ \E doc \in {Planned(plans + 1)} \cup UserPlans(plans + 1) :
       /\ StoreAndAnswer(q, doc)
       /\ asked' = asked \cup AskedIn(doc) /\ verified' = verified \cup DoneIn(doc)
  /\ UNCHANGED <<issued, debugs>>

\* The planner, the debug agent or the client gives up.
GiveUp(q) ==
  /\ Is(q, "replace", "start") \/ Is(q, "debug", "agent")
  /\ Goes(q, NoRequest)
  /\ UNCHANGED <<task, issued, plans, lost, edited, asked, verified, debugs>>

KillAgentServer ==
  /\ \E q \in Requests : request[q].kind # "idle"
  /\ request' = [q \in Requests |-> NoRequest]
  /\ UNCHANGED <<task, issued, plans, lost, edited, asked, verified, debugs>>

TasksNext ==
  \/ \E q \in Requests :
       \/ \E kind \in {"execute", "debug", "patch"}, i \in Todos : Arrive(q, kind, i)
       \/ \E kind \in {"approve", "replace", "touch"} : Arrive(q, kind, 1)
       \/ ExecuteTodo(q) \/ PreflightBlocked(q) \/ StartTodo(q) \/ TodoFails(q)
       \/ AgentDone(q) \/ GatePasses(q) \/ GateReportsErrors(q) \/ CompleteTodo(q)
       \/ FinishCheck(q) \/ SaveFinal(q) \/ SaveAndAnswer(q)
       \/ Reread(q) \/ SaveReread(q) \/ NothingToRecord(q)
       \/ DebugTodo(q) \/ DebugRan(q) \/ DebugGate(q)
       \/ \E status \in UserStatus : PatchTodo(q, status)
       \/ ApproveAllPlanned(q) \/ ReplacePlan(q) \/ GiveUp(q)
  \/ KillAgentServer

TasksSpec == TasksInit /\ [][TasksNext]_taskVars
------------------------------------------------------------------------------
(* Properties *)

\* A todo that any document or copy calls complete was finished by an agent
\* whose checks left no errors, or marked so by a user, under the same plan:
\* whatever old copies are saved over new ones, no todo becomes complete that
\* was not done.
CompleteWasVerified ==
  \A doc \in {task} \cup {request[q].copy : q \in Requests} :
    \A i \in Todos : doc.todo[i] = "complete" => <<doc.plan, i>> \in verified

\* The agent works only on todos a user asked to debug or gave a status that
\* lets them run, under the plan they belong to.
NoUnapprovedRun ==
  \A q \in Requests : request[q].at \in {"agent", "gate"} => This(q) \in asked

\* One todo at a time: true as long as every save succeeds and replaces the
\* version its writer had read, and nobody edits, approves or debugs while a
\* todo is executed.
OneAtATimeIfQuiet == ~lost /\ ~edited => Cardinality(Executing) <= 1

\* A debug run is under way only if fewer runs of the todo than the limit of its
\* request have come to an end, as long as no save is lost and nobody has saved
\* since the request loaded the task.
DebugBounded ==
  ~lost => \A q \in Requests :
    Is(q, "debug", "agent") /\ ~request[q].behind => debugs[This(q)] < request[q].limit
=============================================================================
