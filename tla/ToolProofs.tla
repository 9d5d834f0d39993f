----------------------------- MODULE ToolProofs ------------------------------
(***************************************************************************)
(* Theorems about Tasks and Edits, for any number of requests, todos,      *)
(* plans, calls, files and contents.                                       *)
(***************************************************************************)
EXTENDS Tasks, Edits, FiniteSetTheorems, TLAPS

(* Tasks *)

RequestRecords == [kind : Kinds, at : Places, copy : Documents, todo : Todos,
                   limit : 0..MaxTries, behind : BOOLEAN, reread : BOOLEAN]

\* Of a document: what may run was asked for, what is complete was verified (a
\* and v stand for asked and verified).
DocOK(doc, a, v) ==
  /\ doc \in Documents
  /\ \A i \in Todos : /\ doc.todo[i] \in Runnable => <<doc.plan, i>> \in a
                      /\ doc.todo[i] = "complete" => <<doc.plan, i>> \in v

\* The status "verifying" is in the copy of the request that waits for the gate
\* and never in the file, unless a user may set it.
NoneVerifying(doc) == "verifying" \in UserStatus \/ \A i \in Todos : doc.todo[i] # "verifying"
OwnVerifying(r) ==
  "verifying" \in UserStatus \/ \A i \in Todos : r.copy.todo[i] = "verifying" =>
    r.kind = "execute" /\ r.at \in {"gate", "complete"} /\ i = r.todo

ReqOK(r, a, v) ==
  /\ r \in RequestRecords /\ DocOK(r.copy, a, v) /\ OwnVerifying(r)
  /\ r.at \in {"preflight", "agent", "gate", "complete"} => <<r.copy.plan, r.todo>> \in a
  /\ r.at = "complete" => <<r.copy.plan, r.todo>> \in v

TasksInv ==
  /\ DocOK(task, asked, verified) /\ NoneVerifying(task)
  /\ request \in [Requests -> RequestRecords]
  /\ \A q \in Requests : ReqOK(request[q], asked, verified)
  /\ issued \in 0..MaxRequests /\ plans \in Plans /\ lost \in BOOLEAN /\ edited \in BOOLEAN
  /\ asked \subseteq Plans \X Todos /\ verified \subseteq Plans \X Todos
  /\ debugs \in [Plans \X Todos -> Nat]

\* What a step may do besides saving and moving on.
Ghosts ==
  /\ asked \subseteq asked' /\ verified \subseteq verified'
  /\ asked' \subseteq Plans \X Todos /\ verified' \subseteq Plans \X Todos
  /\ issued' \in 0..MaxRequests /\ plans' \in Plans /\ debugs' \in [Plans \X Todos -> Nat]

LEMMA OKGrows ==
  ASSUME NEW a, NEW v, NEW b, NEW w, a \subseteq b, v \subseteq w
  PROVE  /\ \A doc : DocOK(doc, a, v) => DocOK(doc, b, w)
         /\ \A r : ReqOK(r, a, v) => ReqOK(r, b, w)
  BY DEF DocOK, ReqOK

LEMMA PlannedIsOK ==
  ASSUME NEW p \in Plans, NEW a, NEW v
  PROVE  DocOK(Planned(p), a, v) /\ NoneVerifying(Planned(p))
  <1> DEFINE doc == Planned(p)
  <1>1. 0 \in 0..(MaxTries + 1) /\ "planned" \in Status
    BY TasksAssumption DEF Status
  <1>2. doc \in Documents /\ \A i \in Todos : doc.todo[i] = "planned"
    BY <1>1 DEF Planned, Documents
  <1> HIDE DEF doc
  <1> QED
    BY <1>2 DEF DocOK, NoneVerifying, Runnable, doc

\* A plan of a user's asks for what it sends, and vouches for it.
LEMMA UserPlanIsOK ==
  ASSUME NEW p \in Plans, NEW doc \in UserPlans(p), NEW a, NEW v,
         AskedIn(doc) \subseteq a, DoneIn(doc) \subseteq v
  PROVE  DocOK(doc, a, v) /\ NoneVerifying(doc)
  <1>1. doc \in Documents
    <2>1. UserStatus \cup {"planned"} \subseteq Status
      BY TasksAssumption DEF Status
    <2> QED
      BY <2>1, TasksAssumption DEF UserPlans, Documents
  <1>2. \A i \in Todos : /\ doc.todo[i] \in Runnable => <<doc.plan, i>> \in a
                         /\ doc.todo[i] = "complete" => <<doc.plan, i>> \in v
    BY DEF AskedIn, DoneIn
  <1>3. NoneVerifying(doc)
    BY DEF NoneVerifying, UserPlans
  <1>4. DocOK(doc, a, v)
    BY <1>1, <1>2 DEF DocOK
  <1> QED
    BY <1>3, <1>4

LEMMA InPlanIsTyped ==
  ASSUME NEW doc \in Documents
  PROVE  AskedIn(doc) \subseteq Plans \X Todos /\ DoneIn(doc) \subseteq Plans \X Todos
  BY DEF AskedIn, DoneIn, Documents

LEMMA NoRequestIsOK == \A a, v : ReqOK(NoRequest, a, v)
  <1> TAKE a, v
  <1>1. 1 \in Plans /\ 1 \in Todos
    BY TasksAssumption DEF Plans, Todos
  <1>2. DocOK(Planned(1), a, v) /\ NoneVerifying(Planned(1))
    BY <1>1, PlannedIsOK
  <1>3. NoRequest \in RequestRecords
    BY <1>1, <1>2, TasksAssumption DEF NoRequest, RequestRecords, DocOK, Kinds, Places
  <1> QED
    BY <1>2, <1>3 DEF NoRequest, ReqOK, OwnVerifying, NoneVerifying

\* A status that lets a todo run, of one somebody asked for.
LEMMA MarkIsOK ==
  ASSUME NEW doc, NEW a, NEW v, DocOK(doc, a, v), NEW i \in Todos, NEW status \in Status,
         status \in Runnable => <<doc.plan, i>> \in a,
         status = "complete" => <<doc.plan, i>> \in v
  PROVE  LET marked == [doc EXCEPT !.todo[i] = status]
         IN /\ DocOK(marked, a, v) /\ marked.plan = doc.plan /\ marked.todo[i] = status
            /\ \A j \in Todos : j # i => marked.todo[j] = doc.todo[j]
  <1> DEFINE marked == [doc EXCEPT !.todo[i] = status]
  <1>1. marked = [doc EXCEPT !.todo = [doc.todo EXCEPT ![i] = status]]
    BY DEF DocOK, Documents
  <1>2. [doc.todo EXCEPT ![i] = status] \in [Todos -> Status]
    BY DEF DocOK, Documents
  <1>3. marked \in Documents /\ marked.plan = doc.plan
    BY <1>1, <1>2 DEF DocOK, Documents
  <1>4. marked.todo = [doc.todo EXCEPT ![i] = status]
    BY <1>1 DEF DocOK, Documents
  <1>5. marked.todo[i] = status /\ \A j \in Todos : j # i => marked.todo[j] = doc.todo[j]
    BY <1>4 DEF DocOK, Documents
  <1>6. DocOK(marked, a, v)
    BY <1>3, <1>5 DEF DocOK
  <1> QED
    BY <1>3, <1>5, <1>6

\* A save, or its failure.
LEMMA SaveKeeps ==
  ASSUME TasksInv, NEW q \in Requests, NEW doc, NEW r, NEW failed,
         SaveTask(q, doc, r, failed), Ghosts,
         DocOK(doc, asked', verified'), NoneVerifying(doc),
         ReqOK(r, asked', verified'), ReqOK(failed, asked', verified')
  PROVE  TasksInv'
  <1>1. \A p \in Requests : ReqOK(request[p], asked', verified')
    BY OKGrows DEF TasksInv, Ghosts
  <1>2. CASE /\ task' = doc /\ request' = AfterSave(q, r)
             /\ lost' = (lost \/ request[q].behind) /\ edited' \in BOOLEAN
    <2>1. \A p \in Requests : ReqOK([request[p] EXCEPT !.behind = TRUE], asked', verified')
      <3> TAKE p \in Requests
      <3> PICK x : x = request[p]
        OBVIOUS
      <3>1. ReqOK(x, asked', verified')
        BY <1>1
      <3>2. [x EXCEPT !.behind = TRUE] \in RequestRecords
        BY <3>1 DEF ReqOK, RequestRecords
      <3>3. /\ [x EXCEPT !.behind = TRUE].copy = x.copy /\ [x EXCEPT !.behind = TRUE].at = x.at
            /\ [x EXCEPT !.behind = TRUE].todo = x.todo /\ [x EXCEPT !.behind = TRUE].kind = x.kind
        BY <3>1 DEF ReqOK, RequestRecords
      <3> QED
        BY <3>1, <3>2, <3>3 DEF ReqOK, OwnVerifying
    <2>2. \A p \in Requests : ReqOK(request'[p], asked', verified')
      BY <1>1, <1>2, <2>1 DEF AfterSave
    <2>3. request' \in [Requests -> RequestRecords]
      BY <1>2, <2>2 DEF AfterSave, ReqOK
    <2>4. lost' \in BOOLEAN
      BY <1>2 DEF TasksInv, RequestRecords
    <2> QED
      BY <1>2, <2>2, <2>3, <2>4 DEF TasksInv, Ghosts, NoneVerifying
  <1>3. CASE lost' = TRUE /\ Goes(q, failed) /\ UNCHANGED <<task, edited>>
    <2>1. request' = [request EXCEPT ![q] = failed] /\ failed \in RequestRecords
      BY <1>3 DEF Goes, ReqOK
    <2>2. request' \in [Requests -> RequestRecords]
      BY <2>1 DEF TasksInv
    <2>3. \A p \in Requests : request'[p] = IF p = q THEN failed ELSE request[p]
      BY <2>1 DEF TasksInv
    <2>4. DocOK(task', asked', verified') /\ NoneVerifying(task')
      BY <1>3, OKGrows DEF TasksInv, Ghosts
    <2>5. \A p \in Requests : ReqOK(request'[p], asked', verified')
      BY <1>1, <2>3
    <2> QED
      BY <1>3, <2>2, <2>4, <2>5 DEF TasksInv, Ghosts, NoneVerifying
  <1>4. edited' \in BOOLEAN \/ UNCHANGED edited
    BY DEF SaveTask, TasksInv
  <1> QED
    BY <1>2, <1>3, <1>4 DEF SaveTask, TasksInv

\* A step without a save.
LEMMA GoesKeeps ==
  ASSUME TasksInv, NEW q \in Requests, NEW r, Goes(q, r), Ghosts,
         UNCHANGED <<task, lost, edited>>, ReqOK(r, asked', verified')
  PROVE  TasksInv'
  <1>1. \A p \in Requests : ReqOK(request[p], asked', verified')
    BY OKGrows DEF TasksInv, Ghosts
  <1>2. request' = [request EXCEPT ![q] = r] /\ r \in RequestRecords
    BY DEF Goes, ReqOK
  <1>3. request' \in [Requests -> RequestRecords]
    BY <1>2 DEF TasksInv
  <1>4. \A p \in Requests : request'[p] = IF p = q THEN r ELSE request[p]
    BY <1>2 DEF TasksInv
  <1>5. \A p \in Requests : ReqOK(request'[p], asked', verified')
    BY <1>1, <1>4
  <1>6. DocOK(task', asked', verified') /\ NoneVerifying(task')
    BY OKGrows DEF TasksInv, Ghosts
  <1> QED
    BY <1>3, <1>5, <1>6 DEF TasksInv, Ghosts, NoneVerifying

\* The request as it goes on elsewhere, with its copy or another.
IsGoing(r, q, doc, place) ==
  /\ r \in RequestRecords /\ r.copy = doc /\ r.at = place
  /\ r.kind = request[q].kind /\ r.todo = request[q].todo

LEMMA GoingOn ==
  ASSUME TasksInv, NEW q \in Requests, NEW place \in Places, NEW doc \in Documents
  PROVE  /\ IsGoing([To(q, place) EXCEPT !.copy = doc], q, doc, place)
         /\ IsGoing(Saved(q, doc, place), q, doc, place)
  <1>1. request[q] \in RequestRecords
    BY DEF TasksInv
  <1>2. To(q, place) \in RequestRecords /\ To(q, place).at = place
        /\ To(q, place).kind = request[q].kind /\ To(q, place).todo = request[q].todo
    BY <1>1 DEF To, RequestRecords
  <1> QED
    BY <1>2 DEF IsGoing, Saved, RequestRecords

LEMMA Staying ==
  ASSUME TasksInv, NEW q \in Requests, NEW place \in Places
  PROVE  /\ To(q, place) \in RequestRecords /\ To(q, place).copy = request[q].copy
         /\ To(q, place).at = place
         /\ To(q, place).kind = request[q].kind /\ To(q, place).todo = request[q].todo
  <1>1. request[q] \in RequestRecords
    BY DEF TasksInv
  <1> QED
    BY <1>1 DEF To, RequestRecords

LEMMA CopyIsOK ==
  ASSUME TasksInv, NEW q \in Requests
  PROVE  /\ DocOK(request[q].copy, asked, verified) /\ request[q].copy \in Documents
         /\ request[q].todo \in Todos /\ This(q) \in Plans \X Todos
         /\ ~(request[q].kind = "execute" /\ request[q].at \in {"gate", "complete"})
              => NoneVerifying(request[q].copy)
         /\ request[q].at \in {"preflight", "agent", "gate", "complete"} => This(q) \in asked
         /\ request[q].at = "complete" => This(q) \in verified
  BY DEF TasksInv, ReqOK, DocOK, RequestRecords, Documents, This, OwnVerifying, NoneVerifying

LEMMA MarkedIsOK ==
  ASSUME TasksInv, NEW q \in Requests, NEW status \in Status, NEW a, NEW v,
         asked \subseteq a, verified \subseteq v,
         status \in Runnable => This(q) \in a, status = "complete" => This(q) \in v
  PROVE  /\ DocOK(Marked(q, status), a, v) /\ Marked(q, status).plan = request[q].copy.plan
         /\ Marked(q, status) \in Documents
         /\ \A j \in Todos : Marked(q, status).todo[j] = "verifying" =>
              "verifying" \in UserStatus \/ j = request[q].todo
         /\ status # "verifying" \/ "verifying" \in UserStatus => NoneVerifying(Marked(q, status))
  <1> PICK doc \in Documents, i \in Todos : doc = request[q].copy /\ i = request[q].todo
    BY CopyIsOK
  <1>1. DocOK(doc, a, v) /\ This(q) = <<doc.plan, i>>
    BY CopyIsOK, OKGrows DEF This
  <1>2. Marked(q, status) = [doc EXCEPT !.todo[i] = status]
    BY DEF Marked
  <1>3. /\ DocOK(Marked(q, status), a, v) /\ Marked(q, status).plan = doc.plan
        /\ Marked(q, status).todo[i] = status
        /\ \A j \in Todos : j # i => Marked(q, status).todo[j] = doc.todo[j]
    BY <1>1, <1>2, MarkIsOK
  <1>4. \A j \in Todos : doc.todo[j] = "verifying" => "verifying" \in UserStatus \/ j = i
    BY DEF TasksInv, ReqOK, OwnVerifying
  <1> QED
    BY <1>3, <1>4 DEF DocOK, NoneVerifying

LEMMA StoreKeeps ==
  ASSUME TasksInv, NEW q \in Requests, NEW doc, NEW place \in Places, Store(q, doc, place), Ghosts,
         DocOK(doc, asked', verified'), NoneVerifying(doc),
         place \in {"preflight", "agent", "gate", "complete"} =>
           <<doc.plan, request[q].todo>> \in asked',
         place # "complete"
  PROVE  TasksInv'
  <1> DEFINE r == Saved(q, doc, place)
             failed == [To(q, place) EXCEPT !.copy = doc]
  <1>1. SaveTask(q, doc, r, failed)
    BY DEF Store
  <1>2. doc \in Documents
    BY DEF DocOK
  <1>3. IsGoing(failed, q, doc, place) /\ IsGoing(r, q, doc, place)
    BY <1>2, GoingOn
  <1> HIDE DEF r, failed
  <1>4. ReqOK(failed, asked', verified') /\ ReqOK(r, asked', verified')
    BY <1>3 DEF IsGoing, ReqOK, OwnVerifying, NoneVerifying
  <1> QED
    BY <1>1, <1>4, SaveKeeps

LEMMA AnswerKeeps ==
  ASSUME TasksInv, NEW q \in Requests, NEW doc, StoreAndAnswer(q, doc), Ghosts,
         DocOK(doc, asked', verified'), NoneVerifying(doc)
  PROVE  TasksInv'
  BY NoRequestIsOK, SaveKeeps DEF StoreAndAnswer

\* A step that moves on with the copy it has.
LEMMA MoveKeeps ==
  ASSUME TasksInv, NEW q \in Requests, NEW place \in Places, Goes(q, To(q, place)), Ghosts,
         UNCHANGED <<task, lost, edited>>, OwnVerifying(To(q, place)),
         place \in {"preflight", "agent", "gate", "complete"} => This(q) \in asked',
         place = "complete" => This(q) \in verified'
  PROVE  TasksInv'
  <1>1. DocOK(request[q].copy, asked', verified')
    BY CopyIsOK, OKGrows DEF Ghosts
  <1>2. ReqOK(To(q, place), asked', verified')
    BY <1>1, Staying DEF ReqOK, This
  <1> QED
    BY <1>2, GoesKeeps

LEMMA TasksInitially == TasksInit => TasksInv
  <1> SUFFICES ASSUME TasksInit PROVE TasksInv
    OBVIOUS
  <1>1. 1 \in Plans
    BY TasksAssumption DEF Plans
  <1>2. DocOK(task, asked, verified) /\ NoneVerifying(task)
    <2>1. CASE task = Planned(1)
      BY <1>1, <2>1, PlannedIsOK
    <2>2. CASE task \in UserPlans(1)
      BY <1>1, <2>2, UserPlanIsOK DEF TasksInit
    <2> QED
      BY <2>1, <2>2 DEF TasksInit
  <1>3. /\ request \in [Requests -> RequestRecords]
        /\ \A q \in Requests : ReqOK(request[q], asked, verified)
    BY NoRequestIsOK DEF TasksInit, ReqOK
  <1>4. asked \subseteq Plans \X Todos /\ verified \subseteq Plans \X Todos
    BY <1>2, InPlanIsTyped DEF TasksInit, DocOK
  <1>5. debugs \in [Plans \X Todos -> Nat] /\ 0 \in 0..MaxRequests
    BY TasksAssumption DEF TasksInit
  <1> QED
    BY <1>1, <1>2, <1>3, <1>4, <1>5 DEF TasksInit, TasksInv

\* The handlers, one fact for each.
LEMMA ArriveStep ==
  ASSUME TasksInv, NEW q \in Requests, NEW kind \in Kinds, NEW i \in Todos, Arrive(q, kind, i)
  PROVE  TasksInv'
  <1> DEFINE r == [NoRequest EXCEPT !.kind = kind, !.copy = task, !.todo = i]
  <1>1. /\ issued < MaxRequests /\ issued' = issued + 1 /\ Goes(q, r)
        /\ UNCHANGED <<task, plans, lost, edited, asked, verified, debugs>>
    BY DEF Arrive
  <1>2. issued' \in 0..MaxRequests
    BY <1>1, TasksAssumption DEF TasksInv
  <1>3. /\ r \in RequestRecords /\ r.copy = task /\ r.at = "start" /\ r.todo = i
    BY NoRequestIsOK DEF TasksInv, DocOK, ReqOK, RequestRecords, NoRequest
  <1>4. ReqOK(r, asked', verified')
    BY <1>1, <1>3 DEF TasksInv, ReqOK, OwnVerifying, NoneVerifying
  <1>5. Ghosts
    BY <1>1, <1>2 DEF Ghosts, TasksInv
  <1> HIDE DEF r
  <1> QED
    BY <1>1, <1>4, <1>5, GoesKeeps

LEMMA GhostsStay ==
  ASSUME TasksInv, UNCHANGED <<issued, plans, asked, verified, debugs>>
  PROVE  Ghosts
  BY DEF Ghosts, TasksInv

LEMMA ExecuteTodoStep == ASSUME TasksInv, NEW q \in Requests, ExecuteTodo(q) PROVE TasksInv'
  <1>1. /\ request[q].kind = "execute" /\ request[q].at = "start"
        /\ UNCHANGED <<task, issued, plans, lost, edited, asked, verified, debugs>>
        /\ \/ CanExecute(request[q].copy, request[q].todo) /\ Goes(q, To(q, "preflight"))
           \/ Goes(q, NoRequest)
    BY DEF ExecuteTodo, Is
  <1>2. Ghosts
    BY <1>1, GhostsStay
  <1>3. CASE CanExecute(request[q].copy, request[q].todo) /\ Goes(q, To(q, "preflight"))
    <2>1. This(q) \in asked
      BY <1>3, CopyIsOK DEF CanExecute, DocOK, This
    <2>2. OwnVerifying(To(q, "preflight"))
      BY <1>1, CopyIsOK, Staying DEF OwnVerifying, NoneVerifying, Places
    <2> QED
      BY <1>1, <1>2, <1>3, <2>1, <2>2, MoveKeeps DEF Places
  <1>4. CASE Goes(q, NoRequest)
    BY <1>1, <1>2, <1>4, NoRequestIsOK, GoesKeeps
  <1> QED
    BY <1>1, <1>3, <1>4

LEMMA MarkedStep ==
  ASSUME TasksInv, NEW q \in Requests,
         \/ PreflightBlocked(q) \/ StartTodo(q) \/ TodoFails(q)
         \/ GateReportsErrors(q) \/ CompleteTodo(q)
  PROVE  TasksInv'
  <1>1. /\ request[q].at \in {"preflight", "agent", "gate", "complete"}
        /\ UNCHANGED <<issued, plans, asked, verified, debugs>>
    BY DEF PreflightBlocked, StartTodo, TodoFails, GateReportsErrors, CompleteTodo, Is
  <1>2. Ghosts /\ This(q) \in asked
    BY <1>1, CopyIsOK, GhostsStay
  <1>3. ASSUME NEW status \in Status \ {"verifying"}, status = "complete" => This(q) \in verified
        PROVE  /\ DocOK(Marked(q, status), asked', verified') /\ NoneVerifying(Marked(q, status))
               /\ <<Marked(q, status).plan, request[q].todo>> \in asked'
    BY <1>1, <1>2, <1>3, MarkedIsOK DEF This
  <1>4. CASE PreflightBlocked(q)
    <2>1. "blocked" \in Status \ {"verifying"}
      BY DEF Status
    <2>2. StoreAndAnswer(q, Marked(q, "blocked"))
      BY <1>4 DEF PreflightBlocked
    <2> QED
      BY <1>2, <1>3, <2>1, <2>2, AnswerKeeps
  <1>5. CASE StartTodo(q)
    <2>1. "in_progress" \in Status \ {"verifying"} /\ "agent" \in Places
      BY DEF Status, Places
    <2>2. Store(q, Marked(q, "in_progress"), "agent")
      BY <1>5 DEF StartTodo
    <2> QED
      BY <1>2, <1>3, <2>1, <2>2, StoreKeeps
  <1>6. CASE TodoFails(q)
    <2>1. "failed" \in Status \ {"verifying"}
      BY DEF Status
    <2>2. StoreAndAnswer(q, Marked(q, "failed"))
      BY <1>6 DEF TodoFails
    <2> QED
      BY <1>2, <1>3, <2>1, <2>2, AnswerKeeps
  <1>7. CASE GateReportsErrors(q)
    <2>1. "debugging" \in Status \ {"verifying"} /\ "unfixed" \in Places
      BY DEF Status, Places
    <2>2. Store(q, Marked(q, "debugging"), "unfixed")
      BY <1>7 DEF GateReportsErrors
    <2> QED
      BY <1>2, <1>3, <2>1, <2>2, StoreKeeps
  <1>8. CASE CompleteTodo(q)
    <2>1. "complete" \in Status \ {"verifying"} /\ "finish" \in Places
      BY DEF Status, Places
    <2>2. Store(q, Marked(q, "complete"), "finish") /\ This(q) \in verified
      BY <1>8, CopyIsOK DEF CompleteTodo, Is
    <2> QED
      BY <1>2, <1>3, <2>1, <2>2, StoreKeeps
  <1> QED
    BY <1>4, <1>5, <1>6, <1>7, <1>8

LEMMA AgentDoneStep ==
  ASSUME TasksInv, NEW q \in Requests, AgentDone(q) \/ GatePasses(q) PROVE TasksInv'
  <1>1. /\ request[q].kind = "execute" /\ request[q].at \in {"agent", "gate"}
        /\ UNCHANGED <<task, issued, plans, lost, edited, asked, debugs>>
        /\ \/ /\ request[q].at = "agent" /\ UNCHANGED verified
              /\ Goes(q, [To(q, "gate") EXCEPT !.copy = Marked(q, "verifying")])
           \/ Goes(q, To(q, "complete")) /\ verified' = verified \cup {This(q)}
    BY DEF AgentDone, GatePasses, Is
  <1>2. This(q) \in asked /\ This(q) \in Plans \X Todos
    BY <1>1, CopyIsOK
  <1>3. Ghosts
    BY <1>1, <1>2 DEF Ghosts, TasksInv
  <1>4. CASE Goes(q, To(q, "complete")) /\ verified' = verified \cup {This(q)}
    <2>1. OwnVerifying(To(q, "complete"))
      <3>1. OwnVerifying(request[q]) /\ "complete" \in Places
        BY DEF TasksInv, ReqOK, Places
      <3> QED
        BY <1>1, <3>1, Staying DEF OwnVerifying
    <2> QED
      BY <1>1, <1>2, <1>3, <1>4, <2>1, MoveKeeps DEF Places
  <1>5. CASE /\ request[q].at = "agent" /\ UNCHANGED verified
             /\ Goes(q, [To(q, "gate") EXCEPT !.copy = Marked(q, "verifying")])
    <2> DEFINE r == [To(q, "gate") EXCEPT !.copy = Marked(q, "verifying")]
    <2>1. "verifying" \in Status /\ "gate" \in Places
      BY DEF Status, Places
    <2>2. /\ DocOK(Marked(q, "verifying"), asked', verified')
          /\ Marked(q, "verifying").plan = request[q].copy.plan
          /\ Marked(q, "verifying") \in Documents
          /\ \A j \in Todos : Marked(q, "verifying").todo[j] = "verifying" =>
               "verifying" \in UserStatus \/ j = request[q].todo
      BY <1>1, <1>2, <1>5, <2>1, MarkedIsOK
    <2>3. /\ r \in RequestRecords /\ r.copy = Marked(q, "verifying") /\ r.at = "gate"
          /\ r.kind = "execute" /\ r.todo = request[q].todo
      BY <1>1, <2>1, <2>2, GoingOn DEF IsGoing
    <2>4. ReqOK(r, asked', verified')
      BY <1>1, <1>2, <2>2, <2>3 DEF ReqOK, OwnVerifying, This
    <2> HIDE DEF r
    <2> QED
      BY <1>1, <1>3, <1>5, <2>4, GoesKeeps DEF r
  <1> QED
    BY <1>1, <1>4, <1>5

LEMMA FinishSteps ==
  ASSUME TasksInv, NEW q \in Requests,
         FinishCheck(q) \/ SaveFinal(q) \/ SaveAndAnswer(q) \/ GiveUp(q)
  PROVE  TasksInv'
  <1>1. /\ UNCHANGED <<issued, plans, asked, verified, debugs>>
        /\ ~(request[q].kind = "execute" /\ request[q].at \in {"gate", "complete"})
    BY DEF FinishCheck, SaveFinal, SaveAndAnswer, GiveUp, Is
  <1>2. Ghosts
    BY <1>1, GhostsStay
  <1>3. DocOK(request[q].copy, asked', verified') /\ NoneVerifying(request[q].copy)
    BY <1>1, CopyIsOK
  <1>4. {"summary", "final", "files"} \subseteq Places
    BY DEF Places, Rereads
  <1>5. CASE Store(q, request[q].copy, "summary")
    BY <1>2, <1>3, <1>4, <1>5, StoreKeeps
  <1>6. CASE Goes(q, To(q, "final")) /\ UNCHANGED <<task, lost, edited>>
    <2>1. OwnVerifying(To(q, "final"))
      BY <1>3, <1>4, Staying DEF OwnVerifying, NoneVerifying
    <2> QED
      BY <1>2, <1>4, <1>6, <2>1, MoveKeeps
  <1>7. CASE SaveFinal(q)
    <2> DEFINE r == Saved(q, request[q].copy, "files")
    <2>1. SaveTask(q, request[q].copy, r, NoRequest)
      BY <1>7 DEF SaveFinal
    <2>2. r \in RequestRecords /\ r.copy = request[q].copy /\ r.at = "files"
      <3>1. "files" \in Places /\ request[q].copy \in Documents
        BY <1>4, CopyIsOK
      <3> QED
        BY <3>1, GoingOn DEF IsGoing
    <2>3. ReqOK(r, asked', verified')
      BY <1>3, <2>2 DEF ReqOK, OwnVerifying, NoneVerifying
    <2> HIDE DEF r
    <2> QED
      BY <1>2, <1>3, <2>1, <2>3, NoRequestIsOK, SaveKeeps
  <1>8. CASE SaveAndAnswer(q)
    BY <1>2, <1>3, <1>8, AnswerKeeps DEF SaveAndAnswer
  <1>9. CASE GiveUp(q)
    BY <1>2, <1>9, NoRequestIsOK, GoesKeeps DEF GiveUp
  <1> QED
    BY <1>5, <1>6, <1>7, <1>8, <1>9 DEF FinishCheck

LEMMA RereadSteps ==
  ASSUME TasksInv, NEW q \in Requests, Reread(q) \/ SaveReread(q) \/ NothingToRecord(q)
  PROVE  TasksInv'
  <1>1. /\ UNCHANGED <<issued, plans, asked, verified, debugs>> /\ request[q].at \in Rereads
        /\ request[q].at \notin {"preflight", "agent", "gate", "complete"}
    BY DEF Reread, SaveReread, NothingToRecord, Rereads
  <1>2. Ghosts
    BY <1>1, GhostsStay
  <1>3. DocOK(request[q].copy, asked', verified') /\ NoneVerifying(request[q].copy)
    BY <1>1, CopyIsOK
  <1>4. CASE Reread(q)
    <2> DEFINE r == [request[q] EXCEPT !.copy = task, !.behind = FALSE, !.reread = TRUE]
    <2>1. r \in RequestRecords /\ r.copy = task /\ r.at = request[q].at
      BY DEF TasksInv, DocOK, RequestRecords
    <2>2. ReqOK(r, asked', verified')
      BY <1>1, <2>1 DEF TasksInv, ReqOK, OwnVerifying, NoneVerifying
    <2>3. Goes(q, r) /\ UNCHANGED <<task, lost, edited>>
      BY <1>4 DEF Reread
    <2> HIDE DEF r
    <2> QED
      BY <1>2, <2>2, <2>3, GoesKeeps
  <1>5. CASE SaveReread(q)
    <2>1. CASE StoreAndAnswer(q, request[q].copy)
      BY <1>2, <1>3, <2>1, AnswerKeeps
    <2>2. CASE /\ Store(q, request[q].copy, AfterReread[request[q].at])
               /\ request[q].at # "verdict"
      <3>1. AfterReread[request[q].at] \in {"memory", "final", "verdict", "debugEnd"}
        BY <1>1, <2>2 DEF AfterReread, Rereads
      <3>2. AfterReread[request[q].at] \in Places
        BY <3>1 DEF Places, Rereads
      <3> QED
        BY <1>2, <1>3, <2>2, <3>1, <3>2, StoreKeeps
    <2> QED
      BY <1>5, <2>1, <2>2 DEF SaveReread
  <1>6. CASE NothingToRecord(q)
    <2>1. UNCHANGED <<task, lost, edited>>
          /\ (Goes(q, To(q, "final")) \/ Goes(q, To(q, "verdict")) \/ Goes(q, NoRequest))
      <3>1. request[q].at \in {"summary", "memory", "files", "verdict"}
        BY <1>6 DEF NothingToRecord, Rereads
      <3>2. CASE request[q].at \in {"summary", "memory"}
        BY <1>6, <3>2 DEF NothingToRecord
      <3>3. CASE request[q].at = "files"
        BY <1>6, <3>3 DEF NothingToRecord
      <3>4. CASE request[q].at = "verdict"
        BY <1>6, <3>4 DEF NothingToRecord
      <3> QED
        BY <3>1, <3>2, <3>3, <3>4
    <2>2. \A place \in {"final", "verdict"} : place \in Places /\ OwnVerifying(To(q, place))
      <3> TAKE place \in {"final", "verdict"}
      <3>1. place \in Places
        BY DEF Places, Rereads
      <3> QED
        BY <1>3, <3>1, Staying DEF OwnVerifying, NoneVerifying
    <2>3. CASE Goes(q, To(q, "final"))
      BY <1>2, <2>1, <2>2, <2>3, MoveKeeps
    <2>4. CASE Goes(q, To(q, "verdict"))
      BY <1>2, <2>1, <2>2, <2>4, MoveKeeps
    <2>5. CASE Goes(q, NoRequest)
      BY <1>2, <2>1, <2>5, NoRequestIsOK, GoesKeeps
    <2> QED
      BY <2>1, <2>3, <2>4, <2>5
  <1> QED
    BY <1>4, <1>5, <1>6

LEMMA DebugTodoStep == ASSUME TasksInv, NEW q \in Requests, DebugTodo(q) PROVE TasksInv'
  <1>1. /\ request[q].kind = "debug" /\ request[q].at = "start"
        /\ asked' = asked \cup {This(q)} /\ UNCHANGED <<issued, plans, verified, debugs>>
    BY DEF DebugTodo, Is
  <1>2. Ghosts /\ This(q) \in asked'
    BY <1>1, CopyIsOK DEF Ghosts, TasksInv
  <1> PICK doc \in Documents, i \in Todos : doc = request[q].copy /\ i = request[q].todo
    BY CopyIsOK
  <1> PICK tried : tried = Tried(q)
    OBVIOUS
  <1>3. /\ tried \in Documents /\ tried.plan = doc.plan /\ tried.todo = doc.todo
    <2> DEFINE n == IF doc.tries[i] > MaxTries THEN doc.tries[i] ELSE doc.tries[i] + 1
    <2>1. n \in 0..(MaxTries + 1)
      <3>1. doc.tries[i] \in 0..(MaxTries + 1)
        BY DEF Documents
      <3> QED
        BY <3>1, TasksAssumption
    <2>2. tried = [doc EXCEPT !.tries = [doc.tries EXCEPT ![i] = n]]
      BY DEF Tried, Documents
    <2> HIDE DEF n
    <2>3. [doc.tries EXCEPT ![i] = n] \in [Todos -> 0..(MaxTries + 1)]
      BY <2>1 DEF Documents
    <2> QED
      BY <2>2, <2>3 DEF Documents
  <1>4. DocOK(tried, asked', verified') /\ NoneVerifying(tried) /\ <<tried.plan, i>> \in asked'
    <2>1. DocOK(doc, asked', verified') /\ NoneVerifying(doc)
      BY <1>1, CopyIsOK, OKGrows
    <2> QED
      BY <1>2, <1>3, <2>1 DEF DocOK, NoneVerifying, This
  <1>5. ASSUME NEW status \in {"needs_user_input", "debugging"}
        PROVE  LET d == [tried EXCEPT !.todo[i] = status]
               IN DocOK(d, asked', verified') /\ NoneVerifying(d) /\ d.plan = tried.plan
    <2>1. status \in Status /\ status \notin {"verifying", "complete"}
      BY DEF Status
    <2> QED
      BY <1>4, <2>1, MarkIsOK DEF NoneVerifying
  <1>6. CASE Store(q, LimitReached(q), "debugEnd")
    <2>1. "debugEnd" \in Places
      BY DEF Places
    <2> DEFINE d == [tried EXCEPT !.todo[i] = "needs_user_input"]
    <2>2. DocOK(d, asked', verified') /\ NoneVerifying(d)
      BY <1>5
    <2> HIDE DEF d
    <2> QED
      BY <1>2, <1>6, <2>1, <2>2, StoreKeeps DEF d, LimitReached
  <1>7. ASSUME NEW limit \in 1..MaxTries, Goes(q, Attempt(q, limit)),
               UNCHANGED <<task, lost, edited>>
        PROVE  TasksInv'
    <2> DEFINE d == [tried EXCEPT !.todo[i] = "debugging"]
               r == [To(q, "agent") EXCEPT !.limit = limit, !.copy = d]
    <2>1. DocOK(d, asked', verified') /\ NoneVerifying(d) /\ d.plan = tried.plan
      BY <1>5
    <2>2. "agent" \in Places /\ d \in Documents
      BY <2>1 DEF Places, DocOK
    <2> HIDE DEF d
    <2>3. r \in RequestRecords /\ r.copy = d /\ r.at = "agent" /\ r.todo = i
      <3>1. limit \in 0..MaxTries
        BY TasksAssumption
      <3> PICK x \in RequestRecords : x = To(q, "agent") /\ x.at = "agent" /\ x.todo = i
        BY <2>2, Staying
      <3>2. r = [x EXCEPT !.limit = limit, !.copy = d]
        OBVIOUS
      <3> HIDE DEF r
      <3> QED
        BY <2>2, <3>1, <3>2 DEF RequestRecords
    <2>4. ReqOK(r, asked', verified')
      BY <1>4, <2>1, <2>3 DEF ReqOK, OwnVerifying, NoneVerifying
    <2> HIDE DEF r
    <2> QED
      BY <1>2, <1>7, <2>4, GoesKeeps DEF r, d, Attempt
  <1> QED
    BY <1>6, <1>7 DEF DebugTodo

LEMMA DebugRanStep == ASSUME TasksInv, NEW q \in Requests, DebugRan(q) PROVE TasksInv'
  <1>1. /\ request[q].kind = "debug" /\ request[q].at = "agent"
        /\ UNCHANGED <<issued, plans, asked, verified>>
        /\ debugs' = [debugs EXCEPT ![This(q)] = @ + 1]
        /\ Store(q, request[q].copy, "gate") \/ Store(q, request[q].copy, "debugEnd")
    BY DEF DebugRan, Is
  <1>2. This(q) \in Plans \X Todos /\ This(q) \in asked
    BY <1>1, CopyIsOK
  <1>3. Ghosts
    BY <1>1, <1>2 DEF Ghosts, TasksInv
  <1>4. /\ DocOK(request[q].copy, asked', verified') /\ NoneVerifying(request[q].copy)
        /\ "gate" \in Places /\ "debugEnd" \in Places
        /\ <<request[q].copy.plan, request[q].todo>> \in asked'
    BY <1>1, <1>2, CopyIsOK DEF This, Places
  <1>5. CASE Store(q, request[q].copy, "gate")
    BY <1>3, <1>4, <1>5, StoreKeeps
  <1>6. CASE Store(q, request[q].copy, "debugEnd")
    BY <1>3, <1>4, <1>6, StoreKeeps
  <1> QED
    BY <1>1, <1>5, <1>6

LEMMA DebugGateStep == ASSUME TasksInv, NEW q \in Requests, DebugGate(q) PROVE TasksInv'
  <1>1. PICK status \in {"complete", "failed"} :
          /\ request[q].kind = "debug" /\ request[q].at = "gate"
          /\ Goes(q, [To(q, "debugFiles") EXCEPT !.copy = Marked(q, status)])
          /\ verified' = IF status = "complete" THEN verified \cup {This(q)} ELSE verified
          /\ UNCHANGED <<task, issued, plans, lost, edited, asked, debugs>>
    BY DEF DebugGate, Is
  <1>2. This(q) \in Plans \X Todos /\ This(q) \in asked
    BY <1>1, CopyIsOK
  <1>3. Ghosts
    BY <1>1, <1>2 DEF Ghosts, TasksInv
  <1>4. status \in Status /\ "debugFiles" \in Places
    BY DEF Status, Places, Rereads
  <1>5. /\ DocOK(Marked(q, status), asked', verified') /\ Marked(q, status) \in Documents
        /\ NoneVerifying(Marked(q, status))
    BY <1>1, <1>2, <1>4, MarkedIsOK
  <1> DEFINE r == [To(q, "debugFiles") EXCEPT !.copy = Marked(q, status)]
  <1>6. IsGoing(r, q, Marked(q, status), "debugFiles")
    BY <1>4, <1>5, GoingOn
  <1> HIDE DEF r
  <1>7. ReqOK(r, asked', verified')
    BY <1>5, <1>6 DEF IsGoing, ReqOK, OwnVerifying, NoneVerifying
  <1> QED
    BY <1>1, <1>3, <1>7, GoesKeeps DEF r

LEMMA UserSteps ==
  ASSUME TasksInv, NEW q \in Requests,
         ApproveAllPlanned(q) \/ ReplacePlan(q) \/ \E status \in UserStatus : PatchTodo(q, status)
  PROVE  TasksInv'
  <1> PICK doc \in Documents, i \in Todos : doc = request[q].copy /\ i = request[q].todo
    BY CopyIsOK
  <1>1. request[q].at = "start" /\ UNCHANGED <<issued, debugs>>
    BY DEF ApproveAllPlanned, ReplacePlan, PatchTodo, Is
  <1>2. DocOK(doc, asked, verified) /\ NoneVerifying(doc)
    BY <1>1, CopyIsOK
  <1>3. ASSUME NEW status \in UserStatus, PatchTodo(q, status) PROVE TasksInv'
    <2>1. /\ StoreAndAnswer(q, Marked(q, status)) /\ plans' = plans
          /\ asked' = IF status \in Runnable THEN asked \cup {This(q)} ELSE asked
          /\ verified' = IF status = "complete" THEN verified \cup {This(q)} ELSE verified
      BY <1>3 DEF PatchTodo
    <2>2. Ghosts
      BY <1>1, <2>1, CopyIsOK DEF Ghosts, TasksInv
    <2>3. status \in Status /\ (status # "verifying" \/ "verifying" \in UserStatus)
      BY TasksAssumption
    <2>4. DocOK(Marked(q, status), asked', verified') /\ NoneVerifying(Marked(q, status))
      BY <2>1, <2>2, <2>3, MarkedIsOK DEF Ghosts
    <2> QED
      BY <2>1, <2>2, <2>4, AnswerKeeps
  <1>4. CASE ApproveAllPlanned(q)
    <2> DEFINE planned == {j \in Todos : doc.todo[j] = "planned"}
               approved == [doc EXCEPT !.todo =
                 [j \in Todos |-> IF j \in planned THEN "approved" ELSE doc.todo[j]]]
    <2>1. /\ StoreAndAnswer(q, approved) /\ UNCHANGED <<plans, verified>>
          /\ asked' = asked \cup {<<doc.plan, j>> : j \in planned}
      BY <1>4 DEF ApproveAllPlanned
    <2>2. doc.plan \in Plans
      BY DEF Documents
    <2>3. Ghosts
      BY <1>1, <2>1, <2>2 DEF Ghosts, TasksInv
    <2>4. approved \in Documents /\ approved.plan = doc.plan
          /\ \A j \in Todos : approved.todo[j] = IF j \in planned THEN "approved" ELSE doc.todo[j]
      BY DEF Documents, Status
    <2>5. DocOK(approved, asked', verified') /\ NoneVerifying(approved)
      <3>1. \A j \in Todos : /\ approved.todo[j] \in Runnable => <<doc.plan, j>> \in asked'
                             /\ approved.todo[j] = "complete" => <<doc.plan, j>> \in verified'
        BY <1>2, <2>1, <2>4 DEF DocOK
      <3>2. NoneVerifying(approved)
        BY <1>2, <2>4 DEF NoneVerifying
      <3> QED
        BY <2>4, <3>1, <3>2 DEF DocOK
    <2> HIDE DEF approved
    <2> QED
      BY <2>1, <2>3, <2>5, AnswerKeeps
  <1>5. CASE ReplacePlan(q)
    <2>1. PICK new \in {Planned(plans + 1)} \cup UserPlans(plans + 1) :
            /\ plans < MaxPlans /\ plans' = plans + 1 /\ StoreAndAnswer(q, new)
            /\ asked' = asked \cup AskedIn(new) /\ verified' = verified \cup DoneIn(new)
      BY <1>5 DEF ReplacePlan
    <2>2. plans' \in Plans /\ plans + 1 \in Plans
      BY <2>1, TasksAssumption DEF TasksInv, Plans
    <2>3. DocOK(new, asked', verified') /\ NoneVerifying(new)
      BY <2>1, <2>2, PlannedIsOK, UserPlanIsOK
    <2>4. Ghosts
      BY <1>1, <2>1, <2>2, <2>3, InPlanIsTyped DEF Ghosts, TasksInv, DocOK
    <2> QED
      BY <2>1, <2>3, <2>4, AnswerKeeps
  <1> QED
    BY <1>3, <1>4, <1>5

LEMMA TasksStep == TasksInv /\ [TasksNext]_taskVars => TasksInv'
  <1> SUFFICES ASSUME TasksInv, [TasksNext]_taskVars PROVE TasksInv'
    OBVIOUS
  <1>1. ASSUME NEW q \in Requests, NEW kind \in {"execute", "debug", "patch"}, NEW i \in Todos,
               Arrive(q, kind, i)
        PROVE  TasksInv'
    BY <1>1, ArriveStep DEF Kinds
  <1>2. ASSUME NEW q \in Requests, NEW kind \in {"approve", "replace", "touch"}, Arrive(q, kind, 1)
        PROVE  TasksInv'
    <2>1. 1 \in Todos /\ kind \in Kinds
      BY TasksAssumption DEF Todos, Kinds
    <2> QED
      BY <1>2, <2>1, ArriveStep
  <1>3. ASSUME NEW q \in Requests,
               \/ ExecuteTodo(q) \/ PreflightBlocked(q) \/ StartTodo(q) \/ TodoFails(q)
               \/ AgentDone(q) \/ GatePasses(q) \/ GateReportsErrors(q) \/ CompleteTodo(q)
        PROVE  TasksInv'
    BY <1>3, ExecuteTodoStep, MarkedStep, AgentDoneStep
  <1>4. ASSUME NEW q \in Requests,
               \/ FinishCheck(q) \/ SaveFinal(q) \/ SaveAndAnswer(q) \/ GiveUp(q)
               \/ Reread(q) \/ SaveReread(q) \/ NothingToRecord(q)
        PROVE  TasksInv'
    BY <1>4, FinishSteps, RereadSteps
  <1>5. ASSUME NEW q \in Requests,
               \/ DebugTodo(q) \/ DebugRan(q) \/ DebugGate(q) \/ ApproveAllPlanned(q)
               \/ ReplacePlan(q) \/ \E status \in UserStatus : PatchTodo(q, status)
        PROVE  TasksInv'
    BY <1>5, DebugTodoStep, DebugRanStep, DebugGateStep, UserSteps
  <1>6. CASE KillAgentServer
    <2>1. /\ request' = [q \in Requests |-> NoRequest]
          /\ UNCHANGED <<task, issued, plans, lost, edited, asked, verified, debugs>>
      BY <1>6 DEF KillAgentServer
    <2>2. /\ request' \in [Requests -> RequestRecords]
          /\ \A q \in Requests : ReqOK(request'[q], asked', verified')
      BY <2>1, NoRequestIsOK DEF ReqOK
    <2> QED
      BY <2>1, <2>2 DEF TasksInv, NoneVerifying
  <1>7. CASE UNCHANGED taskVars
    BY <1>7 DEF taskVars, TasksInv, NoneVerifying
  <1> QED
    BY <1>1, <1>2, <1>3, <1>4, <1>5, <1>6, <1>7 DEF TasksNext

\* The document stays a document of a plan of the task, and the status
\* "verifying" never reaches the file.
THEOREM TasksAreTyped == TasksSpec => []TasksTypeOK
  <1>1. TasksInv => TasksTypeOK
    BY DEF TasksInv, TasksTypeOK, DocOK, NoneVerifying, RequestRecords
  <1> QED
    BY <1>1, TasksInitially, TasksStep, PTL DEF TasksSpec

\* However many requests work on one document, whatever old copies they save,
\* whichever saves fail: complete means verified.
THEOREM CompleteMeansVerified == TasksSpec => []CompleteWasVerified
  <1>1. TasksInv => CompleteWasVerified
    BY DEF TasksInv, CompleteWasVerified, ReqOK, DocOK
  <1> QED
    BY <1>1, TasksInitially, TasksStep, PTL DEF TasksSpec

\* And the agent runs on nothing a user has not asked for.
THEOREM RunsWereApproved == TasksSpec => []NoUnapprovedRun
  <1>1. TasksInv => NoUnapprovedRun
    BY DEF TasksInv, NoUnapprovedRun, ReqOK, This
  <1> QED
    BY <1>1, TasksInitially, TasksStep, PTL DEF TasksSpec

------------------------------------------------------------------------------
(* One todo at a time.  As long as every save replaces what its writer has *)
(* read and nobody edits while a todo is executed, the document shows whose *)
(* turn it is, and every request that could start another todo knows it.    *)

\* The todo is being executed and its turn has come.
InTurn(doc, i) == doc.todo[i] = "in_progress" /\ PriorTodosDone(doc, i)

\* A request that works on a todo, or has, and can still say so.
Owns(r) ==
  /\ r.kind = "execute"
  /\ r.at \in {"agent", "gate"} \/ (r.at = "complete" /\ ~r.behind)

\* A request that starts a todo or saves what it has loaded, and has loaded the
\* document as it is.
Knows(r) ==
  /\ r.kind \in {"execute", "touch"} /\ ~r.behind
  /\ r.at \notin {"agent", "gate", "complete"}

\* A place with no request is at its start; a request goes to preflight when the
\* copy it has lets it.
MayStart(r) ==
  /\ r.kind = "idle" => r.at = "start"
  /\ r.kind = "execute" /\ r.at = "preflight" => CanExecute(r.copy, r.todo)

QuietInv ==
  /\ \A q \in Requests : MayStart(request[q])
  /\ ~lost /\ ~edited =>
       /\ \A q \in Requests : Owns(request[q]) => InTurn(task, request[q].todo)
       /\ \A p, q \in Requests : Owns(request[p]) /\ Owns(request[q]) => p = q
       /\ \A q \in Requests : Knows(request[q]) => request[q].copy = task

Users == {"debug", "patch", "approve", "replace"}

\* While it is one todo's turn, no other can start.
LEMMA OneTurn ==
  ASSUME NEW doc, NEW i \in Todos, NEW j \in Todos, InTurn(doc, i)
  PROVE  ~CanExecute(doc, j)
  <1>1. doc.todo[i] = "in_progress" /\ ~Terminal(doc, i)
    BY DEF InTurn, Terminal
  <1>2. i \in Nat /\ j \in Nat /\ i >= 1 /\ j >= 1
    BY TasksAssumption DEF Todos
  <1>3. CASE i < j
    BY <1>1, <1>2, <1>3 DEF CanExecute, PriorTodosDone
  <1>4. CASE j < i
    <2>1. Terminal(doc, j)
      BY <1>2, <1>4 DEF InTurn, PriorTodosDone
    <2> QED
      BY <2>1 DEF Terminal, CanExecute, Runnable
  <1> QED
    BY <1>1, <1>2, <1>3, <1>4 DEF CanExecute, Runnable

\* What a save that succeeds, on what its writer has read, does to the others.
LEMMA SaveShape ==
  ASSUME TasksInv, NEW q \in Requests, NEW doc, NEW r, NEW failed, SaveTask(q, doc, r, failed)
  PROVE  /\ \A p \in Requests \ {q} :
              /\ request'[p].kind = request[p].kind /\ request'[p].at = request[p].at
              /\ request'[p].copy = request[p].copy /\ request'[p].todo = request[p].todo
              /\ request'[p].limit = request[p].limit
         /\ request'[q] = r \/ request'[q] = failed
         /\ ~lost' =>
              /\ task' = doc /\ ~lost /\ ~request[q].behind /\ request'[q] = r
              /\ \A p \in Requests \ {q} : request'[p].kind = "idle" \/ request'[p].behind
              /\ ~edited' => ~edited /\ (request[q].kind \in Users => Executing = {})
  <1>1. CASE /\ task' = doc /\ request' = AfterSave(q, r)
             /\ lost' = (lost \/ request[q].behind)
             /\ edited' = (edited \/ (request[q].kind \in Users /\ Executing # {}))
    <2>1. ASSUME NEW p \in Requests \ {q}
          PROVE  /\ request'[p].kind = request[p].kind /\ request'[p].at = request[p].at
                 /\ request'[p].copy = request[p].copy /\ request'[p].todo = request[p].todo
                 /\ request'[p].limit = request[p].limit
                 /\ request'[p].kind = "idle" \/ request'[p].behind
      <3>1. request[p] \in RequestRecords
        BY DEF TasksInv
      <3>2. request'[p] = IF request[p].kind = "idle" THEN request[p]
                          ELSE [request[p] EXCEPT !.behind = TRUE]
        BY <1>1 DEF AfterSave
      <3> QED
        BY <3>1, <3>2 DEF RequestRecords
    <2>2. request'[q] = r
      BY <1>1 DEF AfterSave
    <2> QED
      BY <1>1, <2>1, <2>2
  <1>2. CASE lost' = TRUE /\ Goes(q, failed)
    BY <1>2 DEF Goes, TasksInv
  <1> QED
    BY <1>1, <1>2 DEF SaveTask, Users

\* A save keeps the turns when it leaves the document as it is, when it is the
\* owner's or there is none, and when it is a user's, who edits if there is one.
LEMMA SaveKeepsTurns ==
  ASSUME TasksInv, QuietInv, NEW q \in Requests, NEW doc, NEW r, NEW failed,
         SaveTask(q, doc, r, failed),
         request[q].kind # "idle",
         \A s \in {r, failed} : s = NoRequest \/
           (s.kind = request[q].kind /\ s.todo = request[q].todo /\ s.copy = doc /\ s.at # "preflight"),
         ~lost /\ ~edited /\ ~request[q].behind =>
           \/ doc = task /\ ~Owns(r)
           \/ /\ \A p \in Requests \ {q} : ~Owns(request[p])
              /\ Owns(r) => InTurn(doc, r.todo)
           \/ request[q].kind \in Users
  PROVE  QuietInv'
  <1>1. \A p \in Requests : MayStart(request'[p])
    <2>1. MayStart(r) /\ MayStart(failed)
      BY DEF MayStart, NoRequest
    <2> QED
      BY <2>1, SaveShape DEF QuietInv, MayStart
  <1>2. ASSUME ~lost', ~edited'
        PROVE  /\ \A p \in Requests : Owns(request'[p]) => InTurn(task', request'[p].todo)
               /\ \A p, o \in Requests : Owns(request'[p]) /\ Owns(request'[o]) => p = o
               /\ \A p \in Requests : Knows(request'[p]) => request'[p].copy = task'
    <2>1. /\ task' = doc /\ ~lost /\ ~edited /\ ~request[q].behind /\ request'[q] = r
          /\ request[q].kind \in Users => Executing = {}
      BY <1>2, SaveShape
    <2>2. \A p \in Requests \ {q} : ~Knows(request'[p])
      BY <1>2, SaveShape DEF Knows
    <2>3. Knows(r) => r.copy = doc
      BY DEF Knows, NoRequest
    <2>4. \A p \in Requests \ {q} : Owns(request'[p]) =>
            /\ Owns(request[p]) /\ p \in Executing /\ request'[p].todo = request[p].todo
      BY <1>2, SaveShape DEF Owns, Executing
    <2>5. CASE doc = task /\ ~Owns(r)
      BY <2>1, <2>2, <2>3, <2>4, <2>5 DEF QuietInv
    <2>6. CASE /\ \A p \in Requests \ {q} : ~Owns(request[p])
               /\ Owns(r) => InTurn(doc, r.todo)
      BY <2>1, <2>2, <2>3, <2>4, <2>6
    <2>7. CASE request[q].kind \in Users
      <3>1. ~Owns(r)
        BY <2>7 DEF Owns, Users, NoRequest
      <3> QED
        BY <2>1, <2>2, <2>3, <2>4, <2>7, <3>1
    <2> QED
      BY <2>1, <2>5, <2>6, <2>7
  <1> QED
    BY <1>1, <1>2 DEF QuietInv, Owns, Knows, InTurn, PriorTodosDone, Terminal, MayStart, CanExecute

\* A step without a save keeps them when it makes nobody an owner.
LEMMA GoesKeepsTurns ==
  ASSUME TasksInv, QuietInv, NEW q \in Requests, NEW r, Goes(q, r),
         UNCHANGED <<task, lost, edited>>,
         MayStart(r),
         Owns(r) => Owns(request[q]) /\ r.todo = request[q].todo,
         Knows(r) => r.copy = task \/ (Knows(request[q]) /\ r.copy = request[q].copy)
  PROVE  QuietInv'
  <1>1. request'[q] = r /\ \A p \in Requests \ {q} : request'[p] = request[p]
    BY DEF Goes, TasksInv
  <1>2. \A p \in Requests : MayStart(request'[p])
    BY <1>1 DEF QuietInv
  <1>3. ~lost /\ ~edited =>
          /\ \A p \in Requests : Owns(request'[p]) => InTurn(task, request'[p].todo)
          /\ \A p, o \in Requests : Owns(request'[p]) /\ Owns(request'[o]) => p = o
          /\ \A p \in Requests : Knows(request'[p]) => request'[p].copy = task
    BY <1>1 DEF QuietInv
  <1> QED
    BY <1>2, <1>3 DEF QuietInv, Owns, Knows, InTurn, PriorTodosDone, Terminal, MayStart, CanExecute

LEMMA StoreKeepsTurns ==
  ASSUME TasksInv, QuietInv, NEW q \in Requests, NEW doc \in Documents,
         NEW place \in Places \ {"preflight"}, Store(q, doc, place), request[q].kind # "idle",
         ~lost /\ ~edited /\ ~request[q].behind =>
           \/ doc = task /\ place \notin {"agent", "gate", "complete"}
           \/ /\ \A p \in Requests \ {q} : ~Owns(request[p])
              /\ place \in {"agent", "gate", "complete"} => InTurn(doc, request[q].todo)
           \/ request[q].kind \in Users
  PROVE  QuietInv'
  <1> DEFINE r == Saved(q, doc, place)
             failed == [To(q, place) EXCEPT !.copy = doc]
  <1>1. SaveTask(q, doc, r, failed)
    BY DEF Store
  <1>2. IsGoing(failed, q, doc, place) /\ IsGoing(r, q, doc, place)
    BY GoingOn
  <1> HIDE DEF r, failed
  <1>3. /\ Owns(r) => place \in {"agent", "gate", "complete"}
        /\ r.todo = request[q].todo
    BY <1>2 DEF IsGoing, Owns
  <1>4. \A s \in {r, failed} : s = NoRequest \/
           (s.kind = request[q].kind /\ s.todo = request[q].todo /\ s.copy = doc /\ s.at # "preflight")
    BY <1>2 DEF IsGoing
  <1> QED
    BY <1>1, <1>3, <1>4, SaveKeepsTurns

LEMMA AnswerKeepsTurns ==
  ASSUME TasksInv, QuietInv, NEW q \in Requests, NEW doc, StoreAndAnswer(q, doc),
         request[q].kind # "idle",
         ~lost /\ ~edited /\ ~request[q].behind =>
           doc = task \/ (\A p \in Requests \ {q} : ~Owns(request[p])) \/ request[q].kind \in Users
  PROVE  QuietInv'
  <1>1. NoRequest.kind = "idle" /\ ~Owns(NoRequest)
    BY DEF NoRequest, Owns
  <1> QED
    BY <1>1, SaveKeepsTurns DEF StoreAndAnswer

\* The steps that change no document.
LEMMA SilentTurns ==
  ASSUME TasksInv, QuietInv, NEW q \in Requests,
         \/ ExecuteTodo(q) \/ AgentDone(q) \/ GatePasses(q) \/ NothingToRecord(q) \/ Reread(q)
         \/ GiveUp(q) \/ DebugGate(q)
         \/ FinishCheck(q) /\ Goes(q, To(q, "final")) /\ UNCHANGED <<task, lost, edited>>
  PROVE  QuietInv'
  <1>1. NoRequest.kind = "idle" /\ ~Owns(NoRequest) /\ ~Knows(NoRequest) /\ MayStart(NoRequest)
    BY DEF NoRequest, Owns, Knows, MayStart
  <1>2. request[q] \in RequestRecords
    BY DEF TasksInv
  <1>3. \A place : /\ To(q, place).at = place /\ To(q, place).copy = request[q].copy
                   /\ To(q, place).kind = request[q].kind /\ To(q, place).todo = request[q].todo
                   /\ To(q, place).behind = request[q].behind
    BY <1>2 DEF To, RequestRecords
  <1>4. CASE Goes(q, NoRequest) /\ UNCHANGED <<task, lost, edited>>
    BY <1>1, <1>4, GoesKeepsTurns
  <1>5. CASE ExecuteTodo(q)
    <2>1. CASE Goes(q, To(q, "preflight")) /\ CanExecute(request[q].copy, request[q].todo)
      <3>1. /\ MayStart(To(q, "preflight")) /\ ~Owns(To(q, "preflight"))
            /\ Knows(To(q, "preflight")) => Knows(request[q])
        BY <1>3, <1>5, <2>1 DEF MayStart, Owns, Knows, ExecuteTodo, Is
      <3> QED
        BY <1>3, <1>5, <2>1, <3>1, GoesKeepsTurns DEF ExecuteTodo
    <2> QED
      BY <1>4, <1>5, <2>1 DEF ExecuteTodo
  <1>6. CASE AgentDone(q) \/ GatePasses(q)
    <2>1. Owns(request[q]) /\ UNCHANGED <<task, lost, edited>>
      BY <1>6 DEF AgentDone, GatePasses, Owns, Is
    <2>2. CASE Goes(q, To(q, "complete"))
      <3>1. MayStart(To(q, "complete")) /\ ~Knows(To(q, "complete"))
        BY <1>3, <2>1 DEF MayStart, Knows, Owns
      <3> QED
        BY <1>3, <2>1, <2>2, <3>1, GoesKeepsTurns
    <2>3. CASE Goes(q, [To(q, "gate") EXCEPT !.copy = Marked(q, "verifying")])
      <3> DEFINE r == [To(q, "gate") EXCEPT !.copy = Marked(q, "verifying")]
      <3>1. r.at = "gate" /\ r.todo = request[q].todo /\ r.kind = request[q].kind
        BY <1>2 DEF To, RequestRecords
      <3> HIDE DEF r
      <3>2. MayStart(r) /\ ~Knows(r)
        BY <2>1, <3>1 DEF MayStart, Knows, Owns
      <3> QED
        BY <2>1, <2>3, <3>1, <3>2, GoesKeepsTurns DEF r
    <2> QED
      BY <1>6, <2>2, <2>3 DEF AgentDone, GatePasses
  <1>7. ASSUME NEW place \in {"final", "verdict"}, Goes(q, To(q, place)),
               request[q].at \in Rereads \cup {"finish"}, UNCHANGED <<task, lost, edited>>
        PROVE  QuietInv'
    <2>1. /\ MayStart(To(q, place)) /\ ~Owns(To(q, place))
          /\ Knows(To(q, place)) => Knows(request[q])
      BY <1>3, <1>7 DEF QuietInv, MayStart, Owns, Knows, Rereads
    <2> QED
      BY <1>3, <1>7, <2>1, GoesKeepsTurns
  <1>8. CASE NothingToRecord(q)
    <2>1. request[q].at \in {"summary", "memory", "files", "verdict"}
          /\ UNCHANGED <<task, lost, edited>>
      BY <1>8 DEF NothingToRecord, Rereads
    <2>2. CASE request[q].at \in {"summary", "memory"}
      BY <1>7, <1>8, <2>1, <2>2 DEF NothingToRecord
    <2>3. CASE request[q].at = "files"
      BY <1>7, <1>8, <2>1, <2>3 DEF NothingToRecord
    <2>4. CASE request[q].at = "verdict"
      BY <1>4, <1>8, <2>1, <2>4 DEF NothingToRecord
    <2> QED
      BY <2>1, <2>2, <2>3, <2>4
  <1>9. CASE Reread(q)
    <2> DEFINE r == [request[q] EXCEPT !.copy = task, !.behind = FALSE, !.reread = TRUE]
    <2>1. r.at = request[q].at /\ r.kind = request[q].kind /\ r.copy = task
      BY <1>2 DEF RequestRecords
    <2>2. r.at \in Rereads /\ Goes(q, r) /\ UNCHANGED <<task, lost, edited>>
      BY <1>9, <2>1 DEF Reread
    <2> HIDE DEF r
    <2>3. MayStart(r) /\ ~Owns(r)
      BY <2>1, <2>2 DEF QuietInv, MayStart, Owns, Rereads
    <2> QED
      BY <2>1, <2>2, <2>3, GoesKeepsTurns
  <1>10. CASE DebugGate(q)
    <2>1. PICK doc : /\ Goes(q, [To(q, "debugFiles") EXCEPT !.copy = doc])
                     /\ UNCHANGED <<task, lost, edited>>
      BY <1>10 DEF DebugGate
    <2> DEFINE r == [To(q, "debugFiles") EXCEPT !.copy = doc]
    <2>2. r.kind = "debug"
      BY <1>2, <1>10 DEF To, RequestRecords, DebugGate, Is
    <2> HIDE DEF r
    <2>3. MayStart(r) /\ ~Owns(r) /\ ~Knows(r)
      BY <2>2 DEF MayStart, Owns, Knows
    <2> QED
      BY <2>1, <2>3, GoesKeepsTurns DEF r
  <1>11. CASE FinishCheck(q) /\ Goes(q, To(q, "final")) /\ UNCHANGED <<task, lost, edited>>
    BY <1>7, <1>11 DEF FinishCheck, Is
  <1>12. CASE GiveUp(q)
    BY <1>4, <1>12 DEF GiveUp
  <1> QED
    BY <1>5, <1>6, <1>8, <1>9, <1>10, <1>11, <1>12

LEMMA ArriveTurns ==
  ASSUME TasksInv, QuietInv, NEW q \in Requests, NEW kind, NEW i, Arrive(q, kind, i)
  PROVE  QuietInv'
  <1> DEFINE r == [NoRequest EXCEPT !.kind = kind, !.copy = task, !.todo = i]
  <1>1. r.at = "start" /\ r.copy = task
    BY DEF NoRequest
  <1>2. Goes(q, r) /\ UNCHANGED <<task, lost, edited>>
    BY DEF Arrive
  <1> HIDE DEF r
  <1>3. MayStart(r) /\ ~Owns(r)
    BY <1>1 DEF MayStart, Owns
  <1> QED
    BY <1>1, <1>2, <1>3, GoesKeepsTurns

\* A request that may start and knows the document finds no owner.
LEMMA StartFindsNone ==
  ASSUME TasksInv, QuietInv, NEW q \in Requests, Is(q, "execute", "preflight"),
         ~lost, ~edited, ~request[q].behind
  PROVE  /\ CanExecute(task, request[q].todo) /\ request[q].copy = task
         /\ \A p \in Requests : ~Owns(request[p])
  <1>1. Knows(request[q]) /\ CanExecute(request[q].copy, request[q].todo)
    BY DEF Knows, Is, QuietInv, MayStart
  <1>2. request[q].copy = task
    BY <1>1 DEF QuietInv
  <1>3. \A p \in Requests : request[p].todo \in Todos
    BY DEF TasksInv, RequestRecords
  <1> QED
    BY <1>1, <1>2, <1>3, OneTurn DEF QuietInv

\* The steps of ExecuteTodo that save another status.
LEMMA StatusTurns ==
  ASSUME TasksInv, QuietInv, NEW q \in Requests,
         \/ PreflightBlocked(q) \/ StartTodo(q) \/ TodoFails(q)
         \/ GateReportsErrors(q) \/ CompleteTodo(q)
  PROVE  QuietInv'
  <1>1. \A status \in Status : Marked(q, status) \in Documents
    BY CopyIsOK DEF Marked, Documents
  <1>2. ASSUME Is(q, "execute", "agent") \/ Is(q, "execute", "gate") \/ Is(q, "execute", "complete"),
               ~lost, ~edited, ~request[q].behind
        PROVE  \A p \in Requests \ {q} : ~Owns(request[p])
    BY <1>2 DEF Is, Owns, QuietInv
  <1>3. CASE PreflightBlocked(q)
    BY <1>3, StartFindsNone, AnswerKeepsTurns DEF PreflightBlocked, Is
  <1>4. CASE StartTodo(q)
    <2>1. Marked(q, "in_progress") \in Documents /\ "agent" \in Places \ {"preflight"}
      BY <1>1 DEF Status, Places
    <2>2. Is(q, "execute", "preflight") /\ Store(q, Marked(q, "in_progress"), "agent")
      BY <1>4 DEF StartTodo
    <2>3. ASSUME ~lost, ~edited, ~request[q].behind
          PROVE  InTurn(Marked(q, "in_progress"), request[q].todo)
      <3> PICK i \in Todos : i = request[q].todo
        BY CopyIsOK
      <3>1. CanExecute(task, i) /\ request[q].copy = task /\ task \in Documents
        BY <2>2, <2>3, StartFindsNone DEF TasksInv, DocOK
      <3>2. Marked(q, "in_progress") = [task EXCEPT !.todo = [task.todo EXCEPT ![i] = "in_progress"]]
        BY <3>1 DEF Marked, Documents
      <3>3. /\ Marked(q, "in_progress").todo[i] = "in_progress"
            /\ \A j \in Todos \ {i} : Marked(q, "in_progress").todo[j] = task.todo[j]
        BY <3>1, <3>2 DEF Documents
      <3>4. \A j \in 1..(i - 1) : j \in Todos \ {i}
        BY TasksAssumption DEF Todos
      <3> QED
        BY <3>1, <3>3, <3>4 DEF InTurn, PriorTodosDone, CanExecute, Terminal
    <2> QED
      BY <2>1, <2>2, <2>3, StartFindsNone, StoreKeepsTurns DEF Is
  <1>5. CASE TodoFails(q)
    BY <1>2, <1>5, AnswerKeepsTurns DEF TodoFails, Is
  <1>6. CASE GateReportsErrors(q)
    <2>1. Marked(q, "debugging") \in Documents /\ "unfixed" \in Places \ {"preflight"}
      BY <1>1 DEF Status, Places
    <2> QED
      BY <1>2, <1>6, <2>1, StoreKeepsTurns DEF GateReportsErrors, Is
  <1>7. CASE CompleteTodo(q)
    <2>1. Marked(q, "complete") \in Documents /\ "finish" \in Places \ {"preflight"}
      BY <1>1 DEF Status, Places
    <2> QED
      BY <1>2, <1>7, <2>1, StoreKeepsTurns DEF CompleteTodo, Is
  <1> QED
    BY <1>3, <1>4, <1>5, <1>6, <1>7

\* The steps that save what they have loaded, or what the writer last saved.
LEMMA CopyTurns ==
  ASSUME TasksInv, QuietInv, NEW q \in Requests,
         \/ FinishCheck(q) /\ Store(q, request[q].copy, "summary")
         \/ SaveFinal(q) \/ SaveAndAnswer(q) \/ SaveReread(q)
  PROVE  QuietInv'
  <1>1. /\ request[q].kind # "idle"
        /\ request[q].at \in {"finish", "final", "unfixed", "debugEnd", "start"} \cup Rereads
        /\ request[q].at \in Rereads \/ request[q].kind \in {"execute", "touch", "debug"}
        /\ request[q].copy \in Documents /\ request[q].kind \in Kinds
    BY CopyIsOK DEF FinishCheck, SaveFinal, SaveAndAnswer, SaveReread, Is, QuietInv, MayStart,
                    Rereads, TasksInv, RequestRecords
  <1>2. ASSUME ~lost, ~edited, ~request[q].behind
        PROVE  request[q].copy = task \/ request[q].kind \in Users
    <2>1. CASE request[q].kind \in {"execute", "touch"}
      <3>1. Knows(request[q])
        BY <1>1, <1>2, <2>1 DEF Knows, Rereads
      <3> QED
        BY <1>2, <3>1 DEF QuietInv
    <2> QED
      BY <1>1, <2>1 DEF Kinds, Users
  <1>3. CASE SaveAndAnswer(q)
    BY <1>1, <1>2, <1>3, AnswerKeepsTurns DEF SaveAndAnswer
  <1>4. ASSUME NEW place \in Rereads \cup {"final", "debugEnd"}, Store(q, request[q].copy, place)
        PROVE  QuietInv'
    <2>1. place \in Places \ {"preflight"} /\ place \notin {"agent", "gate", "complete"}
      BY DEF Places, Rereads
    <2> QED
      BY <1>1, <1>2, <1>4, <2>1, StoreKeepsTurns
  <1>5. CASE FinishCheck(q) /\ Store(q, request[q].copy, "summary")
    BY <1>4, <1>5 DEF Rereads
  <1>6. CASE SaveReread(q)
    <2>1. CASE StoreAndAnswer(q, request[q].copy)
      BY <1>1, <1>2, <2>1, AnswerKeepsTurns
    <2>2. CASE /\ Store(q, request[q].copy, AfterReread[request[q].at])
               /\ request[q].at # "verdict"
      <3>1. AfterReread[request[q].at] \in {"memory", "final", "verdict", "debugEnd"}
        BY <1>6, <2>2 DEF AfterReread, Rereads, SaveReread
      <3> QED
        BY <1>4, <2>2, <3>1 DEF Rereads
    <2> QED
      BY <1>6, <2>1, <2>2 DEF SaveReread
  <1>7. CASE SaveFinal(q)
    <2> DEFINE r == Saved(q, request[q].copy, "files")
    <2>1. SaveTask(q, request[q].copy, r, NoRequest)
      BY <1>7 DEF SaveFinal
    <2>2. IsGoing(r, q, request[q].copy, "files")
      BY <1>1, GoingOn DEF Places, Rereads
    <2> HIDE DEF r
    <2>3. ~Owns(r) /\ r.at # "preflight"
      BY <2>2 DEF IsGoing, Owns
    <2> QED
      BY <1>1, <1>2, <2>1, <2>2, <2>3, SaveKeepsTurns DEF IsGoing
  <1> QED
    BY <1>3, <1>5, <1>6, <1>7

\* The saves of users.
LEMMA UserTurns ==
  ASSUME TasksInv, QuietInv, TasksInv', NEW q \in Requests,
         \/ DebugTodo(q) \/ DebugRan(q) \/ ApproveAllPlanned(q) \/ ReplacePlan(q)
         \/ \E status \in UserStatus : PatchTodo(q, status)
  PROVE  QuietInv'
  <1>1. request[q].kind \in Users /\ request[q].kind # "idle"
    BY DEF DebugTodo, DebugRan, ApproveAllPlanned, ReplacePlan, PatchTodo, Is, Users
  <1>2. ASSUME NEW doc, StoreAndAnswer(q, doc)
        PROVE  QuietInv'
    BY <1>1, <1>2, AnswerKeepsTurns
  <1>3. ASSUME NEW doc, NEW place \in {"gate", "debugEnd"}, Store(q, doc, place)
        PROVE  QuietInv'
    <2> DEFINE r == Saved(q, doc, place)
               failed == [To(q, place) EXCEPT !.copy = doc]
    <2>1. SaveTask(q, doc, r, failed)
      BY <1>3 DEF Store
    <2>2. \A s \in {r, failed} : /\ s.kind = request[q].kind /\ s.todo = request[q].todo
                                 /\ s.copy = doc /\ s.at = place
      BY DEF Saved, To, TasksInv, RequestRecords
    <2> HIDE DEF r, failed
    <2> QED
      BY <1>1, <2>1, <2>2, SaveKeepsTurns
  <1>4. ASSUME NEW limit, Goes(q, Attempt(q, limit)), UNCHANGED <<task, lost, edited>>
        PROVE  QuietInv'
    <2> DEFINE r == Attempt(q, limit)
    <2>1. r.kind = request[q].kind
      BY DEF Attempt, To, TasksInv, RequestRecords
    <2> HIDE DEF r
    <2>2. MayStart(r) /\ ~Owns(r) /\ ~Knows(r)
      BY <1>1, <2>1 DEF MayStart, Owns, Knows, Users
    <2> QED
      BY <1>4, <2>2, GoesKeepsTurns DEF r
  <1>5. CASE DebugTodo(q)
    BY <1>3, <1>4, <1>5 DEF DebugTodo
  <1>6. CASE DebugRan(q)
    BY <1>3, <1>6 DEF DebugRan
  <1>7. CASE ApproveAllPlanned(q) \/ ReplacePlan(q) \/ \E status \in UserStatus : PatchTodo(q, status)
    BY <1>2, <1>7 DEF ApproveAllPlanned, ReplacePlan, PatchTodo
  <1> QED
    BY <1>5, <1>6, <1>7

LEMMA TurnsInitially == TasksInit => QuietInv
  BY DEF TasksInit, QuietInv, MayStart, Owns, Knows, NoRequest

LEMMA TurnsStep == TasksInv /\ QuietInv /\ [TasksNext]_taskVars => QuietInv'
  <1> SUFFICES ASSUME TasksInv, QuietInv, [TasksNext]_taskVars PROVE QuietInv'
    OBVIOUS
  <1>1. ASSUME NEW q \in Requests, NEW kind, NEW i, Arrive(q, kind, i)
        PROVE  QuietInv'
    BY <1>1, ArriveTurns
  <1>2. ASSUME NEW q \in Requests,
               \/ ExecuteTodo(q) \/ AgentDone(q) \/ GatePasses(q) \/ NothingToRecord(q) \/ Reread(q)
               \/ GiveUp(q) \/ DebugGate(q)
        PROVE  QuietInv'
    BY <1>2, SilentTurns
  <1>3. ASSUME NEW q \in Requests,
               \/ PreflightBlocked(q) \/ StartTodo(q) \/ TodoFails(q)
               \/ GateReportsErrors(q) \/ CompleteTodo(q)
        PROVE  QuietInv'
    BY <1>3, StatusTurns
  <1>4. ASSUME NEW q \in Requests,
               FinishCheck(q) \/ SaveFinal(q) \/ SaveAndAnswer(q) \/ SaveReread(q)
        PROVE  QuietInv'
    BY <1>4, CopyTurns, SilentTurns DEF FinishCheck
  <1>5. ASSUME NEW q \in Requests,
               \/ DebugTodo(q) \/ DebugRan(q) \/ ApproveAllPlanned(q) \/ ReplacePlan(q)
               \/ \E status \in UserStatus : PatchTodo(q, status)
        PROVE  QuietInv'
    BY <1>5, UserTurns, TasksStep
  <1>6. CASE KillAgentServer
    <2>1. \A q \in Requests : request'[q] = NoRequest
      BY <1>6 DEF KillAgentServer
    <2> QED
      BY <2>1 DEF QuietInv, MayStart, Owns, Knows, NoRequest
  <1>7. CASE UNCHANGED taskVars
    BY <1>7 DEF taskVars, QuietInv, Owns, Knows, MayStart, InTurn, PriorTodosDone, Terminal, CanExecute
  <1> QED
    BY <1>1, <1>2, <1>3, <1>4, <1>5, <1>6, <1>7 DEF TasksNext

\* However many requests arrive, in whatever order they load and save: as long as
\* every save replaces what its writer had read and nobody edits, approves or
\* debugs while a todo is executed, at most one todo is.
THEOREM OneTodoAtATime == TasksSpec => []OneAtATimeIfQuiet
  <1>1. QuietInv => OneAtATimeIfQuiet
    <2> SUFFICES ASSUME QuietInv, ~lost, ~edited PROVE Cardinality(Executing) <= 1
      BY DEF OneAtATimeIfQuiet
    <2>1. \A p, q \in Executing : p = q
      BY DEF QuietInv, Executing, Owns
    <2>2. CASE Executing = {}
      BY <2>2, FS_EmptySet
    <2>3. CASE \E q \in Requests : Executing = {q}
      BY <2>3, FS_Singleton
    <2> QED
      BY <2>1, <2>2, <2>3 DEF Executing
  <1> QED
    BY <1>1, TasksInitially, TasksStep, TurnsInitially, TurnsStep, PTL DEF TasksSpec

------------------------------------------------------------------------------
(* Debug attempts.  The document counts what debug runs came to an end, as  *)
(* long as no save is lost.                                                 *)

\* No copy is of a plan to come, and no agent is at work on an attempt above the
\* limit of its request.  A copy that is not behind counts at least the attempts the document
\* counts, and one more if its agent is at work.
TriesOK(r) ==
  /\ r.copy.plan <= plans
  /\ r.kind = "debug" /\ r.at = "agent" => r.copy.tries[r.todo] <= r.limit
  /\ ~lost /\ r.kind # "idle" /\ ~r.behind =>
       /\ r.copy.plan = task.plan
       /\ \A i \in Todos : task.tries[i] <= r.copy.tries[i]
       /\ r.kind = "debug" /\ r.at = "agent" => task.tries[r.todo] < r.copy.tries[r.todo]

\* The document counts the runs of its plan.
Counted(doc, d) == \A i \in Todos : d[<<doc.plan, i>>] <= doc.tries[i]

TriesInv ==
  /\ task.plan <= plans
  /\ \A x \in Plans \X Todos : x[1] > plans => debugs[x] = 0
  /\ ~lost => Counted(task, debugs)
  /\ \A q \in Requests : TriesOK(request[q])

\* The numbers compared above are numbers.
LEMMA TriesAreNumbers ==
  /\ \A doc \in Documents : doc.plan \in Nat /\ \A i \in Todos : doc.tries[i] \in Nat
  /\ \A p \in Plans : p \in Nat
  /\ MaxTries \in Nat
  BY TasksAssumption DEF Documents, Plans

\* A save keeps the count when the document it leaves counts the runs.
LEMMA SaveKeepsTries ==
  ASSUME TasksInv, TasksInv', TriesInv, NEW q \in Requests, NEW doc \in Documents,
         NEW r, NEW failed, SaveTask(q, doc, r, failed), request[q].kind # "idle",
         \A s \in {r, failed} : s = NoRequest \/
           (s.copy = doc /\ ~(s.kind = "debug" /\ s.at = "agent")),
         plans <= plans', doc.plan <= plans',
         \A x \in Plans \X Todos : x[1] > plans' => debugs'[x] = 0,
         ~lost /\ ~request[q].behind => Counted(doc, debugs')
  PROVE  TriesInv'
  <1>1. plans \in Nat /\ plans' \in Nat /\ 1 <= plans'
    BY TriesAreNumbers DEF TasksInv, Plans
  <1>2. NoRequest.kind = "idle" /\ NoRequest.copy.plan = 1
    BY DEF NoRequest, Planned
  <1>3. ASSUME NEW p \in Requests
        PROVE  TriesOK(request[p])'
    <2>1. CASE p = q
      <3>1. /\ request'[q] = r \/ request'[q] = failed
            /\ ~lost' => task' = doc /\ request'[q] = r
        BY SaveShape
      <3>2. \A i \in Todos : doc.tries[i] <= doc.tries[i]
        BY TriesAreNumbers
      <3>3. request'[q] = NoRequest \/
              (request'[q].copy = doc /\ ~(request'[q].kind = "debug" /\ request'[q].at = "agent"))
        BY <3>1
      <3> QED
        BY <1>1, <1>2, <2>1, <3>1, <3>2, <3>3 DEF TriesOK
    <2>2. CASE p # q
      <3>1. /\ request'[p].kind = request[p].kind /\ request'[p].at = request[p].at
            /\ request'[p].copy = request[p].copy /\ request'[p].todo = request[p].todo
            /\ request'[p].limit = request[p].limit
            /\ ~lost' => request'[p].kind = "idle" \/ request'[p].behind
        BY <2>2, SaveShape
      <3>2. request[p].copy.plan \in Nat /\ TriesOK(request[p])
        BY TriesAreNumbers DEF TriesInv, TasksInv, RequestRecords
      <3> QED
        BY <1>1, <3>1, <3>2 DEF TriesOK
    <2> QED
      BY <2>1, <2>2
  <1>4. task'.plan <= plans' /\ (~lost' => Counted(task', debugs'))
    <2>1. CASE task' = doc
      BY <2>1, SaveShape
    <2>2. CASE task' = task /\ lost'
      <3>1. task.plan \in Nat /\ task.plan <= plans
        BY TriesAreNumbers DEF TasksInv, DocOK, TriesInv
      <3> QED
        BY <1>1, <2>2, <3>1
    <2> QED
      BY <2>1, <2>2 DEF SaveTask
  <1> QED
    BY <1>3, <1>4 DEF TriesInv, Counted

\* A save that keeps the plan and forgets no attempt.
LEMMA SaveForgetsNone ==
  ASSUME TasksInv, TasksInv', TriesInv, NEW q \in Requests, NEW doc \in Documents,
         NEW r, NEW failed, SaveTask(q, doc, r, failed), request[q].kind # "idle",
         \A s \in {r, failed} : s = NoRequest \/
           (s.copy = doc /\ ~(s.kind = "debug" /\ s.at = "agent")),
         UNCHANGED <<plans, debugs>>,
         doc.plan = request[q].copy.plan,
         \A i \in Todos : request[q].copy.tries[i] <= doc.tries[i]
  PROVE  TriesInv'
  <1>1. TriesOK(request[q]) /\ request[q].copy \in Documents /\ task \in Documents
    BY DEF TriesInv, TasksInv, RequestRecords, DocOK
  <1>2. plans \in Nat /\ plans <= plans' /\ doc.plan <= plans'
    BY <1>1, TriesAreNumbers DEF TriesOK, TasksInv
  <1>3. ASSUME ~lost, ~request[q].behind
        PROVE  Counted(doc, debugs')
    <2>1. Counted(task, debugs) /\ doc.plan = task.plan
      BY <1>1, <1>3 DEF TriesOK, TriesInv
    <2>2. ASSUME NEW i \in Todos
          PROVE  debugs[<<doc.plan, i>>] <= doc.tries[i]
      <3>1. /\ debugs[<<doc.plan, i>>] <= task.tries[i]
            /\ task.tries[i] <= request[q].copy.tries[i]
            /\ request[q].copy.tries[i] <= doc.tries[i]
        BY <1>1, <1>3, <2>1 DEF TriesOK, Counted
      <3>2. <<doc.plan, i>> \in Plans \X Todos
        BY DEF Documents
      <3>3. debugs[<<doc.plan, i>>] \in Nat
        BY <3>2 DEF TasksInv
      <3> QED
        BY <1>1, <3>1, <3>3, TriesAreNumbers
    <2> QED
      BY <2>1, <2>2 DEF Counted
  <1> QED
    BY <1>2, <1>3, SaveKeepsTries DEF TriesInv

\* A step without a save.
LEMMA GoesKeepsTries ==
  ASSUME TasksInv, TriesInv, NEW q \in Requests, NEW r, Goes(q, r),
         UNCHANGED <<task, lost, plans, debugs>>, TriesOK(r)
  PROVE  TriesInv'
  <1>1. request'[q] = r /\ \A p \in Requests \ {q} : request'[p] = request[p]
    BY DEF Goes, TasksInv
  <1>2. \A p \in Requests : TriesOK(request'[p])
    BY <1>1 DEF TriesInv
  <1> QED
    BY <1>2 DEF TriesInv, TriesOK, Counted

LEMMA MarkedCounts ==
  ASSUME TasksInv, NEW q \in Requests, NEW status \in Status
  PROVE  /\ Marked(q, status) \in Documents /\ Marked(q, status).plan = request[q].copy.plan
         /\ Marked(q, status).tries = request[q].copy.tries
  BY CopyIsOK DEF Marked, Documents

\* A save of a document that counts as the copy did.
LEMMA StoreKeepsTries ==
  ASSUME TasksInv, TasksInv', TriesInv, NEW q \in Requests, NEW doc \in Documents,
         request[q].kind # "idle", UNCHANGED <<plans, debugs>>,
         doc.plan = request[q].copy.plan,
         \A i \in Todos : request[q].copy.tries[i] <= doc.tries[i],
         \/ StoreAndAnswer(q, doc)
         \/ \E place \in Places : Store(q, doc, place) /\ (request[q].kind = "debug" => place # "agent")
         \/ SaveTask(q, doc, Saved(q, doc, "files"), NoRequest)
  PROVE  TriesInv'
  <1>1. CASE StoreAndAnswer(q, doc)
    BY <1>1, SaveForgetsNone DEF StoreAndAnswer
  <1>2. ASSUME NEW place \in Places, Store(q, doc, place), request[q].kind = "debug" => place # "agent"
        PROVE  TriesInv'
    <2> DEFINE r == Saved(q, doc, place)
               failed == [To(q, place) EXCEPT !.copy = doc]
    <2>1. SaveTask(q, doc, r, failed)
      BY <1>2 DEF Store
    <2>2. IsGoing(failed, q, doc, place) /\ IsGoing(r, q, doc, place)
      BY GoingOn
    <2> HIDE DEF r, failed
    <2>3. \A s \in {r, failed} : s.copy = doc /\ ~(s.kind = "debug" /\ s.at = "agent")
      BY <1>2, <2>2 DEF IsGoing
    <2> QED
      BY <2>1, <2>3, SaveForgetsNone
  <1>3. CASE SaveTask(q, doc, Saved(q, doc, "files"), NoRequest)
    <2> DEFINE r == Saved(q, doc, "files")
    <2>1. IsGoing(r, q, doc, "files")
      BY GoingOn DEF Places, Rereads
    <2> HIDE DEF r
    <2>2. r.copy = doc /\ r.at # "agent"
      BY <2>1 DEF IsGoing
    <2> QED
      BY <1>3, <2>2, SaveForgetsNone DEF r
  <1> QED
    BY <1>1, <1>2, <1>3

\* The steps that change no document, and start no debug agent.
LEMMA SilentTries ==
  ASSUME TasksInv, TriesInv, NEW q \in Requests,
         \/ ExecuteTodo(q) \/ AgentDone(q) \/ GatePasses(q) \/ NothingToRecord(q) \/ Reread(q)
         \/ GiveUp(q) \/ DebugGate(q)
         \/ FinishCheck(q) /\ Goes(q, To(q, "final")) /\ UNCHANGED <<task, lost, edited>>
  PROVE  TriesInv'
  <1>1. UNCHANGED <<task, lost, plans, debugs>>
    BY DEF ExecuteTodo, AgentDone, GatePasses, NothingToRecord, Reread, GiveUp, DebugGate, FinishCheck
  <1>2. request[q] \in RequestRecords /\ TriesOK(request[q])
    BY DEF TasksInv, TriesInv
  <1>3. CASE Goes(q, NoRequest)
    <2>1. NoRequest.kind = "idle" /\ NoRequest.copy.plan <= plans
      BY TriesAreNumbers DEF NoRequest, Planned, TasksInv, Plans
    <2>2. TriesOK(NoRequest)
      BY <2>1 DEF TriesOK
    <2> QED
      BY <1>1, <1>3, <2>2, GoesKeepsTries
  <1>4. ASSUME NEW place, Goes(q, To(q, place)), request[q].kind = "debug" => place # "agent"
        PROVE  TriesInv'
    <2>1. /\ To(q, place).at = place /\ To(q, place).copy = request[q].copy
          /\ To(q, place).kind = request[q].kind /\ To(q, place).todo = request[q].todo
          /\ To(q, place).behind = request[q].behind
      BY <1>2 DEF To, RequestRecords
    <2>2. TriesOK(To(q, place))
      BY <1>2, <1>4, <2>1 DEF TriesOK
    <2> QED
      BY <1>1, <1>4, <2>2, GoesKeepsTries
  <1>5. ASSUME NEW place \in {"gate", "debugFiles"}, NEW status \in Status,
               Goes(q, [To(q, place) EXCEPT !.copy = Marked(q, status)])
        PROVE  TriesInv'
    <2> DEFINE r == [To(q, place) EXCEPT !.copy = Marked(q, status)]
    <2>1. /\ r.at = place /\ r.kind = request[q].kind /\ r.behind = request[q].behind
          /\ r.copy.plan = request[q].copy.plan /\ r.copy.tries = request[q].copy.tries
      BY <1>2, MarkedCounts DEF To, RequestRecords
    <2> HIDE DEF r
    <2>2. TriesOK(r)
      BY <1>2, <2>1 DEF TriesOK
    <2> QED
      BY <1>1, <1>5, <2>2, GoesKeepsTries DEF r
  <1>6. CASE Reread(q)
    <2> DEFINE r == [request[q] EXCEPT !.copy = task, !.behind = FALSE, !.reread = TRUE]
    <2>1. r.at = request[q].at /\ r.copy = task /\ r.at \in Rereads /\ Goes(q, r)
      BY <1>2, <1>6 DEF Reread, RequestRecords
    <2> HIDE DEF r
    <2>2. task.plan <= plans /\ \A i \in Todos : task.tries[i] <= task.tries[i]
      BY TriesAreNumbers DEF TriesInv, TasksInv, DocOK
    <2>3. TriesOK(r)
      BY <2>1, <2>2 DEF TriesOK, Rereads
    <2> QED
      BY <1>1, <2>1, <2>3, GoesKeepsTries
  <1>7. CASE ExecuteTodo(q)
    BY <1>3, <1>4, <1>7 DEF ExecuteTodo
  <1>8. CASE AgentDone(q) \/ GatePasses(q)
    BY <1>4, <1>5, <1>8 DEF AgentDone, GatePasses, Status
  <1>9. CASE NothingToRecord(q)
    <2>1. request[q].at \in {"summary", "memory", "files", "verdict"}
      BY <1>9 DEF NothingToRecord, Rereads
    <2>2. CASE request[q].at \in {"summary", "memory"}
      BY <1>4, <1>9, <2>2 DEF NothingToRecord
    <2>3. CASE request[q].at = "files"
      BY <1>4, <1>9, <2>3 DEF NothingToRecord
    <2>4. CASE request[q].at = "verdict"
      BY <1>3, <1>9, <2>4 DEF NothingToRecord
    <2> QED
      BY <2>1, <2>2, <2>3, <2>4
  <1>10. CASE GiveUp(q)
    BY <1>3, <1>10 DEF GiveUp
  <1>11. CASE DebugGate(q)
    BY <1>5, <1>11 DEF DebugGate, Status
  <1>12. CASE FinishCheck(q) /\ Goes(q, To(q, "final"))
    BY <1>4, <1>12
  <1> QED
    BY <1>6, <1>7, <1>8, <1>9, <1>10, <1>11, <1>12

LEMMA ArriveTries ==
  ASSUME TasksInv, TriesInv, NEW q \in Requests, NEW kind, NEW i, Arrive(q, kind, i)
  PROVE  TriesInv'
  <1> DEFINE r == [NoRequest EXCEPT !.kind = kind, !.copy = task, !.todo = i]
  <1>1. r.at = "start" /\ r.copy = task
    BY DEF NoRequest
  <1>2. Goes(q, r) /\ UNCHANGED <<task, lost, plans, debugs>>
    BY DEF Arrive
  <1> HIDE DEF r
  <1>3. task.plan <= plans /\ \A j \in Todos : task.tries[j] <= task.tries[j]
    BY TriesAreNumbers DEF TriesInv, TasksInv, DocOK
  <1>4. TriesOK(r)
    BY <1>1, <1>3 DEF TriesOK
  <1> QED
    BY <1>2, <1>4, GoesKeepsTries

\* The steps that save the copy, with another status or none.
LEMMA CopyTries ==
  ASSUME TasksInv, TasksInv', TriesInv, QuietInv, NEW q \in Requests,
         \/ PreflightBlocked(q) \/ StartTodo(q) \/ TodoFails(q)
         \/ GateReportsErrors(q) \/ CompleteTodo(q)
         \/ FinishCheck(q) /\ Store(q, request[q].copy, "summary")
         \/ SaveFinal(q) \/ SaveAndAnswer(q) \/ SaveReread(q)
         \/ ApproveAllPlanned(q) \/ \E status \in UserStatus : PatchTodo(q, status)
  PROVE  TriesInv'
  <1>1. request[q].kind # "idle" /\ UNCHANGED <<plans, debugs>>
    BY DEF PreflightBlocked, StartTodo, TodoFails, GateReportsErrors, CompleteTodo, FinishCheck,
           SaveFinal, SaveAndAnswer, SaveReread, ApproveAllPlanned, PatchTodo, Is,
           QuietInv, MayStart, Rereads
  <1>2. request[q].copy \in Documents
        /\ \A i \in Todos : request[q].copy.tries[i] <= request[q].copy.tries[i]
    BY CopyIsOK, TriesAreNumbers
  <1>3. CASE \/ PreflightBlocked(q) \/ StartTodo(q) \/ TodoFails(q)
             \/ GateReportsErrors(q) \/ CompleteTodo(q)
    <2>1. PICK status \in Status : StoreAndAnswer(q, Marked(q, status)) \/
            \E place \in Places : Store(q, Marked(q, status), place) /\ request[q].kind = "execute"
      BY <1>3 DEF PreflightBlocked, StartTodo, TodoFails, GateReportsErrors, CompleteTodo, Is,
                  Status, Places
    <2> QED
      BY <1>1, <1>2, <2>1, MarkedCounts, StoreKeepsTries
  <1>4. CASE FinishCheck(q) /\ Store(q, request[q].copy, "summary")
    BY <1>1, <1>2, <1>4, StoreKeepsTries DEF Places, Rereads
  <1>5. CASE SaveFinal(q) \/ SaveAndAnswer(q)
    BY <1>1, <1>2, <1>5, StoreKeepsTries DEF SaveFinal, SaveAndAnswer
  <1>6. CASE SaveReread(q)
    <2>1. CASE StoreAndAnswer(q, request[q].copy)
      BY <1>1, <1>2, <2>1, StoreKeepsTries
    <2>2. CASE /\ Store(q, request[q].copy, AfterReread[request[q].at])
               /\ request[q].at # "verdict"
      <3>1. AfterReread[request[q].at] \in {"memory", "final", "verdict", "debugEnd"}
        BY <1>6, <2>2 DEF AfterReread, Rereads, SaveReread
      <3> QED
        BY <1>1, <1>2, <2>2, <3>1, StoreKeepsTries DEF Places, Rereads
    <2> QED
      BY <1>6, <2>1, <2>2 DEF SaveReread
  <1>7. ASSUME NEW status \in UserStatus, PatchTodo(q, status)
        PROVE  TriesInv'
    <2>1. status \in Status /\ StoreAndAnswer(q, Marked(q, status))
      BY <1>7, TasksAssumption DEF PatchTodo
    <2> QED
      BY <1>1, <1>2, <2>1, MarkedCounts, StoreKeepsTries
  <1>8. CASE ApproveAllPlanned(q)
    <2> PICK doc \in Documents : doc = request[q].copy
      BY <1>2
    <2> DEFINE approved == [doc EXCEPT !.todo =
                 [j \in Todos |-> IF j \in {i \in Todos : doc.todo[i] = "planned"}
                                  THEN "approved" ELSE doc.todo[j]]]
    <2>1. StoreAndAnswer(q, approved)
      BY <1>8 DEF ApproveAllPlanned
    <2>2. approved \in Documents /\ approved.plan = doc.plan /\ approved.tries = doc.tries
      BY DEF Documents, Status
    <2> HIDE DEF approved
    <2> QED
      BY <1>1, <1>2, <2>1, <2>2, StoreKeepsTries
  <1> QED
    BY <1>3, <1>4, <1>5, <1>6, <1>7, <1>8

LEMMA DebugTodoTries ==
  ASSUME TasksInv, TasksInv', TriesInv, NEW q \in Requests, DebugTodo(q)
  PROVE  TriesInv'
  <1>1. /\ request[q].kind = "debug" /\ request[q].at = "start" /\ UNCHANGED <<plans, debugs>>
        /\ request[q] \in RequestRecords /\ TriesOK(request[q])
    BY DEF DebugTodo, Is, TasksInv, TriesInv
  <1> PICK doc \in Documents, i \in Todos : doc = request[q].copy /\ i = request[q].todo
    BY CopyIsOK
  <1> DEFINE n == IF doc.tries[i] > MaxTries THEN doc.tries[i] ELSE doc.tries[i] + 1
  <1> PICK tried : tried = Tried(q)
    OBVIOUS
  <1>2. doc.tries[i] \in 0..(MaxTries + 1) /\ n \in 0..(MaxTries + 1) /\ doc.tries[i] <= n
    <2>1. doc.tries[i] \in 0..(MaxTries + 1)
      BY DEF Documents
    <2> QED
      BY <2>1, TasksAssumption
  <1>3. /\ tried \in Documents /\ tried.plan = doc.plan
        /\ tried.tries[i] = n /\ \A j \in Todos \ {i} : tried.tries[j] = doc.tries[j]
    <2>1. tried = [doc EXCEPT !.tries = [doc.tries EXCEPT ![i] = n]]
      BY DEF Tried, Documents
    <2> HIDE DEF n
    <2>2. [doc.tries EXCEPT ![i] = n] \in [Todos -> 0..(MaxTries + 1)]
      BY <1>2 DEF Documents
    <2> QED
      BY <2>1, <2>2 DEF Documents
  <1>4. \A j \in Todos : doc.tries[j] <= tried.tries[j]
    BY <1>2, <1>3, TriesAreNumbers
  <1>5. ASSUME NEW status \in Status
        PROVE  LET d == [tried EXCEPT !.todo[i] = status]
               IN d \in Documents /\ d.plan = tried.plan /\ d.tries = tried.tries
    BY <1>3 DEF Documents
  <1>6. CASE Store(q, LimitReached(q), "debugEnd")
    <2> DEFINE d == [tried EXCEPT !.todo[i] = "needs_user_input"]
    <2>1. d \in Documents /\ d.plan = doc.plan /\ d.tries = tried.tries /\ "debugEnd" \in Places
      BY <1>3, <1>5 DEF Status, Places
    <2>2. Store(q, d, "debugEnd")
      BY <1>6 DEF LimitReached
    <2>3. \A j \in Todos : request[q].copy.tries[j] <= d.tries[j]
      BY <1>4, <2>1
    <2>4. request[q].kind # "idle" /\ d.plan = request[q].copy.plan /\ UNCHANGED <<plans, debugs>>
      BY <1>1, <2>1
    <2> HIDE DEF d
    <2>5. \E place \in Places :
            Store(q, d, place) /\ (request[q].kind = "debug" => place # "agent")
      BY <2>1, <2>2
    <2> QED
      BY <2>1, <2>3, <2>4, <2>5, StoreKeepsTries
  <1>7. ASSUME NEW limit \in 1..MaxTries, tried.tries[i] <= limit, Goes(q, Attempt(q, limit)),
               UNCHANGED <<task, lost>>
        PROVE  TriesInv'
    <2> DEFINE d == [tried EXCEPT !.todo[i] = "debugging"]
               r == [To(q, "agent") EXCEPT !.limit = limit, !.copy = d]
    <2>1. d \in Documents /\ d.plan = doc.plan /\ d.tries = tried.tries
      BY <1>3, <1>5 DEF Status
    <2> HIDE DEF d
    <2>2. r.copy = d /\ r.at = "agent" /\ r.kind = "debug" /\ r.todo = i
          /\ r.behind = request[q].behind /\ r.limit = limit
      BY <1>1 DEF To, RequestRecords
    <2> HIDE DEF r
    <2>3. doc.tries[i] < tried.tries[i]
      BY <1>2, <1>3, <1>7, TasksAssumption
    <2>4. task \in Documents
      BY DEF TasksInv, DocOK
    <2>5. ~lost /\ ~r.behind =>
            /\ doc.plan = task.plan /\ \A j \in Todos : task.tries[j] <= doc.tries[j]
      BY <1>1, <2>2 DEF TriesOK
    <2>6. ~lost /\ ~r.behind =>
            /\ \A j \in Todos : task.tries[j] <= tried.tries[j]
            /\ task.tries[i] < tried.tries[i]
      <3>1. \A j \in Todos : task.tries[j] \in Nat /\ doc.tries[j] \in Nat /\ tried.tries[j] \in Nat
        BY <1>3, <2>4, TriesAreNumbers
      <3> QED
        BY <1>4, <2>3, <2>5, <3>1
    <2>7. TriesOK(r)
      BY <1>1, <1>7, <2>1, <2>2, <2>5, <2>6 DEF TriesOK
    <2> QED
      BY <1>1, <1>7, <2>7, GoesKeepsTries DEF r, d, Attempt
  <1>8. \A limit \in 1..MaxTries : ~(tried.tries[i] > limit) => tried.tries[i] <= limit
    BY <1>3, TriesAreNumbers
  <1> QED
    BY <1>6, <1>7, <1>8 DEF DebugTodo

\* The run that came to an end is the one the copy counts and the document does
\* not yet.
LEMMA DebugRanTries ==
  ASSUME TasksInv, TasksInv', TriesInv, NEW q \in Requests, DebugRan(q)
  PROVE  TriesInv'
  <1>1. /\ request[q].kind = "debug" /\ request[q].at = "agent" /\ plans' = plans
        /\ debugs' = [debugs EXCEPT ![This(q)] = @ + 1]
        /\ request[q] \in RequestRecords /\ TriesOK(request[q])
    BY DEF DebugRan, Is, TasksInv, TriesInv
  <1> PICK doc \in Documents, i \in Todos : doc = request[q].copy /\ i = request[q].todo
    BY CopyIsOK
  <1>2. This(q) = <<doc.plan, i>> /\ This(q) \in Plans \X Todos
    BY CopyIsOK DEF This
  <1>3. /\ debugs'[<<doc.plan, i>>] = debugs[<<doc.plan, i>>] + 1
        /\ \A x \in Plans \X Todos : x # <<doc.plan, i>> => debugs'[x] = debugs[x]
        /\ \A x \in Plans \X Todos : debugs[x] \in Nat
    BY <1>1, <1>2 DEF TasksInv
  <1>4. doc.plan <= plans /\ doc.plan \in Nat /\ plans \in Nat
    BY <1>1, TriesAreNumbers DEF TriesOK, TasksInv
  <1>5. \A x \in Plans \X Todos : x[1] > plans => debugs'[x] = 0
    BY <1>3, <1>4 DEF TriesInv
  <1>6. ASSUME ~lost, ~request[q].behind
        PROVE  Counted(doc, debugs')
    <2>1. /\ doc.plan = task.plan /\ \A j \in Todos : task.tries[j] <= doc.tries[j]
          /\ task.tries[i] < doc.tries[i]
          /\ Counted(task, debugs) /\ task \in Documents
      BY <1>1, <1>6 DEF TriesOK, TriesInv, TasksInv, DocOK
    <2>2. \A j \in Todos : /\ <<doc.plan, j>> \in Plans \X Todos
                           /\ debugs[<<doc.plan, j>>] <= task.tries[j]
      BY <2>1 DEF Counted, Documents
    <2>3. debugs'[<<doc.plan, i>>] <= doc.tries[i]
      BY <1>3, <2>1, <2>2, TriesAreNumbers
    <2>4. ASSUME NEW j \in Todos \ {i}
          PROVE  debugs'[<<doc.plan, j>>] <= doc.tries[j]
      <3>1. <<doc.plan, j>> # <<doc.plan, i>>
        OBVIOUS
      <3>2. debugs'[<<doc.plan, j>>] = debugs[<<doc.plan, j>>] /\ debugs[<<doc.plan, j>>] \in Nat
        BY <1>3, <2>2, <3>1
      <3> QED
        BY <2>1, <2>2, <3>2, TriesAreNumbers
    <2> QED
      BY <2>3, <2>4 DEF Counted
  <1>7. ASSUME NEW place \in {"gate", "debugEnd"}, Store(q, doc, place)
        PROVE  TriesInv'
    <2> DEFINE r == Saved(q, doc, place)
               failed == [To(q, place) EXCEPT !.copy = doc]
    <2>1. SaveTask(q, doc, r, failed)
      BY <1>7 DEF Store
    <2>2. IsGoing(failed, q, doc, place) /\ IsGoing(r, q, doc, place)
      BY GoingOn DEF Places
    <2> HIDE DEF r, failed
    <2>3. \A s \in {r, failed} : s.copy = doc /\ ~(s.kind = "debug" /\ s.at = "agent")
      BY <2>2 DEF IsGoing
    <2>4. request[q].kind # "idle" /\ plans <= plans' /\ doc.plan <= plans'
      BY <1>1, <1>4
    <2>5. \A x \in Plans \X Todos : x[1] > plans' => debugs'[x] = 0
      BY <1>1, <1>5
    <2>6. ~lost /\ ~request[q].behind => Counted(doc, debugs')
      BY <1>6
    <2>7. \A s \in {r, failed} : s = NoRequest \/
            (s.copy = doc /\ ~(s.kind = "debug" /\ s.at = "agent"))
      BY <2>3
    <2> QED
      BY <2>1, <2>4, <2>5, <2>6, <2>7, SaveKeepsTries
  <1> QED
    BY <1>7 DEF DebugRan

LEMMA PlansCount ==
  ASSUME NEW p \in Plans, NEW doc \in {Planned(p)} \cup UserPlans(p)
  PROVE  doc \in Documents /\ doc.plan = p
  <1>1. CASE doc = Planned(p)
    BY <1>1, PlannedIsOK DEF DocOK, Planned
  <1>2. CASE doc \in UserPlans(p)
    <2>1. doc \in Documents
      BY <1>2, UserPlanIsOK DEF DocOK
    <2> QED
      BY <1>2, <2>1 DEF UserPlans
  <1> QED
    BY <1>1, <1>2

LEMMA ReplacePlanTries ==
  ASSUME TasksInv, TasksInv', TriesInv, NEW q \in Requests, ReplacePlan(q)
  PROVE  TriesInv'
  <1>1. PICK doc \in {Planned(plans + 1)} \cup UserPlans(plans + 1) :
          /\ request[q].kind # "idle" /\ plans' = plans + 1 /\ plans + 1 \in Plans
          /\ SaveTask(q, doc, NoRequest, NoRequest) /\ debugs' = debugs
    BY TasksAssumption DEF ReplacePlan, Is, StoreAndAnswer, TasksInv, Plans
  <1>2. doc \in Documents /\ doc.plan = plans + 1
    BY <1>1, PlansCount
  <1>3. plans \in Nat /\ \A p \in Plans : p \in Nat
    BY TriesAreNumbers DEF TasksInv
  <1>4. \A x \in Plans \X Todos : x[1] > plans' => debugs'[x] = 0
    BY <1>1, <1>3 DEF TriesInv
  <1>5. Counted(doc, debugs')
    <2>1. \A i \in Todos : debugs[<<plans + 1, i>>] = 0
      BY <1>1, <1>3 DEF TriesInv
    <2>2. \A i \in Todos : 0 <= doc.tries[i]
      BY <1>2, TriesAreNumbers
    <2> QED
      BY <1>1, <1>2, <2>1, <2>2 DEF Counted
  <1> QED
    BY <1>1, <1>2, <1>3, <1>4, <1>5, SaveKeepsTries

LEMMA TriesInitially == TasksInit => TriesInv
  <1> SUFFICES ASSUME TasksInit PROVE TriesInv
    OBVIOUS
  <1>1. 1 \in Plans
    BY TasksAssumption DEF Plans
  <1>2. /\ task \in Documents /\ task.plan = 1 /\ plans = 1
        /\ \A q \in Requests : request[q].kind = "idle" /\ request[q].copy.plan = 1
        /\ \A x \in Plans \X Todos : debugs[x] = 0
    BY <1>1, PlansCount DEF TasksInit, Planned, NoRequest
  <1>3. Counted(task, debugs)
    <2>1. \A i \in Todos : debugs[<<1, i>>] = 0
      BY <1>1, <1>2
    <2>2. \A i \in Todos : 0 <= task.tries[i]
      BY <1>2, TriesAreNumbers
    <2> QED
      BY <1>2, <2>1, <2>2 DEF Counted
  <1> QED
    BY <1>1, <1>2, <1>3, TriesAreNumbers DEF TriesInv, TriesOK

LEMMA TriesStep == TasksInv /\ QuietInv /\ TriesInv /\ [TasksNext]_taskVars => TriesInv'
  <1> SUFFICES ASSUME TasksInv, QuietInv, TriesInv, [TasksNext]_taskVars PROVE TriesInv'
    OBVIOUS
  <1> TasksInv'
    BY TasksStep
  <1>1. ASSUME NEW q \in Requests, NEW kind, NEW i, Arrive(q, kind, i)
        PROVE  TriesInv'
    BY <1>1, ArriveTries
  <1>2. ASSUME NEW q \in Requests,
               \/ ExecuteTodo(q) \/ AgentDone(q) \/ GatePasses(q) \/ NothingToRecord(q) \/ Reread(q)
               \/ GiveUp(q) \/ DebugGate(q)
        PROVE  TriesInv'
    BY <1>2, SilentTries
  <1>3. ASSUME NEW q \in Requests,
               \/ PreflightBlocked(q) \/ StartTodo(q) \/ TodoFails(q)
               \/ GateReportsErrors(q) \/ CompleteTodo(q) \/ FinishCheck(q)
               \/ SaveFinal(q) \/ SaveAndAnswer(q) \/ SaveReread(q)
               \/ ApproveAllPlanned(q) \/ \E status \in UserStatus : PatchTodo(q, status)
        PROVE  TriesInv'
    BY <1>3, CopyTries, SilentTries DEF FinishCheck
  <1>4. ASSUME NEW q \in Requests, DebugTodo(q) \/ DebugRan(q) \/ ReplacePlan(q)
        PROVE  TriesInv'
    BY <1>4, DebugTodoTries, DebugRanTries, ReplacePlanTries
  <1>5. CASE KillAgentServer
    <2>1. /\ \A q \in Requests : request'[q] = NoRequest
          /\ UNCHANGED <<task, lost, plans, debugs>>
      BY <1>5 DEF KillAgentServer
    <2>2. NoRequest.kind = "idle" /\ NoRequest.copy.plan <= plans
      BY TriesAreNumbers DEF NoRequest, Planned, TasksInv, Plans
    <2> QED
      BY <2>1, <2>2 DEF TriesInv, TriesOK, Counted
  <1>6. CASE UNCHANGED taskVars
    BY <1>6 DEF taskVars, TriesInv, TriesOK, Counted
  <1> QED
    BY <1>1, <1>2, <1>3, <1>4, <1>5, <1>6 DEF TasksNext

\* A debug run is under way only below the limit of its request as long as no
\* save is lost, for any number of requests that debug one todo together.
THEOREM DebugAttemptsEnd == TasksSpec => []DebugBounded
  <1>1. TasksInv /\ TriesInv => DebugBounded
    <2> SUFFICES ASSUME TasksInv, TriesInv, ~lost, NEW q \in Requests, Is(q, "debug", "agent"),
                        ~request[q].behind
                 PROVE  debugs[This(q)] < request[q].limit
      BY DEF DebugBounded
    <2> PICK doc \in Documents, i \in Todos : doc = request[q].copy /\ i = request[q].todo
      BY CopyIsOK
    <2>1. /\ doc.plan = task.plan /\ task.tries[i] < doc.tries[i]
          /\ doc.tries[i] <= request[q].limit
      BY DEF TriesInv, TriesOK, Is
    <2>2. debugs[<<doc.plan, i>>] <= task.tries[i]
      BY <2>1 DEF TriesInv, Counted
    <2>3. This(q) = <<doc.plan, i>> /\ debugs[<<doc.plan, i>>] \in Nat
      BY DEF This, TasksInv, Documents
    <2>4. task.tries[i] \in Nat /\ doc.tries[i] \in Nat /\ request[q].limit \in Nat
      BY TriesAreNumbers DEF TasksInv, DocOK, RequestRecords
    <2> QED
      BY <2>1, <2>2, <2>3, <2>4
  <1> QED
    BY <1>1, TasksInitially, TasksStep, TurnsInitially, TurnsStep,
       TriesInitially, TriesStep, PTL DEF TasksSpec

------------------------------------------------------------------------------
(* Edits *)

Spots == {"new", "sites", "content", "meta", "write", "restore", "mark", "done", "killed"}
CallRecords == [tool : {"none", "write", "patch", "rename", "revert"}, at : Spots,
                path : Files, prev : Held, next : Held, token : Tokens \cup {<<>>},
                plan : SUBSET Files, tokens : SUBSET Tokens, raced : BOOLEAN]
SnapRecords == [content : Held, meta : {"none", "live", "reverted", "torn"}]
Editing == {"content", "meta", "write"}

\* A file the call has not written, and tokens that match the files it has.
Fresh(c, f) == <<c, f>> \notin written /\ replaced[<<c, f>>] = NoContent
Matches(c, toks) ==
  \A f \in Files :
    /\ <<c, f>> \in toks => <<c, f>> \in written
    /\ <<c, f>> \in written \ overtaken =>
         (<<c, f>> \in toks <=> replaced[<<c, f>>] # NoContent)

\* What a call knows of its own file, snapshots and tokens.  Between its read
\* and its write, unless somebody disturbed it, the file is what it read; when
\* it writes, the snapshot holds that; it has no token twice.
CallInv(c) ==
  /\ call[c].at \in {"content", "meta"} => call[c].prev \in Contents
  /\ call[c].at \in Editing =>
       /\ call[c].next \in Contents /\ call[c].path \notin call[c].plan
       /\ Fresh(c, call[c].path)
       /\ ~call[c].raced => file[call[c].path] = call[c].prev
  /\ call[c].at = "meta" => snap[<<c, call[c].path>>].content = call[c].prev
  /\ call[c].at = "write" /\ call[c].prev # NoContent =>
       snap[<<c, call[c].path>>].content = call[c].prev /\ snap[<<c, call[c].path>>].meta = "live"
  /\ call[c].at \in {"restore", "mark"} => call[c].token \in given
  /\ call[c].at = "mark" => call[c].token \in restored
  /\ call[c].at = "new" => call[c].plan = {} /\ \A f \in Files : Fresh(c, f)
  /\ call[c].at \in Editing \cup {"sites"} => \A f \in call[c].plan : Fresh(c, f)
  /\ call[c].at \notin {"done", "killed"} =>
       (\A f \in Files : <<c, f>> \notin given) /\ Matches(c, call[c].tokens)
  /\ call[c].at = "done" => Matches(c, given)
  /\ call[c].tokens \subseteq {c} \X Files
  /\ call[c].tool # "rename" \/ call[c].at \in {"new", "restore", "mark"} => call[c].tokens = {}
  /\ \A t \in call[c].tokens : snap[t].content \in Contents

EditsTyped ==
  /\ file \in [Files -> Held] /\ snap \in [Tokens -> SnapRecords]
  /\ call \in [Calls -> CallRecords]
  /\ given \subseteq Tokens /\ written \subseteq Tokens /\ restored \subseteq Tokens
  /\ overtaken \subseteq written
  /\ replaced \in [Tokens -> Held] /\ saves \in 0..MaxSaves
  /\ \A t \in given : snap[t].content \in Contents
SnapInv == EveryWriteUndoable /\ MarkedWasRestored
EditsInv == EditsTyped /\ SnapInv /\ \A c \in Calls : CallInv(c)

\* What a step of another leaves of a call.
Frame(d) ==
  /\ call'[d].at = call[d].at /\ call'[d].tool = call[d].tool /\ call'[d].path = call[d].path
  /\ call'[d].prev = call[d].prev /\ call'[d].next = call[d].next
  /\ call'[d].token = call[d].token /\ call'[d].plan = call[d].plan
  /\ call'[d].tokens = call[d].tokens
  /\ ~call'[d].raced => /\ ~call[d].raced
                        /\ call[d].at \in Editing => file'[call[d].path] = file[call[d].path]
  /\ \A f \in Files :
       /\ snap'[<<d, f>>].content = snap[<<d, f>>].content
       /\ snap'[<<d, f>>].meta = snap[<<d, f>>].meta \/ <<d, f>> \in given
       /\ <<d, f>> \in given' <=> <<d, f>> \in given
       /\ <<d, f>> \in written' <=> <<d, f>> \in written
       /\ <<d, f>> \in overtaken' <=> <<d, f>> \in overtaken
       /\ replaced'[<<d, f>>] = replaced[<<d, f>>]
  /\ given \subseteq given' /\ restored \subseteq restored'

LEMMA FrameMatches ==
  ASSUME NEW d \in Calls, Frame(d)
  PROVE  /\ \A f \in Files : Fresh(d, f) => Fresh(d, f)'
         /\ \A toks : Matches(d, toks) => Matches(d, toks)'
         /\ Matches(d, given) => Matches(d, given)'
         /\ Matches(d, call[d].tokens) => Matches(d, call[d].tokens)'
  BY DEF Frame, Fresh, Matches

LEMMA FrameKeeps ==
  ASSUME EditsInv, NEW d \in Calls, Frame(d)
  PROVE  CallInv(d)'
  <1>1. CallInv(d) /\ call[d].path \in Files /\ call[d].plan \subseteq Files
    BY DEF EditsInv, EditsTyped, CallRecords
  <1>2. \A t \in call[d].tokens : snap'[t].content = snap[t].content
    BY <1>1 DEF Frame, CallInv
  <1>3. /\ call[d].at \in {"content", "meta"} => call'[d].prev \in Contents
        /\ call'[d].at \in {"restore", "mark"} => call'[d].token \in given'
        /\ call'[d].at = "mark" => call'[d].token \in restored'
        /\ call'[d].tokens \subseteq {d} \X Files
        /\ call'[d].tool # "rename" \/ call'[d].at \in {"new", "restore", "mark"}
             => call'[d].tokens = {}
    BY <1>1 DEF Frame, CallInv
  <1>4. call'[d].at \in Editing =>
          /\ call'[d].next \in Contents /\ call'[d].path \notin call'[d].plan
          /\ Fresh(d, call[d].path)'
          /\ ~call'[d].raced => file'[call'[d].path] = call'[d].prev
    BY <1>1, FrameMatches DEF Frame, CallInv
  <1>5. call'[d].at = "meta" => snap'[<<d, call'[d].path>>].content = call'[d].prev
    BY <1>1 DEF Frame, CallInv
  <1>6. call'[d].at = "write" /\ call'[d].prev # NoContent =>
          /\ snap'[<<d, call'[d].path>>].content = call'[d].prev
          /\ snap'[<<d, call'[d].path>>].meta = "live"
    BY <1>1 DEF Frame, CallInv
  <1>7. /\ call'[d].at = "new" =>
             call'[d].plan = {} /\ \A f \in Files : Fresh(d, f)'
        /\ call'[d].at \in Editing \cup {"sites"} =>
             \A f \in call'[d].plan : Fresh(d, f)'
    BY <1>1, FrameMatches DEF Frame, CallInv
  <1>8. /\ call'[d].at \notin {"done", "killed"} =>
             (\A f \in Files : <<d, f>> \notin given') /\ Matches(d, call[d].tokens)'
        /\ call'[d].at = "done" => Matches(d, given)'
    BY <1>1, FrameMatches DEF Frame, CallInv
  <1>9. call'[d].at = call[d].at /\ call'[d].tokens = call[d].tokens
    BY DEF Frame
  <1>10. \A t \in call'[d].tokens : snap'[t].content \in Contents
    BY <1>1, <1>2, <1>9 DEF CallInv
  <1> QED
    BY <1>3, <1>4, <1>5, <1>6, <1>7, <1>8, <1>9, <1>10 DEF CallInv

LEMMA NewCallType == \A how \in {"new", "done", "killed"} : Ended(how) \in CallRecords
  <1>1. NewCall.path \in Files /\ NewCall \in CallRecords
    BY EditsAssumption DEF NewCall, CallRecords, Spots, Held
  <1> QED
    BY <1>1 DEF Ended, CallRecords, Spots

LEMMA EditsInitially == EditsInit => EditsInv
  <1> SUFFICES ASSUME EditsInit PROVE EditsInv
    OBVIOUS
  <1>1. EditsTyped
    <2>1. NewCall \in CallRecords
      BY EditsAssumption DEF NewCall, CallRecords, Spots, Held
    <2>2. NoSnap \in SnapRecords
      BY DEF NoSnap, SnapRecords, Held
    <2> QED
      BY <2>1, <2>2, EditsAssumption DEF EditsInit, EditsTyped, Held
  <1>2. SnapInv
    BY DEF EditsInit, SnapInv, EveryWriteUndoable, MarkedWasRestored, NoSnap
  <1>3. ASSUME NEW c \in Calls PROVE CallInv(c)
    <2>1. call[c].at = "new" /\ call[c].plan = {} /\ call[c].tokens = {}
      BY DEF EditsInit, NewCall
    <2>2. \A f \in Files : Fresh(c, f) /\ <<c, f>> \notin given
      BY DEF EditsInit, Tokens, Fresh
    <2>3. Matches(c, call[c].tokens)
      BY <2>1, <2>2 DEF Matches, Fresh
    <2> QED
      BY <2>1, <2>2, <2>3 DEF CallInv, Editing
  <1> QED
    BY <1>1, <1>2, <1>3 DEF EditsInv

\* The answer of a call: its tokens are given, nothing else moves.
LEMMA ReplyKeeps ==
  ASSUME EditsInv, NEW c \in Calls, call[c].at \notin {"done", "killed"},
         NEW toks, toks = call[c].tokens, Reply(c, toks),
         UNCHANGED <<file, snap, written, replaced, overtaken, restored, saves>>
  PROVE  EditsInv'
  <1>1. call' = [call EXCEPT ![c] = Ended("done")] /\ given' = given \cup toks
    BY DEF Reply
  <1>2. call \in [Calls -> CallRecords] /\ CallInv(c) /\ toks \subseteq {c} \X Files
    BY DEF EditsInv, EditsTyped, CallInv
  <1>3. call' \in [Calls -> CallRecords] /\ call'[c] = Ended("done")
    BY <1>1, <1>2, NewCallType
  <1>4. call'[c].at = "done" /\ call'[c].tokens = {}
    BY <1>3 DEF Ended, NewCall
  <1>5. CallInv(c)'
    <2>1. \A f \in Files : <<c, f>> \in given' <=> <<c, f>> \in toks
      BY <1>1, <1>2 DEF CallInv
    <2>2. Matches(c, toks)
      BY <1>2 DEF CallInv
    <2>3. Matches(c, given)'
      BY <2>1, <2>2 DEF Matches
    <2> QED
      BY <1>4, <2>3 DEF CallInv, Editing
  <1>6. ASSUME NEW d \in Calls, d # c PROVE CallInv(d)'
    <2>1. call'[d] = call[d] /\ \A f \in Files : <<d, f>> \notin toks
      BY <1>1, <1>2, <1>6
    <2>2. Frame(d)
      BY <1>1, <2>1 DEF Frame
    <2> QED
      BY <2>2, FrameKeeps
  <1>7. EditsTyped'
    <2>1. \A t \in toks : t \in Tokens /\ snap[t].content \in Contents
      BY <1>2 DEF CallInv, Tokens
    <2> QED
      BY <1>1, <1>3, <2>1 DEF EditsInv, EditsTyped
  <1>8. SnapInv'
    BY DEF EditsInv, SnapInv, EveryWriteUndoable, MarkedWasRestored, Loadable
  <1> QED
    BY <1>5, <1>6, <1>7, <1>8 DEF EditsInv

\* A step that leaves the others framed.
LEMMA OwnStepKeeps ==
  ASSUME EditsInv, NEW c \in Calls, EditsTyped', SnapInv', CallInv(c)',
         \A d \in Calls \ {c} : Frame(d)
  PROVE  EditsInv'
  <1>1. \A d \in Calls \ {c} : CallInv(d)'
    BY FrameKeeps
  <1> QED
    BY <1>1 DEF EditsInv

\* A step that changes nothing but the record of a call.
LEMMA RecordStepKeeps ==
  ASSUME EditsInv, NEW c \in Calls, NEW r \in CallRecords, call' = [call EXCEPT ![c] = r],
         UNCHANGED <<file, snap, given, written, replaced, overtaken, restored, saves>>, CallInv(c)'
  PROVE  EditsInv'
  <1>1. call' \in [Calls -> CallRecords] /\ \A d \in Calls \ {c} : call'[d] = call[d]
    BY DEF EditsInv, EditsTyped
  <1>2. \A d \in Calls \ {c} : Frame(d)
    BY <1>1 DEF Frame
  <1>3. EditsTyped' /\ SnapInv'
    BY <1>1 DEF EditsInv, EditsTyped, SnapInv, EveryWriteUndoable, MarkedWasRestored, Loadable
  <1> QED
    BY <1>2, <1>3, OwnStepKeeps

LEMMA FailKeeps ==
  ASSUME EditsInv, NEW c \in Calls, call[c].at \in Editing, Fail(c),
         UNCHANGED <<file, snap, written, replaced, overtaken, restored, saves>>
  PROVE  EditsInv'
  <1> PICK x \in CallRecords : x = call[c]
    BY DEF EditsInv, EditsTyped
  <1>0. CallInv(c) /\ call \in [Calls -> CallRecords]
    BY DEF EditsInv, EditsTyped
  <1>1. CASE x.tool = "rename"
    <2> DEFINE r == [x EXCEPT !.at = "sites"]
    <2>1. call' = [call EXCEPT ![c] = r] /\ UNCHANGED given
      BY <1>1 DEF Fail
    <2>2. /\ r \in CallRecords /\ r.at = "sites" /\ r.tool = "rename"
          /\ r.tokens = x.tokens /\ r.plan = x.plan
      BY <1>1 DEF CallRecords, Spots
    <2> HIDE DEF r
    <2>3. call'[c] = r
      BY <1>0, <2>1
    <2>4. CallInv(c)'
      BY <1>0, <2>1, <2>2, <2>3 DEF CallInv, Editing, Fresh, Matches
    <2> QED
      BY <2>1, <2>2, <2>4, RecordStepKeeps
  <1>2. CASE x.tool # "rename"
    <2>1. Reply(c, {}) /\ call[c].tokens = {}
      BY <1>0, <1>2 DEF Fail, CallInv
    <2> QED
      BY <2>1, ReplyKeeps DEF Editing
  <1> QED
    BY <1>1, <1>2

\* A call that has just read its file.
LEMMA ReadKeeps ==
  ASSUME EditsInv, NEW c \in Calls, call[c].at = "new", NEW tl \in {"write", "patch"},
         NEW f \in Files, NEW new \in Contents, NEW spot \in {"content", "write"},
         Reads(c, tl, f, new, spot), file[f] = NoContent <=> spot = "write",
         UNCHANGED <<file, snap, given, written, replaced, overtaken, restored, saves>>
  PROVE  EditsInv'
  <1> PICK x \in CallRecords : x = call[c]
    BY DEF EditsInv, EditsTyped
  <1>0. CallInv(c) /\ call \in [Calls -> CallRecords] /\ file[f] \in Held
    BY DEF EditsInv, EditsTyped
  <1> DEFINE r == [x EXCEPT !.tool = tl, !.path = f, !.prev = file[f],
                            !.next = new, !.raced = FALSE, !.at = spot]
  <1>1. call' = [call EXCEPT ![c] = r]
    BY <1>0 DEF Reads
  <1>2. /\ r \in CallRecords /\ r.at = spot /\ r.tool = tl /\ r.path = f /\ r.prev = file[f]
        /\ r.next = new /\ r.raced = FALSE /\ r.tokens = x.tokens /\ r.plan = x.plan
    BY <1>0 DEF CallRecords, Spots, Held
  <1> HIDE DEF r
  <1>3. call'[c] = r
    BY <1>0, <1>1
  <1>4. CallInv(c)'
    BY <1>0, <1>2, <1>3 DEF CallInv, Editing, Fresh, Matches, Held
  <1> QED
    BY <1>1, <1>2, <1>4, RecordStepKeeps

LEMMA FirstSteps ==
  ASSUME EditsInv, NEW c \in Calls, NEW f \in Files, NEW new \in Contents,
         WriteWorkspaceFile(c, f, new) \/ PatchFile(c, f, new)
  PROVE  EditsInv'
  <1>1. call[c].at = "new" /\ UNCHANGED <<file, snap, written, replaced, overtaken, restored, saves>>
    BY DEF WriteWorkspaceFile, PatchFile, IsAt
  <1>2. CASE Reply(c, {})
    <2>1. call[c].tokens = {}
      BY <1>1 DEF EditsInv, CallInv
    <2> QED
      BY <1>1, <1>2, <2>1, ReplyKeeps
  <1>3. CASE /\ Reads(c, "write", f, new, IF file[f] = NoContent THEN "write" ELSE "content")
             /\ UNCHANGED given
    BY <1>1, <1>3, ReadKeeps
  <1>4. CASE file[f] # NoContent /\ Reads(c, "patch", f, new, "content") /\ UNCHANGED given
    BY <1>1, <1>4, ReadKeeps
  <1> QED
    BY <1>2, <1>3, <1>4 DEF WriteWorkspaceFile, PatchFile

LEMMA RenameSteps ==
  ASSUME EditsInv, NEW c \in Calls,
         \/ \E plan \in SUBSET Files : PlanRename(c, plan)
         \/ \E f \in Files, new \in Contents \ Occurs : RenameInFile(c, f, new)
         \/ RenameDone(c)
  PROVE  EditsInv'
  <1> PICK x \in CallRecords : x = call[c]
    BY DEF EditsInv, EditsTyped
  <1>0. CallInv(c) /\ call \in [Calls -> CallRecords]
    BY DEF EditsInv, EditsTyped
  <1>1. ASSUME NEW plan \in SUBSET Files, PlanRename(c, plan) PROVE EditsInv'
    <2> DEFINE r == [x EXCEPT !.tool = "rename", !.plan = plan, !.at = "sites"]
    <2>1. /\ call[c].at = "new" /\ call' = [call EXCEPT ![c] = r]
          /\ UNCHANGED <<file, snap, given, written, replaced, overtaken, restored, saves>>
      BY <1>0, <1>1 DEF PlanRename, IsAt
    <2>2. /\ r \in CallRecords /\ r.at = "sites" /\ r.tool = "rename" /\ r.plan = plan
          /\ r.tokens = x.tokens
      BY DEF CallRecords, Spots
    <2> HIDE DEF r
    <2>3. call'[c] = r
      BY <1>0, <2>1
    <2>4. CallInv(c)'
      BY <1>0, <2>1, <2>2, <2>3 DEF CallInv, Editing, Fresh, Matches
    <2> QED
      BY <2>1, <2>2, <2>4, RecordStepKeeps
  <1>2. ASSUME NEW f \in Files, NEW new \in Contents \ Occurs, RenameInFile(c, f, new)
        PROVE  EditsInv'
    <2>1. /\ x.at = "sites" /\ f \in x.plan
          /\ UNCHANGED <<file, snap, given, written, replaced, overtaken, restored, saves>>
      BY <1>2 DEF RenameInFile, IsAt
    <2>2. CASE file[f] \in Occurs
      <3> DEFINE r == [x EXCEPT !.path = f, !.prev = file[f], !.next = new,
                                !.raced = FALSE, !.at = "content", !.plan = @ \ {f}]
      <3>1. call' = [call EXCEPT ![c] = r]
        BY <1>0, <1>2, <2>2 DEF RenameInFile
      <3>2. /\ r \in CallRecords /\ r.at = "content" /\ r.tool = x.tool /\ r.path = f
            /\ r.prev = file[f] /\ r.next = new /\ r.plan = x.plan \ {f} /\ r.tokens = x.tokens
        BY <2>2, EditsAssumption DEF CallRecords, Spots, Held
      <3> HIDE DEF r
      <3>3. call'[c] = r
        BY <1>0, <3>1
      <3>4. CallInv(c)'
        BY <1>0, <2>1, <2>2, <3>2, <3>3, EditsAssumption DEF CallInv, Editing, Fresh, Matches
      <3> QED
        BY <2>1, <3>1, <3>2, <3>4, RecordStepKeeps
    <2>3. CASE file[f] \notin Occurs
      <3> DEFINE r == [x EXCEPT !.plan = @ \ {f}]
      <3>1. call' = [call EXCEPT ![c] = r]
        BY <1>0, <1>2, <2>3 DEF RenameInFile
      <3>2. /\ r \in CallRecords /\ r.at = x.at /\ r.tool = x.tool
            /\ r.plan = x.plan \ {f} /\ r.tokens = x.tokens
        BY DEF CallRecords
      <3> HIDE DEF r
      <3>3. call'[c] = r
        BY <1>0, <3>1
      <3>4. CallInv(c)'
        BY <1>0, <2>1, <3>2, <3>3 DEF CallInv, Editing, Fresh, Matches
      <3> QED
        BY <2>1, <3>1, <3>2, <3>4, RecordStepKeeps
    <2> QED
      BY <2>2, <2>3
  <1>3. CASE RenameDone(c)
    <2>1. /\ call[c].at = "sites" /\ Reply(c, call[c].tokens)
          /\ UNCHANGED <<file, snap, written, replaced, overtaken, restored, saves>>
      BY <1>3 DEF RenameDone, IsAt
    <2> QED
      BY <2>1, ReplyKeeps
  <1> QED
    BY <1>1, <1>2, <1>3

\* The three steps of an edit.
LEMMA SnapshotSteps ==
  ASSUME EditsInv, NEW c \in Calls, SnapContent(c) \/ SnapMeta(c)
  PROVE  EditsInv'
  <1> PICK x \in CallRecords : x = call[c]
    BY DEF EditsInv, EditsTyped
  <1>0. /\ CallInv(c) /\ call \in [Calls -> CallRecords] /\ snap \in [Tokens -> SnapRecords]
        /\ UNCHANGED <<file, written, replaced, overtaken, restored, saves>> /\ x.at \in {"content", "meta"}
    BY DEF EditsInv, EditsTyped, SnapContent, SnapMeta, IsAt
  <1> PICK t \in Tokens : t = <<c, x.path>>
    BY DEF CallRecords, Tokens
  <1> PICK old \in SnapRecords : old = snap[t]
    BY <1>0
  <1>1. CASE Fail(c) /\ UNCHANGED snap
    BY <1>0, <1>1, FailKeeps DEF Editing
  <1>2. ASSUME NEW new \in SnapRecords, snap' = [snap EXCEPT ![t] = new],
               NEW spot \in {"meta", "write"}, call' = [call EXCEPT ![c] = [x EXCEPT !.at = spot]],
               UNCHANGED given, new.content = x.prev,
               spot = "meta" => new.meta = old.meta,
               spot = "write" => new.meta = "live"
        PROVE  EditsInv'
    <2> DEFINE r == [x EXCEPT !.at = spot]
    <2>1. /\ r \in CallRecords /\ r.at = spot /\ r.tool = x.tool /\ r.path = x.path
          /\ r.prev = x.prev /\ r.next = x.next /\ r.token = x.token /\ r.plan = x.plan
          /\ r.tokens = x.tokens /\ r.raced = x.raced
      BY <1>2 DEF CallRecords, Spots
    <2> HIDE DEF r
    <2>2. /\ call' \in [Calls -> CallRecords] /\ call'[c] = r
          /\ \A d \in Calls \ {c} : call'[d] = call[d]
      BY <1>0, <1>2, <2>1 DEF r
    <2>3. /\ snap' \in [Tokens -> SnapRecords] /\ snap'[t] = new
          /\ \A u \in Tokens \ {t} : snap'[u] = snap[u]
      BY <1>0, <1>2
    <2>4. x.prev \in Contents /\ replaced[t] = NoContent /\ new.content \in Contents
      BY <1>0, <1>2 DEF CallInv, Editing, Fresh, Matches
    <2>5. \A d \in Calls \ {c} : Frame(d)
      <3>1. \A d \in Calls \ {c}, f \in Files : <<d, f>> \in Tokens \ {t}
        BY DEF Tokens
      <3> QED
        BY <1>0, <1>2, <2>2, <2>3, <3>1 DEF Frame
    <2>6. CallInv(c)'
      <3>1. \A u \in x.tokens : snap'[u].content \in Contents
        BY <1>0, <2>3, <2>4 DEF CallInv, CallRecords
      <3> QED
        BY <1>0, <1>2, <2>1, <2>2, <2>3, <2>4, <3>1 DEF CallInv, Editing, Fresh, Matches
    <2>7. EditsTyped'
      BY <1>0, <1>2, <2>2, <2>3, <2>4 DEF EditsInv, EditsTyped
    <2>8. SnapInv'
      <3>1. new.meta = "reverted" => t \in restored
        BY <1>2 DEF EditsInv, SnapInv, MarkedWasRestored
      <3> QED
        BY <1>0, <2>3, <2>4, <3>1
           DEF EditsInv, SnapInv, EveryWriteUndoable, MarkedWasRestored, Loadable
    <2> QED
      BY <2>5, <2>6, <2>7, <2>8, OwnStepKeeps
  <1>3. CASE SnapContent(c) /\ ~(Fail(c) /\ UNCHANGED snap)
    <2> DEFINE new == [old EXCEPT !.content = x.prev]
    <2>1. /\ snap' = [snap EXCEPT ![t] = new] /\ UNCHANGED given
          /\ call' = [call EXCEPT ![c] = [x EXCEPT !.at = "meta"]]
      BY <1>0, <1>3 DEF SnapContent
    <2>2. new \in SnapRecords /\ new.content = x.prev /\ new.meta = old.meta
      BY DEF SnapRecords, CallRecords
    <2> HIDE DEF new
    <2> QED
      BY <1>2, <2>1, <2>2
  <1>4. CASE SnapMeta(c) /\ ~(Fail(c) /\ UNCHANGED snap)
    <2> DEFINE new == [old EXCEPT !.meta = "live"]
    <2>1. /\ snap' = [snap EXCEPT ![t] = new] /\ UNCHANGED given /\ x.at = "meta"
          /\ call' = [call EXCEPT ![c] = [x EXCEPT !.at = "write"]]
      BY <1>0, <1>4 DEF SnapMeta, IsAt
    <2>2. new \in SnapRecords /\ new.content = x.prev /\ new.meta = "live"
      BY <1>0, <2>1 DEF SnapRecords, CallInv
    <2> HIDE DEF new
    <2> QED
      BY <1>2, <2>1, <2>2
  <1> QED
    BY <1>1, <1>3, <1>4

\* Whoever reads or has read a file that changes is disturbed.
LEMMA DisturbedIs ==
  ASSUME EditsInv, NEW f \in Files
  PROVE  /\ Disturbed(f) \in [Calls -> CallRecords]
         /\ \A d \in Calls :
              /\ Disturbed(f)[d].at = call[d].at /\ Disturbed(f)[d].tool = call[d].tool
              /\ Disturbed(f)[d].path = call[d].path /\ Disturbed(f)[d].prev = call[d].prev
              /\ Disturbed(f)[d].next = call[d].next /\ Disturbed(f)[d].token = call[d].token
              /\ Disturbed(f)[d].plan = call[d].plan /\ Disturbed(f)[d].tokens = call[d].tokens
              /\ ~Disturbed(f)[d].raced =>
                   ~call[d].raced /\ ~(call[d].path = f /\ call[d].at \in Editing)
  <1>1. ASSUME NEW d \in Calls
        PROVE  LET x == call[d]
                   y == Disturbed(f)[d]
               IN /\ y \in CallRecords /\ y.at = x.at /\ y.tool = x.tool /\ y.path = x.path
                  /\ y.prev = x.prev /\ y.next = x.next /\ y.token = x.token
                  /\ y.plan = x.plan /\ y.tokens = x.tokens
                  /\ ~y.raced => ~x.raced /\ ~(x.path = f /\ x.at \in Editing)
    <2> PICK x \in CallRecords : x = call[d]
      BY DEF EditsInv, EditsTyped
    <2> DEFINE was == x.raced \/ (x.path = f /\ x.at \in Editing)
    <2>1. Disturbed(f)[d] = [x EXCEPT !.raced = was]
      BY DEF Disturbed, Editing
    <2> QED
      BY <2>1 DEF CallRecords
  <1> QED
    BY <1>1 DEF Disturbed

\* The rename over the target: the snapshot holds what it replaces.
LEMMA WriteTargetStep ==
  ASSUME EditsInv, NEW c \in Calls, WriteTarget(c)
  PROVE  EditsInv'
  <1> PICK x \in CallRecords : x = call[c]
    BY DEF EditsInv, EditsTyped
  <1> PICK f \in Files : f = x.path
    BY DEF CallRecords
  <1> PICK t \in Tokens : t = <<c, f>>
    BY DEF Tokens
  <1> DEFINE toks == IF x.prev = NoContent THEN {} ELSE {t}
  <1>0. /\ EditsTyped /\ CallInv(c) /\ x.at = "write" /\ UNCHANGED <<snap, restored, saves>>
        /\ \A d \in Calls \ {c}, g \in Files : <<d, g>> # t
    BY DEF EditsInv, WriteTarget, IsAt
  <1>1. CASE Fail(c) /\ UNCHANGED <<file, written, replaced, overtaken>>
    BY <1>0, <1>1, FailKeeps DEF Editing
  <1>2. CASE ~(Fail(c) /\ UNCHANGED <<file, written, replaced, overtaken>>)
    <2>1. /\ file' = [file EXCEPT ![f] = x.next] /\ written' = written \cup {t}
          /\ replaced' = [replaced EXCEPT ![t] = file[f]]
          /\ overtaken' = IF x.raced THEN overtaken \cup {t} ELSE overtaken
          /\ \/ /\ x.tool = "rename" /\ UNCHANGED given
                /\ call' = [Disturbed(f) EXCEPT ![c].at = "sites", ![c].tokens = @ \cup toks]
             \/ /\ x.tool # "rename" /\ given' = given \cup toks
                /\ call' = [Disturbed(f) EXCEPT ![c] = Ended("done")]
      BY <1>2 DEF WriteTarget
    <2> PICK y \in CallRecords : y = Disturbed(f)[c]
      BY DisturbedIs
    <2>2. /\ y.plan = x.plan /\ y.tokens = x.tokens /\ y.tool = x.tool
          /\ Disturbed(f) \in [Calls -> CallRecords]
      BY DisturbedIs
    <2>3. x.next \in Contents /\ x.prev \in Held /\ f \notin x.plan /\ Fresh(c, f)
      BY <1>0 DEF CallInv, Editing, CallRecords
    <2>4. x.prev # NoContent => snap[t].content = x.prev /\ snap[t].meta = "live"
      BY <1>0 DEF CallInv
    <2>5. ~x.raced => file[f] = x.prev
      BY <1>0 DEF CallInv, Editing
    <2> HIDE DEF toks
    <2>6. toks \subseteq {t} /\ (x.prev # NoContent => toks = {t}) /\ (x.prev = NoContent => toks = {})
      BY DEF toks
    <2>7. /\ replaced' \in [Tokens -> Held] /\ \A u \in Tokens \ {t} : replaced'[u] = replaced[u]
          /\ t \notin overtaken' => ~x.raced /\ replaced'[t] = x.prev
          /\ overtaken' \subseteq written' /\ written' \subseteq Tokens
          /\ \A u \in Tokens \ {t} : u \in overtaken' <=> u \in overtaken
      BY <1>0, <2>1, <2>3, <2>5 DEF EditsTyped
    <2>8. SnapInv'
      BY <1>0, <2>4, <2>7 DEF EditsInv, SnapInv, EveryWriteUndoable, MarkedWasRestored, Loadable
    <2>9. file' \in [Files -> Held] /\ \A g \in Files \ {f} : file'[g] = file[g]
      BY <1>0, <2>1, <2>3 DEF EditsTyped, Held
    <2>10. \A u \in toks : snap[u].content \in Contents
      BY <2>3, <2>4, <2>6 DEF Held
    <2>11. ASSUME NEW z \in CallRecords, call' = [Disturbed(f) EXCEPT ![c] = z],
                  given \subseteq given', given' \subseteq given \cup toks,
                  CallInv(c)'
           PROVE  EditsInv'
      <3>1. call' \in [Calls -> CallRecords] /\ \A d \in Calls \ {c} : call'[d] = Disturbed(f)[d]
        BY <2>2, <2>11
      <3>2. \A d \in Calls \ {c} : Frame(d)
        <4> TAKE d \in Calls \ {c}
        <4>1. \A g \in Files : <<d, g>> \in Tokens \ {t}
          BY <1>0 DEF Tokens
        <4>2. \A g \in Files : /\ <<d, g>> \in given' <=> <<d, g>> \in given
                               /\ <<d, g>> \in written' <=> <<d, g>> \in written
                               /\ <<d, g>> \in overtaken' <=> <<d, g>> \in overtaken
                               /\ replaced'[<<d, g>>] = replaced[<<d, g>>]
          BY <2>1, <2>6, <2>7, <2>11, <4>1
        <4>3. call[d].path \in Files
          BY <1>0 DEF EditsTyped, CallRecords
        <4> QED
          BY <1>0, <2>9, <2>11, <3>1, <4>2, <4>3, DisturbedIs DEF Frame
      <3>3. EditsTyped'
        BY <1>0, <2>1, <2>6, <2>7, <2>9, <2>10, <2>11, <3>1 DEF EditsTyped
      <3> QED
        BY <2>8, <2>11, <3>2, <3>3, OwnStepKeeps
    <2> DEFINE all == x.tokens \cup toks
    <2>14. Matches(c, all)'
      <3> SUFFICES ASSUME NEW g \in Files
                   PROVE  /\ <<c, g>> \in all => <<c, g>> \in written'
                          /\ <<c, g>> \in written' \ overtaken' =>
                               (<<c, g>> \in all <=> replaced'[<<c, g>>] # NoContent)
        BY DEF Matches
      <3>1. Matches(c, x.tokens)
        BY <1>0 DEF CallInv
      <3>2. CASE g = f
        <4>1. t \notin x.tokens
          BY <2>3, <3>1 DEF Fresh, Matches
        <4> QED
          BY <2>1, <2>6, <2>7, <3>2, <4>1
      <3>3. CASE g # f
        <4>1. <<c, g>> \in Tokens \ {t}
          BY <3>3 DEF Tokens
        <4>2. <<c, g>> \in all <=> <<c, g>> \in x.tokens
          BY <2>6, <4>1
        <4> QED
          BY <2>1, <2>7, <3>1, <4>1, <4>2 DEF Matches
      <3> QED
        BY <3>2, <3>3
    <2>12. CASE x.tool = "rename"
      <3> DEFINE there == [y EXCEPT !.at = "sites"]
                 z == [there EXCEPT !.tokens = all]
      <3>1. call' = [Disturbed(f) EXCEPT ![c] = z] /\ UNCHANGED given
        BY <2>1, <2>2, <2>12
      <3>2. /\ z \in CallRecords /\ z.at = "sites" /\ z.tool = x.tool
            /\ z.plan = x.plan /\ z.tokens = all
        <4>1. all \in SUBSET Tokens
          BY <2>6 DEF CallRecords
        <4>2. /\ there \in CallRecords /\ there.at = "sites"
              /\ there.tool = x.tool /\ there.plan = x.plan
          BY <2>2 DEF CallRecords, Spots
        <4> HIDE DEF there, all
        <4> QED
          BY <4>1, <4>2 DEF CallRecords
      <3> HIDE DEF z
      <3>3. call'[c] = z
        BY <2>2, <3>1
      <3>4. \A g \in Files : <<c, g>> \notin given
        BY <1>0 DEF CallInv
      <3>5. \A g \in x.plan : Fresh(c, g)'
        <4>1. \A g \in x.plan : <<c, g>> \in Tokens \ {t} /\ Fresh(c, g)
          BY <1>0, <2>3 DEF CallInv, Editing, CallRecords, Tokens
        <4> QED
          BY <2>1, <2>7, <4>1 DEF Fresh
      <3>6. x.tokens \cup toks \subseteq {c} \X Files
            /\ \A u \in x.tokens \cup toks : snap'[u].content \in Contents
        BY <1>0, <2>6, <2>10 DEF CallInv
      <3>7. CallInv(c)'
        BY <2>12, <2>14, <3>1, <3>2, <3>3, <3>4, <3>5, <3>6 DEF CallInv, Editing
      <3> QED
        BY <2>11, <3>1, <3>2, <3>7
    <2>13. CASE x.tool # "rename"
      <3>1. call' = [Disturbed(f) EXCEPT ![c] = Ended("done")] /\ given' = given \cup toks
        BY <2>1, <2>13
      <3>2. call'[c].at = "done" /\ call'[c].tokens = {} /\ Ended("done") \in CallRecords
        BY <2>2, <3>1, NewCallType DEF Ended, NewCall
      <3>3. x.tokens = {} /\ \A g \in Files : <<c, g>> \notin given
        BY <1>0, <2>13 DEF CallInv
      <3>4. Matches(c, given)'
        BY <2>14, <3>1, <3>3 DEF Matches
      <3>5. CallInv(c)'
        BY <3>2, <3>4 DEF CallInv, Editing
      <3> QED
        BY <2>11, <3>1, <3>2, <3>5
    <2> QED
      BY <2>12, <2>13
  <1> QED
    BY <1>1, <1>2

\* The steps of a revert.
LEMMA LoadSnapshotStep ==
  ASSUME EditsInv, NEW c \in Calls, NEW t \in Tokens, LoadSnapshot(c, t)
  PROVE  EditsInv'
  <1> PICK x \in CallRecords : x = call[c]
    BY DEF EditsInv, EditsTyped
  <1>0. /\ CallInv(c) /\ call \in [Calls -> CallRecords] /\ x.at = "new" /\ t \in given
        /\ UNCHANGED <<file, snap, written, replaced, overtaken, restored, saves>>
    BY DEF EditsInv, EditsTyped, LoadSnapshot, IsAt
  <1>1. CASE Reply(c, {})
    <2>1. call[c].tokens = {}
      BY <1>0 DEF CallInv
    <2> QED
      BY <1>0, <1>1, <2>1, ReplyKeeps
  <1>2. CASE ~Reply(c, {})
    <2> DEFINE r == [x EXCEPT !.tool = "revert", !.token = t, !.at = "restore"]
    <2>1. call' = [call EXCEPT ![c] = r] /\ UNCHANGED given
      BY <1>0, <1>2 DEF LoadSnapshot
    <2>2. /\ r \in CallRecords /\ r.at = "restore" /\ r.token = t /\ r.tokens = x.tokens
      BY DEF CallRecords, Spots
    <2> HIDE DEF r
    <2>3. call'[c] = r
      BY <1>0, <2>1
    <2>4. CallInv(c)'
      BY <1>0, <2>1, <2>2, <2>3 DEF CallInv, Editing, Fresh, Matches
    <2> QED
      BY <1>0, <2>1, <2>2, <2>4, RecordStepKeeps
  <1> QED
    BY <1>1, <1>2

LEMMA RestoreContentStep ==
  ASSUME EditsInv, NEW c \in Calls, RestoreContent(c)
  PROVE  EditsInv'
  <1> PICK x \in CallRecords : x = call[c]
    BY DEF EditsInv, EditsTyped
  <1>0. /\ EditsTyped /\ CallInv(c) /\ x.at = "restore" /\ x.token \in given /\ x.tokens = {}
        /\ UNCHANGED <<snap, written, replaced, overtaken, saves>>
    BY DEF EditsInv, RestoreContent, IsAt, CallInv
  <1> PICK t \in Tokens : t = x.token
    BY <1>0 DEF EditsTyped
  <1>1. CASE Reply(c, {}) /\ UNCHANGED <<file, restored>>
    BY <1>0, <1>1, ReplyKeeps
  <1>2. CASE ~(Reply(c, {}) /\ UNCHANGED <<file, restored>>)
    <2>1. /\ file' = [file EXCEPT ![t[2]] = snap[t].content] /\ restored' = restored \cup {t}
          /\ call' = [Disturbed(t[2]) EXCEPT ![c].at = "mark"] /\ UNCHANGED given
      BY <1>2 DEF RestoreContent
    <2>2. t[2] \in Files /\ snap[t].content \in Contents
      BY <1>0 DEF Tokens, EditsTyped
    <2> PICK f \in Files : f = t[2]
      BY <2>2
    <2> PICK y \in CallRecords : y = Disturbed(f)[c]
      BY DisturbedIs
    <2> DEFINE z == [y EXCEPT !.at = "mark"]
    <2>3. call' = [Disturbed(f) EXCEPT ![c] = z] /\ Disturbed(f) \in [Calls -> CallRecords]
      BY <2>1, DisturbedIs
    <2>4. z \in CallRecords /\ z.at = "mark" /\ z.token = y.token /\ z.tokens = y.tokens
      BY DEF CallRecords, Spots
    <2>5. y.token = x.token /\ y.tokens = x.tokens
      BY DisturbedIs
    <2> HIDE DEF z
    <2>6. /\ call' \in [Calls -> CallRecords] /\ call'[c] = z
          /\ \A d \in Calls \ {c} : call'[d] = Disturbed(f)[d]
      BY <2>3, <2>4
    <2>7. file' \in [Files -> Held] /\ \A g \in Files \ {f} : file'[g] = file[g]
      BY <1>0, <2>1, <2>2 DEF EditsTyped, Held
    <2>8. CallInv(c)'
      <3>1. (\A g \in Files : <<c, g>> \notin given') /\ Matches(c, x.tokens)'
        BY <1>0, <2>1 DEF CallInv, Matches
      <3>2. /\ call'[c].at = "mark" /\ call'[c].tokens = {}
            /\ call'[c].token \in given' /\ call'[c].token \in restored'
        BY <1>0, <2>1, <2>4, <2>5, <2>6
      <3> QED
        BY <1>0, <3>1, <3>2 DEF CallInv, Editing
    <2>9. \A d \in Calls \ {c} : Frame(d)
      <3> TAKE d \in Calls \ {c}
      <3>1. call[d].path \in Files
        BY <1>0 DEF EditsTyped, CallRecords
      <3> QED
        BY <1>0, <2>1, <2>6, <2>7, <3>1, DisturbedIs DEF Frame
    <2>10. EditsTyped'
      BY <1>0, <2>1, <2>6, <2>7 DEF EditsTyped
    <2>11. SnapInv'
      BY <1>0, <2>1 DEF EditsInv, SnapInv, EveryWriteUndoable, MarkedWasRestored, Loadable
    <2> QED
      BY <2>8, <2>9, <2>10, <2>11, OwnStepKeeps
  <1> QED
    BY <1>1, <1>2

LEMMA MarkStep ==
  ASSUME EditsInv, NEW c \in Calls, markSnapshotReverted(c)
  PROVE  EditsInv'
  <1> PICK x \in CallRecords : x = call[c]
    BY DEF EditsInv, EditsTyped
  <1>0. /\ EditsTyped /\ CallInv(c) /\ x.at = "mark" /\ x.token \in given \cap restored
        /\ UNCHANGED <<file, written, replaced, overtaken, restored, saves>> /\ Reply(c, {})
    BY DEF EditsInv, markSnapshotReverted, IsAt, CallInv
  <1> PICK t \in Tokens : t = x.token
    BY <1>0 DEF EditsTyped
  <1> PICK m \in {"reverted", "torn", snap[t].meta} : snap' = [snap EXCEPT ![t].meta = m]
    BY DEF markSnapshotReverted
  <1> PICK old \in SnapRecords : old = snap[t]
    BY <1>0 DEF EditsTyped
  <1> DEFINE new == [old EXCEPT !.meta = m]
  <1>1. snap' = [snap EXCEPT ![t] = new]
    BY <1>0 DEF EditsTyped
  <1>2. new \in SnapRecords /\ new.content = old.content
    BY DEF SnapRecords
  <1> HIDE DEF new
  <1>3. /\ snap' \in [Tokens -> SnapRecords] /\ \A u \in Tokens \ {t} : snap'[u] = snap[u]
        /\ \A u \in Tokens : snap'[u].content = snap[u].content
    BY <1>0, <1>1, <1>2 DEF EditsTyped
  <1>4. /\ call' \in [Calls -> CallRecords] /\ call'[c] = Ended("done") /\ given' = given
        /\ \A d \in Calls \ {c} : call'[d] = call[d]
    BY <1>0, NewCallType DEF EditsTyped, Reply
  <1>5. call'[c].at = "done" /\ call'[c].tokens = {}
    BY <1>4 DEF Ended, NewCall
  <1>6. CallInv(c)'
    <2>1. Matches(c, call[c].tokens) /\ call[c].tokens = {} /\ \A f \in Files : <<c, f>> \notin given
      BY <1>0 DEF CallInv
    <2>2. Matches(c, given)'
      BY <1>0, <1>4, <2>1 DEF Matches
    <2> QED
      BY <1>4, <1>5, <2>2 DEF CallInv, Editing
  <1>7. \A d \in Calls \ {c} : Frame(d)
    <2>1. \A d \in Calls, f \in Files : <<d, f>> \in Tokens
      BY DEF Tokens
    <2> QED
      BY <1>0, <1>3, <1>4, <2>1 DEF Frame
  <1>8. EditsTyped'
    BY <1>0, <1>3, <1>4 DEF EditsTyped
  <1>9. SnapInv'
    BY <1>0, <1>3 DEF EditsInv, SnapInv, EveryWriteUndoable, MarkedWasRestored, Loadable
  <1> QED
    BY <1>6, <1>7, <1>8, <1>9, OwnStepKeeps

LEMMA KillServerStep ==
  ASSUME EditsInv, KillServer
  PROVE  EditsInv'
  <1> DEFINE halfWritten == {<<c, call[c].path>> : c \in {d \in Calls : IsAt(d, "meta")}}
                              \cup {call[c].token : c \in {d \in Calls : IsAt(d, "mark")}}
  <1>0. EditsTyped /\ SnapInv /\ UNCHANGED <<file, given, written, replaced, overtaken, restored, saves>>
    BY DEF EditsInv, KillServer
  <1>1. PICK ts \in SUBSET halfWritten :
          snap' = [t \in Tokens |-> IF t \in ts THEN [snap[t] EXCEPT !.meta = "torn"] ELSE snap[t]]
    BY DEF KillServer
  <1>2. \A t \in ts \cap Tokens : replaced[t] = NoContent \/ t \in restored
    <2>1. \A c \in Calls : /\ call[c].at = "meta" => replaced[<<c, call[c].path>>] = NoContent
                           /\ call[c].at = "mark" => call[c].token \in restored
      BY DEF EditsInv, CallInv, Editing, Fresh
    <2> QED
      BY <2>1 DEF IsAt
  <1>3. \A t \in ts, d \in Calls, f \in Files : t = <<d, f>> =>
          t \in given \/ call[d].at = "meta"
    <2>1. \A c \in Calls : call[c].at = "mark" => call[c].token \in given
      BY DEF EditsInv, CallInv
    <2> QED
      BY <2>1 DEF IsAt
  <1> HIDE DEF halfWritten
  <1>4. \A t \in Tokens : /\ snap'[t] \in SnapRecords /\ snap'[t].content = snap[t].content
                          /\ t \notin ts => snap'[t] = snap[t]
                          /\ t \in ts => snap'[t].meta = "torn"
    <2> TAKE t \in Tokens
    <2> PICK old \in SnapRecords : old = snap[t]
      BY <1>0 DEF EditsTyped
    <2>1. [old EXCEPT !.meta = "torn"] \in SnapRecords
          /\ [old EXCEPT !.meta = "torn"].content = old.content
          /\ [old EXCEPT !.meta = "torn"].meta = "torn"
      BY DEF SnapRecords
    <2> QED
      BY <1>1, <2>1
  <1>5. SnapInv'
    BY <1>0, <1>2, <1>4 DEF SnapInv, EveryWriteUndoable, MarkedWasRestored, Loadable
  <1>6. call' = [c \in Calls |-> IF call[c].at \in {"new", "done"} THEN call[c] ELSE Ended("killed")]
    BY DEF KillServer
  <1>7. call' \in [Calls -> CallRecords]
    BY <1>0, <1>6, NewCallType DEF EditsTyped
  <1>8. snap' \in [Tokens -> SnapRecords]
    BY <1>1, <1>4
  <1>9. EditsTyped'
    BY <1>0, <1>4, <1>7, <1>8 DEF EditsTyped
  <1>10. ASSUME NEW d \in Calls PROVE CallInv(d)'
    <2>1. CASE call[d].at \in {"new", "done"}
      <3>1. call'[d] = call[d] /\ \A f \in Files : <<d, f>> \in Tokens
        BY <1>6, <2>1 DEF Tokens
      <3>2. Frame(d)
        BY <1>0, <1>3, <1>4, <2>1, <3>1 DEF Frame
      <3> QED
        BY <3>2, FrameKeeps
    <2>2. CASE call[d].at \notin {"new", "done"}
      <3>1. call'[d].at = "killed" /\ call'[d].tokens = {}
        BY <1>6, <2>2 DEF Ended, NewCall
      <3> QED
        BY <3>1 DEF CallInv, Editing
    <2> QED
      BY <2>1, <2>2
  <1> QED
    BY <1>5, <1>9, <1>10 DEF EditsInv

LEMMA DeveloperStep ==
  ASSUME EditsInv, NEW f \in Files, NEW v \in Held, DeveloperSaves(f, v)
  PROVE  EditsInv'
  <1>1. /\ EditsTyped /\ saves < MaxSaves /\ saves' = saves + 1 /\ file' = [file EXCEPT ![f] = v]
        /\ call' = Disturbed(f) /\ UNCHANGED <<snap, given, written, replaced, overtaken, restored>>
    BY DEF EditsInv, DeveloperSaves
  <1>2. file' \in [Files -> Held] /\ \A g \in Files \ {f} : file'[g] = file[g]
    BY <1>1 DEF EditsTyped
  <1>3. saves' \in 0..MaxSaves
    BY <1>1, EditsAssumption DEF EditsTyped
  <1>4. EditsTyped'
    BY <1>1, <1>2, <1>3, DisturbedIs DEF EditsTyped
  <1>5. SnapInv'
    BY <1>1 DEF EditsInv, SnapInv, EveryWriteUndoable, MarkedWasRestored, Loadable
  <1>6. ASSUME NEW d \in Calls PROVE CallInv(d)'
    <2>1. call[d].path \in Files
      BY <1>1 DEF EditsTyped, CallRecords
    <2>2. Frame(d)
      BY <1>1, <1>2, <2>1, DisturbedIs DEF Frame
    <2> QED
      BY <2>2, FrameKeeps
  <1> QED
    BY <1>4, <1>5, <1>6 DEF EditsInv

LEMMA EditsStep == EditsInv /\ [EditsNext]_editVars => EditsInv'
  <1> SUFFICES ASSUME EditsInv, [EditsNext]_editVars PROVE EditsInv'
    OBVIOUS
  <1>1. ASSUME NEW c \in Calls, EditTool(c) PROVE EditsInv'
    <2>1. CASE \E f \in Files, new \in Contents :
                 WriteWorkspaceFile(c, f, new) \/ PatchFile(c, f, new)
      BY <2>1, FirstSteps
    <2>2. CASE \/ \E plan \in SUBSET Files : PlanRename(c, plan)
               \/ \E f \in Files, new \in Contents \ Occurs : RenameInFile(c, f, new)
               \/ RenameDone(c)
      BY <2>2, RenameSteps
    <2>3. CASE SnapContent(c) \/ SnapMeta(c)
      BY <2>3, SnapshotSteps
    <2>4. CASE WriteTarget(c)
      BY <2>4, WriteTargetStep
    <2> QED
      BY <1>1, <2>1, <2>2, <2>3, <2>4 DEF EditTool
  <1>2. ASSUME NEW c \in Calls, RevertTool(c) PROVE EditsInv'
    BY <1>2, LoadSnapshotStep, RestoreContentStep, MarkStep DEF RevertTool
  <1>3. CASE KillServer
    BY <1>3, KillServerStep
  <1>4. CASE \E f \in Files, v \in Held : DeveloperSaves(f, v)
    BY <1>4, DeveloperStep
  <1>5. CASE UNCHANGED editVars
    <2>1. \A d \in Calls : Frame(d)
      BY <1>5 DEF editVars, Frame
    <2>2. EditsTyped' /\ SnapInv'
      BY <1>5 DEF editVars, EditsInv, EditsTyped, SnapInv, EveryWriteUndoable,
                  MarkedWasRestored, Loadable
    <2> QED
      BY <2>1, <2>2, FrameKeeps DEF EditsInv
  <1> QED
    BY <1>1, <1>2, <1>3, <1>4, <1>5 DEF EditsNext

\* A snapshot being put back exists and was given to the client.
THEOREM EditsAreTyped == EditsSpec => []EditsTypeOK
  <1>1. EditsInv => EditsTypeOK
    BY DEF EditsInv, EditsTyped, EditsTypeOK, CallInv, CallRecords, SnapRecords, Spots, Editing
  <1> QED
    BY <1>1, EditsInitially, EditsStep, PTL DEF EditsSpec

\* However calls, reverts, kills and the developer's saves interleave: what a
\* tool replaced after reading it undisturbed can be put back.
THEOREM WritesAreUndoable == EditsSpec => []EveryWriteUndoable
  <1>1. EditsInv => EveryWriteUndoable
    BY DEF EditsInv, SnapInv
  <1> QED
    BY <1>1, EditsInitially, EditsStep, PTL DEF EditsSpec

\* However calls and the developer interleave: the tokens answered are of files
\* that were written, and those whose write found a file in place, if nobody had
\* written them since the call read them.
THEOREM TokensMatch == EditsSpec => []TokensMatchWrites
  <1>1. EditsInv => TokensMatchWrites
    BY DEF EditsInv, CallInv, TokensMatchWrites, Matches
  <1> QED
    BY <1>1, EditsInitially, EditsStep, PTL DEF EditsSpec

\* No marker without a file put back.
THEOREM MarkersFollow == EditsSpec => []MarkedWasRestored
  <1>1. EditsInv => MarkedWasRestored
    BY DEF EditsInv, SnapInv
  <1> QED
    BY <1>1, EditsInitially, EditsStep, PTL DEF EditsSpec
==============================================================================
