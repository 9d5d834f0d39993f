----------------------------- MODULE MCServices ------------------------------
(***************************************************************************)
(* Parts that share no state with each other, side by side: a behaviour is *)
(* one of one part, while the others rest in a state that satisfies their  *)
(* properties.                                                             *)
(***************************************************************************)
EXTENDS Edits, Registry, JsonFile, Tasks, Bridge, StoreCache, MCCallGraph

CONSTANTS f1, t1, t2, r1, r2, s1, k1, d1, q1, q2, short, long

VARIABLE part
hostVars == <<part, editVars, registryVars, jsonVars, taskVars, bridgeVars,
             cacheVars, graphVars>>

MCRepoOf == [u \in {s1, d1} |-> IF u = s1 THEN r2 ELSE r1]
MCLastHead == [r \in {r1, r2} |-> IF r = r1 THEN 2 ELSE 1]
MCLength == [d \in {short, long} |-> IF d = short THEN 1 ELSE 2]

\* Parts at rest: one state each.
EditsRest == EditsInit /\ file = [f \in Files |-> NoContent]
RegistryRest ==
  /\ disk = [EmptyRegistry EXCEPT !.entries[r1] = [commit |-> 1, groups |-> {}]]
  /\ mem = [u \in Users |-> EmptyRegistry]
  /\ changed = [u \in Users |-> FALSE]
  /\ head = [r \in Repos |-> 1]
\* A user's plan has its first todo done and its second approved.
ByUser(doc) == doc.todo = <<"complete", "approved">>
TasksStart == TasksInit /\ (task = Planned(1) \/ ByUser(task))
TasksRest == TasksInit /\ task = Planned(1)
BridgeRest ==
  /\ query = [action |-> "hover", id |-> 2, at |-> "ended", result |-> "fallback"]
  /\ pending = {} /\ box = [id \in Ids |-> "empty"]
  /\ stdin = <<>> /\ stdout = <<>>
  /\ server = [wrapped |-> FALSE, alive |-> FALSE, writing |-> NoFrame]
  /\ unanswered = {} /\ noise = 0 /\ clock = "ahead" /\ requested = {} /\ answered = {}
CacheRest == CacheInit /\ dbFile.file = Missing
GraphRest == CallGraphInit /\ sourceOf["user"] # EmptySource /\ sourceOf["other"] # EmptySource
             /\ \A d \in sourceOf["base"].defs : d.line = 1

HostInit ==
  /\ part \in {"edits", "registry", "json", "tasks", "bridge", "cache", "graph"}
  /\ IF part = "edits" THEN EditsInit ELSE EditsRest
  /\ IF part = "registry" THEN RegistryInit ELSE RegistryRest
  /\ JsonInit
  /\ IF part = "tasks" THEN TasksStart ELSE TasksRest
  /\ IF part = "bridge" THEN BridgeInit ELSE BridgeRest
  /\ IF part = "cache" THEN CacheInit ELSE CacheRest
  /\ IF part = "graph" THEN CallGraphInit ELSE GraphRest

\* Tool calls and requests that differ in nothing begin in one order.  A copy of the
\* registry is changed while all others are only by a daemon, whose steps are owed.
\* Users change and debug the first todo, and the last request of a behaviour runs
\* one.
InOrder ==
  /\ part = "edits" =>
       /\ (call[t2].at # "new" => call[t1].at # "new")'
       /\ saves' # saves => file'[f1] # file[f1]
  /\ part = "registry" =>
       /\ (\E u \in Users : ~changed'[u]) \/ (\E u \in Daemons : changed'[u] # changed[u])
       /\ changed'[k1] /\ ~changed[k1] =>
            head[r1] = 1 /\ \A g \in Groups : mem'[k1].groups[g] # {r2}
  /\ part = "tasks" =>
       /\ request[q2].kind = "idle" /\ request'[q2].kind # "idle" => request[q1].kind # "idle"
       /\ \A q \in Requests : request'[q].kind \in {"patch", "debug"} => request'[q].todo = 1
       /\ issued # issued' /\ issued' = MaxRequests =>
            \E q \in Requests : request'[q] # request[q] /\ request'[q].kind = "execute"
       /\ plans' # plans => \/ asked' = asked /\ verified' = verified
                            \/ ByUser(task') /\ task.tries[2] = 0

HostNext ==
  /\ part' = part
  /\ \/ /\ part = "edits" /\ EditsNext
        /\ UNCHANGED <<registryVars, jsonVars, taskVars, bridgeVars, cacheVars, graphVars>>
     \/ /\ part = "registry" /\ RegistryNext
        /\ UNCHANGED <<editVars, jsonVars, taskVars, bridgeVars, cacheVars, graphVars>>
     \/ /\ part = "json" /\ JsonNext
        /\ UNCHANGED <<editVars, registryVars, taskVars, bridgeVars, cacheVars, graphVars>>
     \/ /\ part = "tasks" /\ TasksNext
        /\ UNCHANGED <<editVars, registryVars, jsonVars, bridgeVars, cacheVars, graphVars>>
     \/ /\ part = "bridge" /\ BridgeNext
        /\ UNCHANGED <<editVars, registryVars, jsonVars, taskVars, cacheVars, graphVars>>
     \/ /\ part = "cache" /\ CacheNext
        /\ UNCHANGED <<editVars, registryVars, jsonVars, taskVars, bridgeVars, graphVars>>
     \/ /\ part = "graph" /\ CallGraphNext
        /\ UNCHANGED <<editVars, registryVars, jsonVars, taskVars, bridgeVars, cacheVars>>
  /\ InOrder

\* DaemonFairness and BridgeFairness, of the part that moves.
HostFairness ==
  /\ \A u \in Daemons : /\ WF_registryVars(part = "registry" /\ AfterRun(u))
                        /\ SF_registryVars(part = "registry" /\ Save(u))
  /\ WF_bridgeVars(part = "bridge" /\ ClientStep)
  /\ WF_bridgeVars(part = "bridge" /\ Deadline /\ ~At("ended"))
  /\ WF_bridgeVars(part = "bridge" /\ KillServerProcess /\ ~At("ended"))

HostSpec == HostInit /\ [][HostNext]_hostVars /\ HostFairness
=============================================================================
