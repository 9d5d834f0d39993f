------------------------------ MODULE Registry ------------------------------
(***************************************************************************)
(* internal/registry: ~/.codehelper/registry.json, the repositories indexed *)
(* on this machine and the groups that link them, and the processes that   *)
(* load, change and save it without a lock: CLI commands (analyze, projects *)
(* group set, group remove, forget, repair), the watch daemon of a         *)
(* repository after each run, and MCP sessions, which load it once, keep   *)
(* it in memory and save that copy when they register their workspace.     *)
(*                                                                         *)
(* A save replaces the file in one step here; JsonFile looks inside it.    *)
(* Names, paths and import roots are data nothing below depends on.        *)
(***************************************************************************)
EXTENDS Integers

CONSTANTS
  Repos,       \* repository names
  Groups,      \* workspace group ids
  Sessions,    \* long-lived MCP servers
  Commands,    \* CLI processes, one after another
  Daemons,     \* watch daemons
  RepoOf,      \* the repository of each session and daemon
  LastHead,    \* bound on the commits of each repository
  Absent       \* no entry, no group, no file

ASSUME RegistryAssumption ==
  /\ Sessions \cap Commands = {} /\ Sessions \cap Daemons = {} /\ Commands \cap Daemons = {}
  /\ RepoOf \in [Sessions \cup Daemons -> Repos]
  /\ LastHead \in [Repos -> Nat \ {0}]
  /\ \A members \in SUBSET Repos : Absent # members

Users == Sessions \cup Commands \cup Daemons
Entry == [commit : Nat \ {0}, groups : SUBSET Groups]
Registries == [entries : [Repos -> Entry \cup {Absent}],
               groups : [Groups -> (SUBSET Repos) \cup {Absent}]]
EmptyRegistry == [entries |-> [r \in Repos |-> Absent], groups |-> [g \in Groups |-> Absent]]

VARIABLES
  disk,    \* registry.json, which is Absent until somebody saves it
  mem,     \* the copy of each process
  changed, \* the copy has been changed and is to be saved
  head     \* HEAD of each repository, which is also what its index is of

registryVars == <<disk, mem, changed, head>>

RegistryTypeOK ==
  /\ disk \in Registries \cup {Absent}
  /\ mem \in [Users -> Registries]
  /\ changed \in [Users -> BOOLEAN]
  /\ head \in [Repos -> Nat \ {0}]

\* A session has loaded the registry when it starts.
RegistryInit ==
  /\ disk = Absent
  /\ mem = [u \in Users |-> EmptyRegistry]
  /\ changed = [u \in Users |-> FALSE]
  /\ head = [r \in Repos |-> 1]

Registered(reg, r) == reg.entries[r] # Absent
IDsOf(reg, r) == IF Registered(reg, r) THEN reg.entries[r].groups ELSE {}
------------------------------------------------------------------------------
(* The operations on a copy *)

\* Mutant: an existing entry is left alone.
UpsertOnce(reg, r, commit) ==
  IF Registered(reg, r) THEN reg
  ELSE [reg EXCEPT !.entries[r] = [commit |-> commit, groups |-> {}]]

\* Upsert keeps the GroupIDs of the previous entry in this copy.
Upsert(reg, r, commit) ==
  [reg EXCEPT !.entries[r] = [commit |-> commit, groups |-> IDsOf(reg, r)]]

Remove(reg, r) == [reg EXCEPT !.entries[r] = Absent]

\* addGroupIDLocked for the members, removeGroupIDLocked for the others: only
\* entries that exist carry ids.
WithMembers(reg, g, members, removed) ==
  [r \in Repos |->
     IF ~Registered(reg, r) THEN Absent
     ELSE [reg.entries[r] EXCEPT !.groups =
             IF r \in members THEN @ \cup {g} ELSE IF r \in removed THEN @ \ {g} ELSE @]]

MembersOf(reg, g) == IF reg.groups[g] = Absent THEN {} ELSE reg.groups[g]

\* Mutant: entries that were members before keep the id.
UpsertGroupAdding(reg, g, members) ==
  [entries |-> WithMembers(reg, g, members, {}),
   groups |-> [reg.groups EXCEPT ![g] = members]]

UpsertGroup(reg, g, members) ==
  [entries |-> WithMembers(reg, g, members, MembersOf(reg, g)),
   groups |-> [reg.groups EXCEPT ![g] = members]]

RemoveGroup(reg, g) ==
  [entries |-> WithMembers(reg, g, {}, MembersOf(reg, g)),
   groups |-> [reg.groups EXCEPT ![g] = Absent]]

\* loadFromPath: a missing file leaves the copy as it is; "groups" is left out of
\* the file when there are none, and a missing key leaves the groups as they are.
Reloaded(old, new) ==
  IF new = Absent THEN old
  ELSE [entries |-> new.entries,
        groups |-> IF \A g \in Groups : new.groups[g] = Absent THEN old.groups
                   ELSE new.groups]
------------------------------------------------------------------------------
(* The processes *)

\* A session refreshes its copy when a name does not resolve, also while another
\* of its handlers has changed the copy and not yet saved it.
Reload(u) ==
  /\ u \in Sessions
  /\ mem' = [mem EXCEPT ![u] = Reloaded(@, disk)]
  /\ UNCHANGED <<disk, changed, head>>

\* The copy an operation starts from: commands and daemons load the file first.
\* Nothing outside the process depends on when its copy changes in memory, so
\* loading and changing are one step; saving comes any time after.
Copy(u) == IF u \in Sessions THEN mem[u] ELSE Reloaded(EmptyRegistry, disk)

Change(u, reg) ==
  /\ ~changed[u]
  /\ mem' = [mem EXCEPT ![u] = reg]
  /\ changed' = [changed EXCEPT ![u] = TRUE]
  /\ UNCHANGED <<disk, head>>

Analyze(u, r) == u \in Commands /\ Change(u, Upsert(Copy(u), r, head[r]))
AfterRun(u) == u \in Daemons /\ Change(u, Upsert(Copy(u), RepoOf[u], head[RepoOf[u]]))
RegisterWorkspace(u) ==
  u \in Sessions /\ Change(u, Upsert(Copy(u), RepoOf[u], head[RepoOf[u]]))

\* forget, prune, and repair, which runs the indexer for every repository
\* between loading and saving.
Forget(u, r) ==
  u \in Commands /\ Registered(Copy(u), r) /\ Change(u, Remove(Copy(u), r))

SetGroup(u, g, members) ==
  /\ u \in Commands /\ members # {}
  /\ \A r \in members : Registered(Copy(u), r)
  /\ Change(u, UpsertGroup(Copy(u), g, members))

DropGroup(u, g) ==
  u \in Commands /\ Copy(u).groups[g] # Absent /\ Change(u, RemoveGroup(Copy(u), g))

\* What becomes of the copy of u: only a session keeps it.
Forgotten(u) == IF u \in Sessions THEN mem ELSE [mem EXCEPT ![u] = EmptyRegistry]

Save(u) ==
  /\ changed[u]
  /\ disk' = mem[u]
  /\ changed' = [changed EXCEPT ![u] = FALSE]
  /\ mem' = Forgotten(u)
  /\ UNCHANGED head

\* Save fails, or the process is killed before it; another takes its place.
SaveFails(u) ==
  /\ changed[u]
  /\ changed' = [changed EXCEPT ![u] = FALSE]
  /\ mem' = Forgotten(u)
  /\ UNCHANGED <<disk, head>>

CommitTo(r) ==
  /\ head[r] < LastHead[r]
  /\ head' = [head EXCEPT ![r] = @ + 1]
  /\ UNCHANGED <<disk, mem, changed>>

CommandStep(u) ==
  \/ \E r \in Repos : Analyze(u, r) \/ Forget(u, r)
  \/ \E g \in Groups : DropGroup(u, g) \/ \E ms \in SUBSET Repos : SetGroup(u, g, ms)

RegistryNext ==
  \/ \E u \in Users : \/ Save(u) \/ SaveFails(u) \/ Reload(u)
                      \/ AfterRun(u) \/ RegisterWorkspace(u)
                      \/ CommandStep(u)
  \/ \E r \in Repos : CommitTo(r)

\* A daemon whose files keep changing keeps running the indexer, and its saves
\* do not fail for ever.
DaemonFairness ==
  \A u \in Daemons : WF_registryVars(AfterRun(u)) /\ SF_registryVars(Save(u))

RegistrySpec == RegistryInit /\ [][RegistryNext]_registryVars /\ DaemonFairness
------------------------------------------------------------------------------
(* Properties *)

\* The two copies of the membership relation agree in the direction
\* SharesWorkspaceGroup relies on: a GroupID of an entry names a group that
\* lists the entry, in the file and in every copy, whoever saved over whom.
GroupIDsAreMembers ==
  \A reg \in ({disk} \ {Absent}) \cup {mem[u] : u \in Users} :
    \A r \in Repos : \A g \in IDsOf(reg, r) : r \in MembersOf(reg, g)

\* Whatever other processes drop or put back, a repository whose daemon keeps
\* indexing is registered again and again with the commit it is indexed at.
RegistrationHeals ==
  \A u \in Daemons :
    []<>(/\ disk # Absent /\ Registered(disk, RepoOf[u])
         /\ disk.entries[RepoOf[u]].commit = head[RepoOf[u]])
=============================================================================
