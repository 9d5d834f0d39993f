--------------------------- MODULE RegistryProofs ----------------------------
(***************************************************************************)
(* Theorems about Registry for every set of repositories, groups and       *)
(* processes.                                                              *)
(***************************************************************************)
EXTENDS Registry, TLAPS

\* In one copy, a GroupID of an entry names a group that lists the entry.
Consistent(reg) == \A r \in Repos : \A g \in IDsOf(reg, r) : r \in MembersOf(reg, g)

Copies == ({disk} \ {Absent}) \cup {mem[u] : u \in Users}

\* Each operation maps well typed copies to well typed copies, and consistent
\* ones to consistent ones.
LEMMA UpsertKeeps ==
  ASSUME NEW reg \in Registries, NEW r \in Repos, NEW commit \in Nat \ {0}, Consistent(reg)
  PROVE  Upsert(reg, r, commit) \in Registries /\ Consistent(Upsert(reg, r, commit))
  <1> DEFINE new == Upsert(reg, r, commit)
  <1>1. IDsOf(reg, r) \in SUBSET Groups
    BY DEF IDsOf, Registered, Registries, Entry
  <1>2. [commit |-> commit, groups |-> IDsOf(reg, r)] \in Entry
    BY <1>1 DEF Entry
  <1>3. new \in Registries
    BY <1>2 DEF Upsert, Registries
  <1>4. \A s \in Repos : IDsOf(new, s) \subseteq IDsOf(reg, s)
    BY DEF Upsert, IDsOf, Registered, Registries
  <1>5. \A g : MembersOf(new, g) = MembersOf(reg, g)
    BY DEF Upsert, MembersOf, Registries
  <1> QED
    BY <1>3, <1>4, <1>5 DEF Consistent

LEMMA RemoveKeeps ==
  ASSUME NEW reg \in Registries, NEW r \in Repos, Consistent(reg)
  PROVE  Remove(reg, r) \in Registries /\ Consistent(Remove(reg, r))
  <1> DEFINE new == Remove(reg, r)
  <1>1. new \in Registries
    BY DEF Remove, Registries
  <1>2. \A s \in Repos : IDsOf(new, s) \subseteq IDsOf(reg, s)
    BY DEF Remove, IDsOf, Registered, Registries
  <1>3. \A g : MembersOf(new, g) = MembersOf(reg, g)
    BY DEF Remove, MembersOf, Registries
  <1> QED
    BY <1>1, <1>2, <1>3 DEF Consistent

\* What addGroupIDLocked and removeGroupIDLocked leave of the entries.
LEMMA WithMembersType ==
  ASSUME NEW reg \in Registries, NEW g \in Groups, NEW members, NEW removed
  PROVE  WithMembers(reg, g, members, removed) \in [Repos -> Entry \cup {Absent}]
  <1> SUFFICES ASSUME NEW r \in Repos, Registered(reg, r)
               PROVE  [reg.entries[r] EXCEPT !.groups =
                         IF r \in members THEN @ \cup {g}
                         ELSE IF r \in removed THEN @ \ {g} ELSE @] \in Entry
    BY DEF WithMembers
  <1>1. reg.entries[r] \in Entry
    BY DEF Registered, Registries
  <1> QED
    BY <1>1 DEF Entry

LEMMA WithMembersIDs ==
  ASSUME NEW reg \in Registries, NEW g \in Groups, NEW members, NEW removed,
         NEW new \in Registries, new.entries = WithMembers(reg, g, members, removed),
         NEW r \in Repos
  PROVE  /\ \A h \in IDsOf(new, r) : h # g => h \in IDsOf(reg, r)
         /\ g \in IDsOf(new, r) => r \in members \/ (g \in IDsOf(reg, r) /\ r \notin removed)
  <1>1. CASE ~Registered(reg, r)
    BY <1>1 DEF WithMembers, IDsOf, Registered
  <1>2. CASE Registered(reg, r)
    <2>1. reg.entries[r] \in Entry
      BY <1>2 DEF Registered, Registries
    <2>2. IDsOf(reg, r) = reg.entries[r].groups
      BY <1>2 DEF IDsOf
    <2>3. new.entries[r] = [reg.entries[r] EXCEPT !.groups =
                              IF r \in members THEN @ \cup {g}
                              ELSE IF r \in removed THEN @ \ {g} ELSE @]
      BY <1>2 DEF WithMembers
    <2>4. new.entries[r].groups = IF r \in members THEN reg.entries[r].groups \cup {g}
                                  ELSE IF r \in removed THEN reg.entries[r].groups \ {g}
                                  ELSE reg.entries[r].groups
      BY <2>1, <2>3 DEF Entry
    <2> QED
      BY <2>2, <2>4 DEF IDsOf
  <1> QED
    BY <1>1, <1>2

LEMMA UpsertGroupKeeps ==
  ASSUME NEW reg \in Registries, NEW g \in Groups, NEW members \in SUBSET Repos, Consistent(reg)
  PROVE  /\ UpsertGroup(reg, g, members) \in Registries
         /\ Consistent(UpsertGroup(reg, g, members))
  <1> DEFINE new == UpsertGroup(reg, g, members)
  <1>1. new \in Registries
    BY WithMembersType DEF UpsertGroup, Registries
  <1>2. \A h \in Groups : MembersOf(new, h) = IF h = g THEN members ELSE MembersOf(reg, h)
    BY RegistryAssumption DEF UpsertGroup, MembersOf, Registries
  <1>3. new.entries = WithMembers(reg, g, members, MembersOf(reg, g))
    BY DEF UpsertGroup
  <1> SUFFICES ASSUME NEW r \in Repos, NEW h \in IDsOf(new, r)
               PROVE  r \in MembersOf(new, h)
    BY <1>1 DEF Consistent
  <1>4. h \in Groups
    BY <1>1 DEF IDsOf, Registered, Registries, Entry
  <1> QED
    BY <1>1, <1>2, <1>3, <1>4, WithMembersIDs DEF Consistent

LEMMA RemoveGroupKeeps ==
  ASSUME NEW reg \in Registries, NEW g \in Groups, Consistent(reg)
  PROVE  RemoveGroup(reg, g) \in Registries /\ Consistent(RemoveGroup(reg, g))
  <1> DEFINE new == RemoveGroup(reg, g)
  <1>1. new \in Registries
    <2>1. WithMembers(reg, g, {}, MembersOf(reg, g)) \in [Repos -> Entry \cup {Absent}]
      BY WithMembersType
    <2>2. [reg.groups EXCEPT ![g] = Absent] \in [Groups -> (SUBSET Repos) \cup {Absent}]
      BY DEF Registries
    <2> QED
      BY <2>1, <2>2 DEF RemoveGroup, Registries
  <1>2. \A h \in Groups : h # g => MembersOf(new, h) = MembersOf(reg, h)
    BY DEF RemoveGroup, MembersOf, Registries
  <1>3. new.entries = WithMembers(reg, g, {}, MembersOf(reg, g))
    BY DEF RemoveGroup
  <1> SUFFICES ASSUME NEW r \in Repos, NEW h \in IDsOf(new, r)
               PROVE  r \in MembersOf(new, h)
    BY <1>1 DEF Consistent
  <1>4. h \in Groups
    BY <1>1 DEF IDsOf, Registered, Registries, Entry
  <1> QED
    BY <1>1, <1>2, <1>3, <1>4, WithMembersIDs DEF Consistent

\* A reload that keeps the old groups has found no group in the file, so no
\* entry of the file carries an id.
LEMMA ReloadedKeeps ==
  ASSUME NEW old \in Registries, Consistent(old),
         NEW new, new # Absent => new \in Registries /\ Consistent(new)
  PROVE  Reloaded(old, new) \in Registries /\ Consistent(Reloaded(old, new))
  <1>0. CASE new = Absent
    BY <1>0 DEF Reloaded
  <1> SUFFICES ASSUME new # Absent
               PROVE  Reloaded(old, new) \in Registries /\ Consistent(Reloaded(old, new))
    BY <1>0
  <1> DEFINE reg == Reloaded(old, new)
  <1>1. reg \in Registries
    BY DEF Reloaded, Registries
  <1>2. \A r \in Repos : IDsOf(reg, r) = IDsOf(new, r)
    BY DEF Reloaded, IDsOf, Registered
  <1>3. CASE \A g \in Groups : new.groups[g] = Absent
    <2>1. \A r \in Repos : IDsOf(new, r) \subseteq Groups
      BY DEF IDsOf, Registered, Registries, Entry
    <2>2. \A g \in Groups : MembersOf(new, g) = {}
      BY <1>3 DEF MembersOf
    <2>3. \A r \in Repos : IDsOf(new, r) = {}
      BY <2>1, <2>2 DEF Consistent
    <2> QED
      BY <1>1, <1>2, <2>3 DEF Consistent
  <1>4. CASE ~(\A g \in Groups : new.groups[g] = Absent)
    <2>1. \A g : MembersOf(reg, g) = MembersOf(new, g)
      BY <1>4 DEF Reloaded, MembersOf
    <2> QED
      BY <1>1, <1>2, <2>1 DEF Consistent
  <1> QED
    BY <1>3, <1>4

LEMMA EmptyIsConsistent == EmptyRegistry \in Registries /\ Consistent(EmptyRegistry)
  <1>1. EmptyRegistry \in Registries
    BY DEF EmptyRegistry, Registries
  <1>2. \A r \in Repos : IDsOf(EmptyRegistry, r) = {}
    BY DEF EmptyRegistry, IDsOf, Registered
  <1> QED
    BY <1>1, <1>2 DEF Consistent

------------------------------------------------------------------------------

RegistryInv == RegistryTypeOK /\ \A reg \in Copies : Consistent(reg)

LEMMA RegistryInitially == RegistryInit => RegistryInv
  BY EmptyIsConsistent DEF RegistryInit, RegistryInv, RegistryTypeOK, Copies

LEMMA CopyKeeps ==
  ASSUME RegistryInv, NEW u \in Users
  PROVE  Copy(u) \in Registries /\ Consistent(Copy(u))
  BY EmptyIsConsistent, ReloadedKeeps DEF RegistryInv, RegistryTypeOK, Copies, Copy

\* A step that gives one process another consistent copy.
LEMMA ChangeKeeps ==
  ASSUME RegistryInv, NEW u \in Users, NEW reg \in Registries, Consistent(reg), Change(u, reg)
  PROVE  RegistryInv'
  BY DEF RegistryInv, RegistryTypeOK, Copies, Change, Consistent, IDsOf, MembersOf, Registered

LEMMA ForgottenKeeps ==
  ASSUME RegistryInv, NEW u \in Users
  PROVE  /\ Forgotten(u) \in [Users -> Registries]
         /\ \A v \in Users : Consistent(Forgotten(u)[v])
  BY EmptyIsConsistent DEF RegistryInv, RegistryTypeOK, Copies, Forgotten

\* Every step keeps types and consistency; one named step per action.
LEMMA RegistryStep == RegistryInv /\ [RegistryNext]_registryVars => RegistryInv'
  <1> SUFFICES ASSUME RegistryInv, [RegistryNext]_registryVars PROVE RegistryInv'
    OBVIOUS
  <1>1. ASSUME NEW u \in Users, Save(u) PROVE RegistryInv'
    <2>1. disk' \in Registries /\ Consistent(disk')
      BY <1>1 DEF Save, RegistryInv, RegistryTypeOK, Copies
    <2>2. mem' \in [Users -> Registries] /\ \A v \in Users : Consistent(mem'[v])
      BY <1>1, ForgottenKeeps DEF Save
    <2>3. changed' \in [Users -> BOOLEAN] /\ head' \in [Repos -> Nat \ {0}]
      BY <1>1 DEF Save, RegistryInv, RegistryTypeOK
    <2> QED
      BY <2>1, <2>2, <2>3
         DEF RegistryInv, RegistryTypeOK, Copies, Consistent, IDsOf, MembersOf, Registered
  <1>2. ASSUME NEW u \in Users, SaveFails(u) PROVE RegistryInv'
    BY <1>2, ForgottenKeeps
       DEF SaveFails, RegistryInv, RegistryTypeOK, Copies, Consistent, IDsOf, MembersOf, Registered
  <1>3. ASSUME NEW u \in Users, Reload(u) PROVE RegistryInv'
    <2>1. Reloaded(mem[u], disk) \in Registries /\ Consistent(Reloaded(mem[u], disk))
      BY ReloadedKeeps DEF RegistryInv, RegistryTypeOK, Copies
    <2> QED
      BY <1>3, <2>1
         DEF Reload, RegistryInv, RegistryTypeOK, Copies, Consistent, IDsOf, MembersOf, Registered
  <1>4. ASSUME NEW u \in Users, AfterRun(u) \/ RegisterWorkspace(u) PROVE RegistryInv'
    <2>1. RepoOf[u] \in Repos /\ head[RepoOf[u]] \in Nat \ {0}
      BY <1>4, RegistryAssumption DEF RegistryInv, RegistryTypeOK, AfterRun, RegisterWorkspace
    <2> QED
      BY <1>4, <2>1, CopyKeeps, UpsertKeeps, ChangeKeeps DEF AfterRun, RegisterWorkspace
  <1>5. ASSUME NEW u \in Users, CommandStep(u) PROVE RegistryInv'
    <2>1. ASSUME NEW r \in Repos, Analyze(u, r) PROVE RegistryInv'
      <3>1. head[r] \in Nat \ {0}
        BY DEF RegistryInv, RegistryTypeOK
      <3> QED
        BY <2>1, <3>1, CopyKeeps, UpsertKeeps, ChangeKeeps DEF Analyze
    <2>2. ASSUME NEW r \in Repos, Forget(u, r) PROVE RegistryInv'
      BY <2>2, CopyKeeps, RemoveKeeps, ChangeKeeps DEF Forget
    <2>3. ASSUME NEW g \in Groups, DropGroup(u, g) PROVE RegistryInv'
      BY <2>3, CopyKeeps, RemoveGroupKeeps, ChangeKeeps DEF DropGroup
    <2>4. ASSUME NEW g \in Groups, NEW ms \in SUBSET Repos, SetGroup(u, g, ms) PROVE RegistryInv'
      BY <2>4, CopyKeeps, UpsertGroupKeeps, ChangeKeeps DEF SetGroup
    <2> QED
      BY <1>5, <2>1, <2>2, <2>3, <2>4 DEF CommandStep
  <1>6. ASSUME NEW r \in Repos, CommitTo(r) PROVE RegistryInv'
    BY <1>6
       DEF CommitTo, RegistryInv, RegistryTypeOK, Copies, Consistent, IDsOf, MembersOf, Registered
  <1>7. CASE UNCHANGED registryVars
    BY <1>7
       DEF registryVars, RegistryInv, RegistryTypeOK, Copies, Consistent, IDsOf, MembersOf, Registered
  <1> QED
    BY <1>1, <1>2, <1>3, <1>4, <1>5, <1>6, <1>7 DEF RegistryNext

\* The registry and every copy of it are well typed, whatever number of
\* processes load, change and save it over each other.
THEOREM RegistryIsTyped == RegistrySpec => []RegistryTypeOK
  <1>1. RegistryInv => RegistryTypeOK
    BY DEF RegistryInv
  <1> QED
    BY <1>1, RegistryInitially, RegistryStep, PTL DEF RegistrySpec

\* No lost update, stale session or partial reload makes an entry name a group
\* that does not list it: what SharesWorkspaceGroup reads from GroupIDs is true
\* of the groups in the same copy.
THEOREM GroupsAgree == RegistrySpec => []GroupIDsAreMembers
  <1>1. RegistryInv => GroupIDsAreMembers
    BY DEF RegistryInv, Copies, Consistent, GroupIDsAreMembers
  <1> QED
    BY <1>1, RegistryInitially, RegistryStep, PTL DEF RegistrySpec
=============================================================================
