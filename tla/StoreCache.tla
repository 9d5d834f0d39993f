----------------------------- MODULE StoreCache -----------------------------
(***************************************************************************)
(* internal/graph/store_cache.go: the handles on graph.db that the MCP     *)
(* server shares between its tool calls.  OpenCached takes the token of    *)
(* the file (mtime and size), and under the mutex returns the cached       *)
(* handle if its token is the same; otherwise it opens the file, hands the *)
(* old handle to a timer that closes it later, and caches the new one with *)
(* the token the file has by then.                                         *)
(*                                                                         *)
(* SQLite is outside src/.  Its connections stay with the file they were   *)
(* opened on when the name goes to another; opening creates a missing      *)
(* file; a checkpoint changes the token and not the file.                  *)
(***************************************************************************)
EXTENDS Integers

CONSTANTS
  Callers,     \* tool calls at a time
  MaxHandles,  \* bound on the handles opened
  MaxFiles,    \* bound on the files that bear the name, one after another
  MaxTokens,   \* bound on the changes of mtime and size
  RetireDelay  \* ticks until a superseded handle is closed

ASSUME StoreCacheAssumption ==
  /\ MaxHandles \in Nat \ {0} /\ MaxFiles \in Nat \ {0} /\ MaxTokens \in Nat \ {0}
  /\ RetireDelay \in Nat

Handles == 1..MaxHandles
NoHandle == 0
Missing == 0

VARIABLES
  dbFile,   \* the file that bears the name, its token, and how many there were of each
  handle,   \* each handle: its state, its file, its age since it was retired
  cache,    \* storeCache[dbPath]: a handle and a token
  caller,   \* each tool call: where it is, token and file it saw, its handle, and the
            \* ticks it has had it, counted up to RetireDelay
  mutex,    \* the caller that holds storeCacheMu
  swapped   \* ghost: the file was replaced between an open and the token read after it

cacheVars == <<dbFile, handle, cache, caller, mutex, swapped>>

\* Files and tokens are numbered in the order they appear; token 0 is "missing".
DBTokens == 0..MaxTokens
IdleCaller == [at |-> "idle", token |-> 0, saw |-> 0, handle |-> NoHandle, ticks |-> 0]
Free == [held |-> FALSE]
HeldBy(c) == [held |-> TRUE, by |-> c]

CacheTypeOK ==
  /\ dbFile \in [file : 0..MaxFiles, token : DBTokens, files : 0..MaxFiles, tokens : DBTokens]
  /\ handle \in [Handles -> [state : {"unopened", "open", "retired", "closed"},
                             file : 0..MaxFiles, age : 0..RetireDelay]]
  /\ cache \in [handle : Handles \cup {NoHandle}, token : DBTokens]
  /\ caller \in [Callers -> [at : {"idle", "stat", "opening", "opened", "using"},
                             token : DBTokens, saw : 0..MaxFiles,
                             handle : Handles \cup {NoHandle}, ticks : 0..RetireDelay]]
  /\ mutex \in {Free} \cup {HeldBy(c) : c \in Callers}
  /\ swapped \in BOOLEAN
  /\ \A c \in Callers : caller[c].at \in {"opening", "opened"} <=> mutex = HeldBy(c)
  /\ \A c \in Callers : caller[c].at \in {"opened", "using"} => caller[c].handle # NoHandle

CacheInit ==
  /\ dbFile \in {[file |-> 0, token |-> 0, files |-> 0, tokens |-> 0],
                 [file |-> 1, token |-> 1, files |-> 1, tokens |-> 1]}
  /\ handle = [h \in Handles |-> [state |-> "unopened", file |-> 0, age |-> 0]]
  /\ cache = [handle |-> NoHandle, token |-> 0]
  /\ caller = [c \in Callers |-> IdleCaller]
  /\ mutex = Free /\ swapped = FALSE
------------------------------------------------------------------------------
(* The file, which other processes replace, remove and checkpoint *)

NewFile == [file |-> dbFile.files + 1, token |-> dbFile.tokens + 1,
            files |-> dbFile.files + 1, tokens |-> dbFile.tokens + 1]
RoomForFile == dbFile.files < MaxFiles /\ dbFile.tokens < MaxTokens

ReplaceFile ==
  /\ RoomForFile /\ dbFile' = NewFile
  /\ UNCHANGED <<handle, cache, caller, mutex, swapped>>

RemoveFile ==
  /\ dbFile.file # Missing
  /\ dbFile' = [dbFile EXCEPT !.file = Missing, !.token = 0]
  /\ UNCHANGED <<handle, cache, caller, mutex, swapped>>

Checkpoint ==
  /\ dbFile.file # Missing /\ dbFile.tokens < MaxTokens
  /\ dbFile' = [dbFile EXCEPT !.token = dbFile.tokens + 1, !.tokens = @ + 1]
  /\ UNCHANGED <<handle, cache, caller, mutex, swapped>>
------------------------------------------------------------------------------
(* OpenCached *)

\* fileToken, before the mutex.
StatFile(c) ==
  /\ caller[c].at = "idle"
  /\ caller' = [caller EXCEPT ![c] = [IdleCaller EXCEPT
                   !.at = "stat", !.token = dbFile.token, !.saw = dbFile.file]]
  /\ UNCHANGED <<dbFile, handle, cache, mutex, swapped>>

\* Mutant: whatever handle is cached is returned.
LookupAny(c) ==
  /\ caller[c].at = "stat" /\ mutex = Free
  /\ IF cache.handle # NoHandle
     THEN /\ caller' = [caller EXCEPT ![c].at = "using", ![c].handle = cache.handle]
          /\ UNCHANGED mutex
     ELSE caller' = [caller EXCEPT ![c].at = "opening"] /\ mutex' = HeldBy(c)
  /\ UNCHANGED <<dbFile, handle, cache, swapped>>

Lookup(c) ==
  /\ caller[c].at = "stat" /\ mutex = Free
  /\ IF cache.handle # NoHandle /\ cache.token = caller[c].token
     THEN /\ caller' = [caller EXCEPT ![c].at = "using", ![c].handle = cache.handle]
          /\ UNCHANGED mutex
     ELSE caller' = [caller EXCEPT ![c].at = "opening"] /\ mutex' = HeldBy(c)
  /\ UNCHANGED <<dbFile, handle, cache, swapped>>

\* openWithConns: SQLite opens the file, or creates it.
OpenFile(c) ==
  /\ caller[c].at = "opening"
  /\ dbFile.file = Missing => RoomForFile
  /\ \E h \in Handles :
       /\ handle[h].state = "unopened" /\ \A g \in 1..(h - 1) : handle[g].state # "unopened"
       /\ dbFile' = IF dbFile.file = Missing THEN NewFile ELSE dbFile
       /\ handle' = [handle EXCEPT ![h].state = "open", ![h].file = dbFile'.file]
       /\ caller' = [caller EXCEPT ![c].at = "opened", ![c].handle = h]
  /\ UNCHANGED <<cache, mutex, swapped>>

OpenFails(c) ==
  /\ caller[c].at = "opening"
  /\ caller' = [caller EXCEPT ![c] = IdleCaller]
  /\ mutex' = Free
  /\ UNCHANGED <<dbFile, handle, cache, swapped>>

\* Mutants: the old handle is closed at once; it is forgotten.
retireStoreNow(h) == [handle EXCEPT ![h].state = "closed"]
retireStoreNever(h) == handle

retireStore(h) == [handle EXCEPT ![h].state = "retired"]

\* The old handle goes to the timer, the new one into the cache with the token
\* the file has now.
CacheStore(c) ==
  /\ caller[c].at = "opened"
  /\ handle' = IF cache.handle = NoHandle THEN handle ELSE retireStore(cache.handle)
  /\ cache' = [handle |-> caller[c].handle, token |-> dbFile.token]
  /\ swapped' = (swapped \/ dbFile.file # handle[caller[c].handle].file)
  /\ caller' = [caller EXCEPT ![c].at = "using"]
  /\ mutex' = Free
  /\ UNCHANGED dbFile
------------------------------------------------------------------------------
(* The calls, the timer, time *)

CallEnds(c) ==
  /\ caller[c].at = "using"
  /\ caller' = [caller EXCEPT ![c] = IdleCaller]
  /\ UNCHANGED <<dbFile, handle, cache, mutex, swapped>>

CloseRetired(h) ==
  /\ handle[h].state = "retired" /\ handle[h].age = RetireDelay
  /\ handle' = [handle EXCEPT ![h].state = "closed"]
  /\ UNCHANGED <<dbFile, cache, caller, mutex, swapped>>

\* A timer may be late.  No deadline ends a call: it goes on as long as git, the
\* graph or an embedding takes.
Tick ==
  /\ caller' = [c \in Callers |->
                  IF caller[c].at = "using" /\ caller[c].ticks < RetireDelay
                  THEN [caller[c] EXCEPT !.ticks = @ + 1] ELSE caller[c]]
  /\ handle' = [h \in Handles |-> IF handle[h].state = "retired" /\ handle[h].age < RetireDelay
                                  THEN [handle[h] EXCEPT !.age = @ + 1] ELSE handle[h]]
  /\ UNCHANGED <<dbFile, cache, mutex, swapped>>

CacheNext ==
  \/ ReplaceFile \/ RemoveFile \/ Checkpoint \/ Tick
  \/ \E c \in Callers : StatFile(c) \/ Lookup(c) \/ OpenFile(c) \/ OpenFails(c)
                         \/ CacheStore(c) \/ CallEnds(c)
  \/ \E h \in Handles : CloseRetired(h)

CacheSpec == CacheInit /\ [][CacheNext]_cacheVars
------------------------------------------------------------------------------
(* Properties *)

\* For RetireDelay after it was handed out a tool call has its handle open,
\* however often the file is replaced and the handle superseded meanwhile.
OpenForRetireDelay ==
  \A c \in Callers :
    caller[c].at = "using" /\ caller[c].ticks < RetireDelay =>
      handle[caller[c].handle].state # "closed"

\* No tool call works on a handle the timer has closed: retireDelay is
\* "comfortably longer than any tool call, so a concurrent caller can't hit a
\* closed DB".
NeverUsesClosed ==
  \A c \in Callers : caller[c].at = "using" => handle[caller[c].handle].state # "closed"

\* A tool call never reads an older file than the one that bore the name when
\* it began, unless the file was replaced just while it was being opened.
NeverOlderThanSeen ==
  ~swapped => \A c \in Callers :
    caller[c].at = "using" => handle[caller[c].handle].file >= caller[c].saw

\* Handles do not leak: an open one is cached, or about to be.
NoHandleLeaks ==
  \A h \in Handles : handle[h].state = "open" =>
    h = cache.handle \/ \E c \in Callers : caller[c].at = "opened" /\ caller[c].handle = h
=============================================================================
