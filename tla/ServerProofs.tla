---------------------------- MODULE ServerProofs -----------------------------
(***************************************************************************)
(* Theorems about JsonFile, StoreCache and Bridge, each for every value of *)
(* their constants.                                                        *)
(***************************************************************************)
EXTENDS JsonFile, StoreCache, Bridge, TLAPS

(* JsonFile *)

\* A descriptor that leads to an inode with a name leads to a name that exists.
FdInv == \A w \in Writers : save[w].fd \in exists \cup {"gone"}

\* Without an overlap there is one writer at most; it holds the temporary file,
\* and what it has written there is a whole document.
OneWriterInv ==
  ~overlap =>
    /\ \A v, w \in Saving : v = w
    /\ \A w \in Saving :
         /\ save[w].fd = "tmp" /\ "tmp" \in exists
         /\ save[w].at = "opened" => bytes["tmp"] = Empty
         /\ save[w].at = "written" => Whole(bytes["tmp"])
JsonInv == JsonTypeOK /\ FdInv /\ OneWriterInv /\ AloneIsAtomic

LEMMA JsonInitially == JsonInit => JsonInv
  <1> SUFFICES ASSUME JsonInit PROVE JsonInv
    OBVIOUS
  <1>1. JsonTypeOK
    BY DEF JsonInit, JsonTypeOK, Bytes, Empty, Where
  <1>2. FdInv /\ OneWriterInv /\ AloneIsAtomic
    BY DEF JsonInit, FdInv, OneWriterInv, AloneIsAtomic, Saving
  <1> QED
    BY <1>1, <1>2 DEF JsonInv

LEMMA OpenTmpKeeps ==
  ASSUME JsonInv, NEW w \in Writers, NEW d \in Docs, OpenTmp(w, d)
  PROVE  JsonInv'
  <1> USE DEF JsonInv, JsonTypeOK, Where
  <1>1. JsonTypeOK'
    BY JsonFileAssumption DEF OpenTmp, Bytes, Empty
  <1>2. FdInv'
    BY DEF OpenTmp, FdInv
  <1>3. OneWriterInv'
    BY DEF OpenTmp, OneWriterInv, Saving
  <1>4. AloneIsAtomic'
    BY DEF OpenTmp, AloneIsAtomic, Whole
  <1> QED
    BY <1>1, <1>2, <1>3, <1>4

\* What a write leaves: the document, and the end of a longer one.
LEMMA OverType ==
  ASSUME NEW old \in Bytes, NEW d \in Docs
  PROVE  Over(old, d) \in Bytes /\ (old = Empty => Whole(Over(old, d)))
  BY JsonFileAssumption DEF Over, Bytes, Whole, Empty

LEMMA WriteTmpKeeps ==
  ASSUME JsonInv, NEW w \in Writers, WriteTmp(w)
  PROVE  JsonInv'
  <1> USE DEF JsonInv
  <1>1. save[w].doc \in Docs /\ save[w].fd \in Where /\ w \in Saving
    BY DEF JsonTypeOK, WriteTmp, Saving
  <1>3. save' = [save EXCEPT ![w].at = "written"] /\ exists' = exists /\ overlap' = overlap
    BY DEF WriteTmp
  <1>4. bytes' \in [{"path", "tmp"} -> Bytes]
    <2>1. bytes \in [{"path", "tmp"} -> Bytes]
      BY DEF JsonTypeOK
    <2>2. CASE save[w].fd = "gone"
      BY <2>1, <2>2 DEF WriteTmp
    <2>3. CASE save[w].fd # "gone"
      <3>1. save[w].fd \in {"path", "tmp"}
        BY <1>1, <2>3 DEF Where
      <3>2. bytes' = [bytes EXCEPT ![save[w].fd] = Over(@, save[w].doc)]
        BY <2>3 DEF WriteTmp
      <3>3. Over(bytes[save[w].fd], save[w].doc) \in Bytes
        BY <1>1, <2>1, <3>1, OverType
      <3> QED
        BY <2>1, <3>1, <3>2, <3>3
    <2> QED
      BY <2>2, <2>3
  <1>5. JsonTypeOK'
    BY <1>1, <1>3, <1>4 DEF WriteTmp, JsonTypeOK, FdInv, Where
  <1>6. FdInv'
    BY <1>3 DEF JsonTypeOK, FdInv
  <1>7. ASSUME ~overlap PROVE bytes'["path"] = bytes["path"] /\ Whole(bytes'["tmp"])
    <2>1. save[w].fd = "tmp" /\ bytes["tmp"] = Empty
      BY <1>1, <1>7 DEF WriteTmp, OneWriterInv
    <2>2. bytes \in [{"path", "tmp"} -> Bytes]
      BY DEF JsonTypeOK
    <2>3. Whole(Over(bytes["tmp"], save[w].doc))
      BY <1>1, <2>1, <2>2, OverType
    <2>4. bytes' = [bytes EXCEPT !["tmp"] = Over(bytes["tmp"], save[w].doc)]
      BY <2>1 DEF WriteTmp
    <2> QED
      BY <2>2, <2>3, <2>4
  <1>8. OneWriterInv'
    BY <1>1, <1>3, <1>7 DEF OneWriterInv, Saving, JsonTypeOK, WriteTmp, Whole
  <1>9. AloneIsAtomic'
    BY <1>3, <1>7 DEF AloneIsAtomic, Whole
  <1> QED
    BY <1>5, <1>6, <1>8, <1>9

LEMMA RenameTmpKeeps ==
  ASSUME JsonInv, NEW w \in Writers, RenameTmp(w)
  PROVE  JsonInv'
  <1> USE DEF JsonInv
  <1>1. Done(w) \in [at : {"idle", "opened", "written"}, doc : Docs \cup {NoDoc}, fd : Where]
    BY DEF Done, Where
  <1>2. CASE "tmp" \in exists
    <2>1. /\ bytes' = [bytes EXCEPT !["path"] = bytes["tmp"], !["tmp"] = Empty]
          /\ exists' = {"path"} /\ overlap' = overlap
          /\ save' = [v \in Writers |-> IF v = w THEN Done(w)
                        ELSE [save[v] EXCEPT !.fd = IF @ = "tmp" THEN "path" ELSE "gone"]]
      BY <1>2 DEF RenameTmp
    <2>2. JsonTypeOK'
      BY <1>1, <2>1 DEF JsonTypeOK, Bytes, Empty, Where, Done
    <2>3. FdInv'
      BY <2>1 DEF FdInv, JsonTypeOK, Done
    <2>4. ASSUME ~overlap PROVE Saving' = {}
      BY <2>1, <2>4 DEF OneWriterInv, Saving, JsonTypeOK, Done, RenameTmp
    <2>5. OneWriterInv'
      BY <2>1, <2>4 DEF OneWriterInv
    <2>6. AloneIsAtomic'
      BY <2>1 DEF AloneIsAtomic, OneWriterInv, Saving, JsonTypeOK, Whole, RenameTmp
    <2> QED
      BY <2>2, <2>3, <2>5, <2>6
  <1>3. CASE "tmp" \notin exists
    <2>1. save' = [save EXCEPT ![w] = Done(w)] /\ UNCHANGED <<bytes, exists, overlap>>
      BY <1>3 DEF RenameTmp
    <2> QED
      BY <1>1, <2>1 DEF JsonTypeOK, FdInv, OneWriterInv, AloneIsAtomic, Saving, Whole, Done
  <1> QED
    BY <1>2, <1>3

LEMMA KillWriterKeeps ==
  ASSUME JsonInv, NEW w \in Writers, KillWriter(w)
  PROVE  JsonInv'
  <1>1. Done(w) \in [at : {"idle", "opened", "written"}, doc : Docs \cup {NoDoc}, fd : Where]
    BY DEF Done, Where
  <1> QED
    BY <1>1
       DEF KillWriter, JsonInv, JsonTypeOK, FdInv, OneWriterInv, AloneIsAtomic, Saving, Whole, Done

LEMMA JsonStep == JsonInv /\ [JsonNext]_jsonVars => JsonInv'
  <1> SUFFICES ASSUME JsonInv, [JsonNext]_jsonVars PROVE JsonInv'
    OBVIOUS
  <1>1. CASE UNCHANGED jsonVars
    BY <1>1 DEF jsonVars, JsonInv, JsonTypeOK, FdInv, OneWriterInv, AloneIsAtomic, Saving, Whole
  <1> QED
    BY <1>1, OpenTmpKeeps, WriteTmpKeeps, RenameTmpKeeps, KillWriterKeeps DEF JsonNext

\* The names, their bytes and the writers stay well typed, overlaps included: a
\* name that does not exist holds nothing, and a writer has a document.
THEOREM JsonIsTyped == JsonSpec => []JsonTypeOK
  <1>1. JsonInv => JsonTypeOK
    BY DEF JsonInv
  <1> QED
    BY <1>1, JsonInitially, JsonStep, PTL DEF JsonSpec

\* Saves that do not overlap, of any number of writers and documents, and kills
\* between any two of their steps, never leave a partial document at <path>.
THEOREM SaveIsAtomicAlone == JsonSpec => []AloneIsAtomic
  <1>1. JsonInv => AloneIsAtomic
    BY DEF JsonInv
  <1> QED
    BY <1>1, JsonInitially, JsonStep, PTL DEF JsonSpec
------------------------------------------------------------------------------
(* StoreCache *)

Places == {"idle", "stat", "opening", "opened", "using"}
CallerRecords == [at : Places, token : DBTokens, saw : 0..MaxFiles,
                  handle : Handles \cup {NoHandle}, ticks : 0..RetireDelay]
DBFiles == [file : 0..MaxFiles, token : DBTokens, files : 0..MaxFiles, tokens : DBTokens]
HandleRecords == [state : {"unopened", "open", "retired", "closed"},
                  file : 0..MaxFiles, age : 0..RetireDelay]

\* The cached handle is open.  A handle that was opened and is not cached yet
\* is open and not the cached one.  A call that has a handle keeps up with the
\* timer of that handle: it has had it at least as long as the handle is
\* retired, so for the whole delay once the timer closes it.
KeepsUpInv ==
  /\ \A h \in Handles : handle[h].state \in {"unopened", "open"} => handle[h].age = 0
  /\ cache.handle # NoHandle => handle[cache.handle].state = "open"
  /\ \A c \in Callers :
       /\ caller[c].at = "opened" =>
            /\ caller[c].handle \in Handles /\ handle[caller[c].handle].state = "open"
            /\ caller[c].handle # cache.handle
       /\ caller[c].at = "using" =>
            /\ caller[c].handle \in Handles
            /\ \/ handle[caller[c].handle].state = "open"
               \/ /\ handle[caller[c].handle].state = "retired"
                  /\ handle[caller[c].handle].age <= caller[c].ticks
               \/ /\ handle[caller[c].handle].state = "closed"
                  /\ caller[c].ticks = RetireDelay
CacheInv == CacheTypeOK /\ KeepsUpInv /\ NoHandleLeaks

LEMMA IdleCallerType == IdleCaller \in CallerRecords
  BY StoreCacheAssumption DEF IdleCaller, CallerRecords, Places, DBTokens, NoHandle

LEMMA HolderIsUnique == \A c, d : (HeldBy(c) = HeldBy(d) => c = d) /\ HeldBy(c) # Free
  <1> TAKE c, d
  <1>1. HeldBy(c).by = c /\ HeldBy(d).by = d /\ HeldBy(c).held = TRUE /\ Free.held = FALSE
    BY DEF HeldBy, Free
  <1> QED
    BY <1>1

LEMMA CacheInitially == CacheInit => CacheInv
  <1> SUFFICES ASSUME CacheInit PROVE CacheInv
    OBVIOUS
  <1>1. CacheTypeOK
    <2>1. dbFile \in DBFiles
      BY StoreCacheAssumption DEF CacheInit, DBTokens, DBFiles
    <2>2. handle \in [Handles -> HandleRecords]
      BY StoreCacheAssumption DEF CacheInit, HandleRecords
    <2>3. caller \in [Callers -> CallerRecords]
      BY IdleCallerType DEF CacheInit
    <2>4. cache \in [handle : Handles \cup {NoHandle}, token : DBTokens]
      BY StoreCacheAssumption DEF CacheInit, DBTokens
    <2>5. \A c \in Callers : caller[c].at = "idle"
      BY DEF CacheInit, IdleCaller
    <2>6. mutex = Free /\ swapped = FALSE
      BY DEF CacheInit
    <2> QED
      BY <2>1, <2>2, <2>3, <2>4, <2>5, <2>6, HolderIsUnique
         DEF CacheTypeOK, DBFiles, HandleRecords, CallerRecords, Places
  <1>2. KeepsUpInv /\ NoHandleLeaks
    BY DEF CacheInit, KeepsUpInv, NoHandleLeaks, IdleCaller
  <1> QED
    BY <1>1, <1>2 DEF CacheInv

LEMMA FileStaysTyped ==
  ASSUME dbFile \in DBFiles
  PROVE  /\ RoomForFile => NewFile \in DBFiles
         /\ [dbFile EXCEPT !.file = Missing, !.token = 0] \in DBFiles
         /\ dbFile.tokens < MaxTokens =>
              [dbFile EXCEPT !.token = dbFile.tokens + 1, !.tokens = @ + 1] \in DBFiles
  <1> USE StoreCacheAssumption DEF DBFiles, DBTokens, Missing
  <1>1. dbFile.files \in Nat /\ dbFile.tokens \in Nat
    OBVIOUS
  <1>2. ASSUME RoomForFile PROVE NewFile \in DBFiles
    <2>1. dbFile.files + 1 \in 0..MaxFiles /\ dbFile.tokens + 1 \in 0..MaxTokens
      BY <1>1, <1>2 DEF RoomForFile
    <2> QED
      BY <2>1 DEF NewFile
  <1>3. [dbFile EXCEPT !.file = Missing, !.token = 0] \in DBFiles
    <2>1. 0 \in 0..MaxFiles /\ 0 \in 0..MaxTokens
      OBVIOUS
    <2> QED
      BY <2>1
  <1>4. ASSUME dbFile.tokens < MaxTokens
        PROVE  [dbFile EXCEPT !.token = dbFile.tokens + 1, !.tokens = @ + 1] \in DBFiles
    <2>1. dbFile.tokens + 1 \in 0..MaxTokens
      BY <1>1, <1>4
    <2> QED
      BY <2>1
  <1> QED
    BY <1>2, <1>3, <1>4

LEMMA CacheStep == CacheInv /\ [CacheNext]_cacheVars => CacheInv'
  <1> SUFFICES ASSUME CacheInv, [CacheNext]_cacheVars PROVE CacheInv'
    OBVIOUS
  <1> USE DEF CacheInv
  <1>t. /\ dbFile \in DBFiles
        /\ handle \in [Handles -> HandleRecords]
        /\ caller \in [Callers -> CallerRecords]
    BY DEF CacheTypeOK, DBFiles, HandleRecords, CallerRecords, Places
  <1>1. ASSUME ReplaceFile \/ RemoveFile \/ Checkpoint PROVE CacheInv'
    <2>1. UNCHANGED <<handle, cache, caller, mutex, swapped>>
      BY <1>1 DEF ReplaceFile, RemoveFile, Checkpoint
    <2>2. dbFile' \in DBFiles
      BY <1>1, <1>t, FileStaysTyped DEF ReplaceFile, RemoveFile, Checkpoint
    <2> QED
      BY <2>1, <2>2 DEF DBFiles, CacheTypeOK, KeepsUpInv, NoHandleLeaks
  <1>2. ASSUME NEW c \in Callers, StatFile(c) PROVE CacheInv'
    <2>1. caller' \in [Callers -> CallerRecords]
      BY <1>2, <1>t, IdleCallerType DEF StatFile, CallerRecords, Places, DBFiles
    <2>2. caller'[c].at = "stat" /\ \A d \in Callers : d # c => caller'[d] = caller[d]
      BY <1>2, <1>t, IdleCallerType DEF StatFile, CallerRecords
    <2>3. UNCHANGED <<dbFile, handle, cache, mutex, swapped>>
      BY <1>2 DEF StatFile
    <2>4. CacheTypeOK'
      BY <1>2, <2>1, <2>2, <2>3 DEF CacheTypeOK, CallerRecords, Places, StatFile
    <2>5. KeepsUpInv' /\ NoHandleLeaks'
      BY <1>2, <2>2, <2>3 DEF KeepsUpInv, NoHandleLeaks, StatFile
    <2> QED
      BY <2>4, <2>5
  <1>3. ASSUME NEW c \in Callers, Lookup(c) PROVE CacheInv'
    <2>1. caller' \in [Callers -> CallerRecords]
      BY <1>3, <1>t DEF Lookup, CallerRecords, Places, CacheTypeOK
    <2>2. \A d \in Callers : d # c => caller'[d] = caller[d]
      BY <1>3, <1>t DEF Lookup
    <2>3. UNCHANGED <<dbFile, handle, cache, swapped>>
      BY <1>3 DEF Lookup
    <2>4. \/ /\ cache.handle # NoHandle /\ caller'[c].at = "using"
             /\ caller'[c].handle = cache.handle /\ mutex' = Free
          \/ caller'[c].at = "opening" /\ mutex' = HeldBy(c)
      BY <1>3, <1>t DEF Lookup, CallerRecords
    <2>5. CacheTypeOK'
      BY <1>3, <2>1, <2>2, <2>3, <2>4, HolderIsUnique
         DEF CacheTypeOK, CallerRecords, Places, Lookup
    <2>6. KeepsUpInv' /\ NoHandleLeaks'
      BY <1>3, <2>2, <2>3, <2>4 DEF KeepsUpInv, NoHandleLeaks, Lookup, CacheTypeOK
    <2> QED
      BY <2>5, <2>6
  <1>4. ASSUME NEW c \in Callers, OpenFile(c) PROVE CacheInv'
    <2> PICK h \in Handles :
          /\ handle[h].state = "unopened"
          /\ dbFile' = IF dbFile.file = Missing THEN NewFile ELSE dbFile
          /\ handle' = [handle EXCEPT ![h].state = "open", ![h].file = dbFile'.file]
          /\ caller' = [caller EXCEPT ![c].at = "opened", ![c].handle = h]
      BY <1>4 DEF OpenFile
    <2>1. dbFile' \in DBFiles
      BY <1>4, <1>t, FileStaysTyped DEF OpenFile
    <2>2. handle' \in [Handles -> HandleRecords]
      <3>1. dbFile'.file \in 0..MaxFiles
        BY <2>1 DEF DBFiles
      <3>2. [handle[h] EXCEPT !.state = "open", !.file = dbFile'.file] \in HandleRecords
        BY <1>t, <3>1 DEF HandleRecords
      <3>3. handle' = [handle EXCEPT ![h] =
                         [handle[h] EXCEPT !.state = "open", !.file = dbFile'.file]]
        BY <1>t
      <3> QED
        BY <1>t, <3>2, <3>3
    <2>3. caller' \in [Callers -> CallerRecords]
      BY <1>t DEF CallerRecords, Places
    <2>4. /\ caller'[c].at = "opened" /\ caller'[c].handle = h
          /\ \A d \in Callers : d # c => caller'[d] = caller[d]
      BY <1>t DEF CallerRecords
    <2>5. /\ handle'[h].state = "open" /\ handle'[h].age = handle[h].age
          /\ \A g \in Handles : g # h => handle'[g] = handle[g]
      BY <1>t DEF HandleRecords
    <2>6. caller[c].at = "opening" /\ UNCHANGED <<cache, mutex, swapped>>
      BY <1>4 DEF OpenFile
    <2>7. h # NoHandle
      BY DEF Handles, NoHandle
    <2>8. CacheTypeOK'
      BY <2>1, <2>2, <2>3, <2>4, <2>6, <2>7 DEF CacheTypeOK, DBFiles, HandleRecords, CallerRecords, Places
    <2>9. \A d \in Callers : caller[d].at = "opened" => d = c
      BY <2>6, HolderIsUnique DEF CacheTypeOK
    <2>10. KeepsUpInv'
      <3>1. \A g \in Handles : handle'[g].state \in {"unopened", "open"} => handle'[g].age = 0
        BY <2>5 DEF KeepsUpInv
      <3>2. cache'.handle # NoHandle => cache.handle # h /\ handle'[cache'.handle].state = "open"
        <4>1. cache.handle # NoHandle => cache.handle \in Handles
          BY DEF CacheTypeOK
        <4> QED
          BY <4>1, <2>5, <2>6 DEF KeepsUpInv
      <3>3. cache.handle # h
        BY <3>2, <2>6, <2>7
      <3>4. ASSUME NEW d \in Callers, d # c
            PROVE  /\ caller'[d] = caller[d] /\ caller[d].at # "opened"
                   /\ caller[d].at = "using" => caller[d].handle # h
        BY <3>4, <2>4, <2>9 DEF KeepsUpInv
      <3> QED
        <4>1. ASSUME NEW d \in Callers, caller'[d].at = "opened"
              PROVE  /\ caller'[d].handle \in Handles
                     /\ handle'[caller'[d].handle].state = "open"
                     /\ caller'[d].handle # cache'.handle
          <5>1. d = c
            BY <3>4, <4>1
          <5> QED
            BY <5>1, <2>4, <2>5, <2>6, <3>3
        <4>2. ASSUME NEW d \in Callers, caller'[d].at = "using"
              PROVE  /\ caller'[d].handle \in Handles
                     /\ \/ handle'[caller'[d].handle].state = "open"
                        \/ /\ handle'[caller'[d].handle].state = "retired"
                           /\ handle'[caller'[d].handle].age <= caller'[d].ticks
                        \/ /\ handle'[caller'[d].handle].state = "closed"
                           /\ caller'[d].ticks = RetireDelay
          <5>1. d # c
            BY <2>4, <4>2
          <5>2. caller'[d] = caller[d] /\ caller[d].handle \in Handles /\ caller[d].handle # h
            BY <5>1, <3>4, <4>2 DEF KeepsUpInv
          <5>3. handle'[caller[d].handle] = handle[caller[d].handle]
            BY <5>2, <2>5
          <5> QED
            BY <5>2, <5>3, <4>2 DEF KeepsUpInv
        <4> QED
          BY <3>1, <3>2, <4>1, <4>2 DEF KeepsUpInv
    <2>11. NoHandleLeaks'
      BY <2>4, <2>5, <2>6, <2>9 DEF NoHandleLeaks
    <2> QED
      BY <2>8, <2>10, <2>11
  <1>5. ASSUME NEW c \in Callers, OpenFails(c) \/ CallEnds(c) PROVE CacheInv'
    <2>1. /\ caller' = [caller EXCEPT ![c] = IdleCaller]
          /\ UNCHANGED <<dbFile, handle, cache, swapped>>
          /\ mutex' = mutex \/ (caller[c].at = "opening" /\ mutex' = Free)
          /\ caller[c].at = "using" => mutex' = mutex
          /\ caller[c].at = "opening" => mutex' = Free
          /\ caller[c].at \in {"opening", "using"}
      BY <1>5 DEF OpenFails, CallEnds
    <2>2. caller' \in [Callers -> CallerRecords]
      BY <1>t, <2>1, IdleCallerType
    <2>3. caller'[c].at = "idle" /\ \A d \in Callers : d # c => caller'[d] = caller[d]
      BY <1>t, <2>1 DEF IdleCaller
    <2>4. CacheTypeOK'
      BY <2>1, <2>2, <2>3, HolderIsUnique DEF CacheTypeOK, CallerRecords, Places
    <2>5. KeepsUpInv' /\ NoHandleLeaks'
      BY <2>1, <2>3 DEF KeepsUpInv, NoHandleLeaks
    <2> QED
      BY <2>4, <2>5
  <1>6. ASSUME NEW c \in Callers, CacheStore(c) PROVE CacheInv'
    <2> DEFINE new == caller[c].handle
               old == cache.handle
    <2>1. /\ caller[c].at = "opened" /\ mutex' = Free /\ dbFile' = dbFile
          /\ caller' = [caller EXCEPT ![c].at = "using"]
          /\ cache' = [handle |-> new, token |-> dbFile.token]
          /\ swapped' \in BOOLEAN
      BY <1>6 DEF CacheStore, CacheTypeOK
    <2>2. new \in Handles /\ handle[new].state = "open" /\ new # old
      BY <2>1 DEF KeepsUpInv
    <2>3. old = NoHandle \/ old \in Handles
      BY DEF CacheTypeOK
    <2>4. handle' \in [Handles -> HandleRecords]
      BY <1>6, <1>t, <2>3 DEF CacheStore, retireStore, HandleRecords
    <2>5. \A g \in Handles : g # old => handle'[g] = handle[g]
      BY <1>6, <1>t, <2>3 DEF CacheStore, retireStore
    <2>6. old # NoHandle => /\ handle'[old].state = "retired"
                            /\ handle'[old].age = handle[old].age
      BY <1>6, <1>t, <2>3 DEF CacheStore, retireStore, HandleRecords
    <2>7. caller' \in [Callers -> CallerRecords]
      BY <1>t, <2>1 DEF CallerRecords, Places
    <2>8. /\ caller'[c].at = "using" /\ caller'[c].handle = new /\ caller'[c].ticks = caller[c].ticks
          /\ \A d \in Callers : d # c => caller'[d] = caller[d]
      BY <1>t, <2>1 DEF CallerRecords
    <2>9. \A d \in Callers : caller[d].at \in {"opening", "opened"} => d = c
      BY <2>1, HolderIsUnique DEF CacheTypeOK
    <2>10. CacheTypeOK'
      BY <1>t, <2>1, <2>2, <2>4, <2>7, <2>8, <2>9, HolderIsUnique
         DEF CacheTypeOK, DBFiles, HandleRecords, CallerRecords, Places
    <2>11. \A h \in Handles : handle'[h].state \in {"unopened", "open"} => handle'[h].age = 0
      <3> SUFFICES ASSUME NEW h \in Handles, handle'[h].state \in {"unopened", "open"}
                   PROVE  handle'[h].age = 0
        OBVIOUS
      <3>1. h # NoHandle
        BY DEF Handles, NoHandle
      <3>2. h # old
        BY <3>1, <2>6
      <3> QED
        BY <3>2, <2>5 DEF KeepsUpInv
    <2>12. cache'.handle = new /\ handle'[new].state = "open"
      BY <2>1, <2>2, <2>5
    <2>13. ASSUME NEW d \in Callers, caller'[d].at = "using"
           PROVE  /\ caller'[d].handle \in Handles
                  /\ \/ handle'[caller'[d].handle].state = "open"
                     \/ /\ handle'[caller'[d].handle].state = "retired"
                        /\ handle'[caller'[d].handle].age <= caller'[d].ticks
                     \/ /\ handle'[caller'[d].handle].state = "closed"
                        /\ caller'[d].ticks = RetireDelay
      <3>1. CASE d = c
        BY <3>1, <2>2, <2>8, <2>12
      <3>2. CASE d # c /\ caller[d].handle # old
        BY <3>2, <2>5, <2>8, <2>13 DEF KeepsUpInv
      <3>3. CASE d # c /\ caller[d].handle = old
        <4>1. old \in Handles /\ handle[old].state = "open" /\ handle[old].age = 0
          BY <3>3, <2>8, <2>13 DEF KeepsUpInv, Handles, NoHandle
        <4>2. handle'[old].state = "retired" /\ handle'[old].age = 0
          BY <4>1, <2>6 DEF Handles, NoHandle
        <4>3. caller[d].ticks \in 0..RetireDelay
          BY <1>t DEF CallerRecords
        <4> QED
          BY <3>3, <4>1, <4>2, <4>3, <2>8, StoreCacheAssumption
      <3> QED
        BY <3>1, <3>2, <3>3
    <2>14. KeepsUpInv'
      BY <2>8, <2>9, <2>11, <2>12, <2>13 DEF KeepsUpInv
    <2>15. NoHandleLeaks'
      BY <2>1, <2>3, <2>5, <2>6, <2>9, <2>12 DEF NoHandleLeaks, Handles, NoHandle
    <2> QED
      BY <2>10, <2>14, <2>15
  <1>7. ASSUME NEW h \in Handles, CloseRetired(h) PROVE CacheInv'
    <2>1. /\ handle[h].state = "retired" /\ handle[h].age = RetireDelay
          /\ handle' = [handle EXCEPT ![h].state = "closed"]
          /\ UNCHANGED <<dbFile, cache, caller, mutex, swapped>>
      BY <1>7 DEF CloseRetired
    <2>2. handle' \in [Handles -> HandleRecords]
      BY <1>t, <2>1 DEF HandleRecords
    <2>3. handle'[h].state = "closed" /\ \A g \in Handles : g # h => handle'[g] = handle[g]
      BY <1>t, <2>1 DEF HandleRecords
    <2>4. ASSUME NEW c \in Callers, caller[c].at = "using", caller[c].handle = h
          PROVE  caller[c].ticks = RetireDelay
      <3>1. caller[c].ticks \in 0..RetireDelay
        BY <1>t DEF CallerRecords
      <3> QED
        BY <2>1, <2>4, <3>1, StoreCacheAssumption DEF KeepsUpInv
    <2>5. CacheTypeOK'
      BY <2>1, <2>2 DEF CacheTypeOK, HandleRecords
    <2>6. KeepsUpInv'
      BY <2>1, <2>3, <2>4 DEF KeepsUpInv, CacheTypeOK
    <2>7. NoHandleLeaks'
      BY <2>1, <2>3 DEF NoHandleLeaks
    <2> QED
      BY <2>5, <2>6, <2>7
  <1>8. CASE Tick
    <2>1. \A c \in Callers :
            caller'[c] = IF caller[c].at = "using" /\ caller[c].ticks < RetireDelay
                         THEN [caller[c] EXCEPT !.ticks = @ + 1] ELSE caller[c]
      BY <1>8 DEF Tick
    <2>2. \A h \in Handles :
            handle'[h] = IF handle[h].state = "retired" /\ handle[h].age < RetireDelay
                         THEN [handle[h] EXCEPT !.age = @ + 1] ELSE handle[h]
      BY <1>8 DEF Tick
    <2>3. UNCHANGED <<dbFile, cache, mutex, swapped>>
      BY <1>8 DEF Tick
    <2>4. caller' \in [Callers -> CallerRecords]
      BY <1>8, <1>t, StoreCacheAssumption DEF Tick, CallerRecords
    <2>5. handle' \in [Handles -> HandleRecords]
      BY <1>8, <1>t, StoreCacheAssumption DEF Tick, HandleRecords
    <2>6. \A c \in Callers : /\ caller'[c].at = caller[c].at
                             /\ caller'[c].handle = caller[c].handle
                             /\ caller[c].at = "using" =>
                                  caller'[c].ticks = IF caller[c].ticks < RetireDelay
                                                     THEN caller[c].ticks + 1
                                                     ELSE RetireDelay
      <3> TAKE c \in Callers
      <3>1. caller[c] \in CallerRecords
        BY <1>t
      <3>2. caller[c].ticks \in 0..RetireDelay
        BY <3>1 DEF CallerRecords
      <3>3. CASE caller[c].at = "using" /\ caller[c].ticks < RetireDelay
        <4>1. caller'[c] = [caller[c] EXCEPT !.ticks = @ + 1]
          BY <3>3, <2>1
        <4> QED
          BY <3>1, <3>3, <4>1 DEF CallerRecords
      <3>4. CASE ~(caller[c].at = "using" /\ caller[c].ticks < RetireDelay)
        <4>1. caller'[c] = caller[c]
          BY <3>4, <2>1
        <4>2. caller[c].at = "using" => caller[c].ticks = RetireDelay
          BY <3>2, <3>4, StoreCacheAssumption
        <4> QED
          BY <3>4, <4>1, <4>2
      <3> QED
        BY <3>3, <3>4
    <2>7. \A h \in Handles : /\ handle'[h].state = handle[h].state
                             /\ handle[h].state # "retired" => handle'[h].age = handle[h].age
                             /\ handle'[h].age <= handle[h].age + 1
      <3> TAKE h \in Handles
      <3>1. handle[h] \in HandleRecords
        BY <1>t
      <3>2. handle[h].age \in Nat
        BY <3>1, StoreCacheAssumption DEF HandleRecords
      <3>3. CASE handle[h].state = "retired" /\ handle[h].age < RetireDelay
        <4>1. handle'[h] = [handle[h] EXCEPT !.age = @ + 1]
          BY <3>3, <2>2
        <4>2. handle'[h].age = handle[h].age + 1 /\ handle'[h].state = handle[h].state
          BY <3>1, <4>1 DEF HandleRecords
        <4> QED
          BY <3>2, <3>3, <4>2
      <3>4. CASE ~(handle[h].state = "retired" /\ handle[h].age < RetireDelay)
        <4>1. handle'[h] = handle[h]
          BY <3>4, <2>2
        <4> QED
          BY <3>2, <4>1
      <3> QED
        BY <3>3, <3>4
    <2>8. CacheTypeOK'
      BY <2>3, <2>4, <2>5, <2>6 DEF CacheTypeOK, DBFiles, HandleRecords, CallerRecords, Places
    <2>9. KeepsUpInv'
      <3>1. \A h \in Handles : handle[h].age \in Nat /\ handle'[h].age \in Nat
        BY <1>t, <2>5 DEF HandleRecords
      <3>2. \A c \in Callers : caller[c].ticks \in Nat /\ caller'[c].ticks \in Nat
        BY <1>t, <2>4 DEF CallerRecords
      <3>3. cache.handle # NoHandle => cache.handle \in Handles
        BY DEF CacheTypeOK
      <3>4. \A h \in Handles : handle'[h].age <= RetireDelay
        BY <2>5, StoreCacheAssumption DEF HandleRecords
      <3>5. ASSUME NEW c \in Callers, caller[c].at = "using"
            PROVE  LET h == caller[c].handle
                   IN  /\ h \in Handles
                       /\ \/ handle'[h].state = "open"
                          \/ handle'[h].state = "retired" /\ handle'[h].age <= caller'[c].ticks
                          \/ handle'[h].state = "closed" /\ caller'[c].ticks = RetireDelay
        <4>1. caller[c].handle \in Handles
          BY <3>5 DEF KeepsUpInv
        <4> QED
          BY <3>5, <4>1, <2>6, <2>7, <3>1, <3>2, <3>4, StoreCacheAssumption DEF KeepsUpInv
      <3> QED
        BY <2>3, <2>6, <2>7, <3>1, <3>3, <3>5 DEF KeepsUpInv
    <2>10. NoHandleLeaks'
      BY <2>3, <2>6, <2>7 DEF NoHandleLeaks
    <2> QED
      BY <2>8, <2>9, <2>10
  <1>9. CASE UNCHANGED cacheVars
    BY <1>9 DEF cacheVars, CacheTypeOK, KeepsUpInv, NoHandleLeaks
  <1> QED
    BY <1>1, <1>2, <1>3, <1>4, <1>5, <1>6, <1>7, <1>8, <1>9 DEF CacheNext

\* The mutex is held exactly while a caller opens a file, and every caller that
\* works has a handle.
THEOREM CacheIsTyped == CacheSpec => []CacheTypeOK
  <1> QED
    BY CacheInitially, CacheStep, PTL DEF CacheSpec, CacheInv

\* However many calls, files and replacements there are, however the clock
\* moves and however long the calls take: none is closed out before the delay.
THEOREM OpenWhileUsed == CacheSpec => []OpenForRetireDelay
  <1>1. CacheInv => OpenForRetireDelay
    <2> SUFFICES ASSUME CacheInv, NEW c \in Callers, caller[c].at = "using",
                        caller[c].ticks < RetireDelay
                 PROVE  handle[caller[c].handle].state # "closed"
      BY DEF OpenForRetireDelay
    <2> QED
      BY StoreCacheAssumption DEF CacheInv, KeepsUpInv
  <1> QED
    BY <1>1, CacheInitially, CacheStep, PTL DEF CacheSpec

\* No sequence of replacements, failures and overlapping opens leaves an open
\* handle that nobody will close.
THEOREM HandlesAreRetired == CacheSpec => []NoHandleLeaks
  <1>1. CacheInv => NoHandleLeaks
    BY DEF CacheInv
  <1> QED
    BY <1>1, CacheInitially, CacheStep, PTL DEF CacheSpec
\* A token and a file that some caller, or the cache, found together: the file
\* had its token by then, and the last token is that of the last file.
SeenTogether(db, t, f) ==
  /\ t <= db.tokens /\ f <= db.files
  /\ t = 0 => f = Missing
  /\ t = db.tokens /\ t # 0 => f = db.files

\* The file that bears the name is the last one, and bears the last token.
LastInv(db) ==
  IF db.file = Missing THEN db.token = 0
  ELSE db.file = db.files /\ db.token = db.tokens /\ db.token # 0

\* While no replacement fell between an open and the token read after it, the
\* cached token is one the cached handle's file had: a caller with that token
\* saw that very file.
CachedTokenInv ==
  ~swapped /\ cache.handle # NoHandle =>
    /\ cache.token # 0 /\ SeenTogether(dbFile, cache.token, handle[cache.handle].file)
    /\ \A c \in Callers :
         caller[c].token = cache.token => caller[c].saw = handle[cache.handle].file

\* What a caller opened itself is no older than what it saw, in any case.
OpenedInv ==
  \A c \in Callers : caller[c].at = "opened" =>
    /\ handle[caller[c].handle].file # Missing
    /\ handle[caller[c].handle].file >= caller[c].saw

OlderInv ==
  /\ LastInv(dbFile)
  /\ \A c \in Callers : SeenTogether(dbFile, caller[c].token, caller[c].saw)
  /\ CachedTokenInv /\ OpenedInv /\ NeverOlderThanSeen

\* The files and tokens of a well-typed state are numbers, and whatever was
\* found together before the file moves on stays so.
LEMMA SeenStays ==
  ASSUME CacheTypeOK, LastInv(dbFile),
         \/ dbFile' = dbFile
         \/ dbFile' = NewFile
         \/ dbFile' = [dbFile EXCEPT !.file = Missing, !.token = 0]
         \/ /\ dbFile.file # Missing
            /\ dbFile' = [dbFile EXCEPT !.token = dbFile.tokens + 1, !.tokens = @ + 1]
  PROVE  /\ LastInv(dbFile')
         /\ \A t, f \in Nat : SeenTogether(dbFile, t, f) => SeenTogether(dbFile', t, f)
         /\ dbFile'.files >= dbFile.files
  <1>1. /\ dbFile \in DBFiles
        /\ dbFile.file \in Nat /\ dbFile.token \in Nat
        /\ dbFile.files \in Nat /\ dbFile.tokens \in Nat
    BY StoreCacheAssumption DEF CacheTypeOK, DBFiles, DBTokens
  <1>2. CASE dbFile' = dbFile
    BY <1>1, <1>2
  <1>3. CASE dbFile' = NewFile
    BY <1>1, <1>3 DEF NewFile, LastInv, SeenTogether, Missing
  <1>4. CASE dbFile' = [dbFile EXCEPT !.file = Missing, !.token = 0]
    <2>1. /\ dbFile'.file = Missing /\ dbFile'.token = 0
          /\ dbFile'.files = dbFile.files /\ dbFile'.tokens = dbFile.tokens
      BY <1>1, <1>4 DEF DBFiles
    <2> QED
      BY <1>1, <2>1 DEF LastInv, SeenTogether
  <1>5. CASE /\ dbFile.file # Missing
             /\ dbFile' = [dbFile EXCEPT !.token = dbFile.tokens + 1, !.tokens = @ + 1]
    <2>1. /\ dbFile'.file = dbFile.file /\ dbFile'.token = dbFile.tokens + 1
          /\ dbFile'.files = dbFile.files /\ dbFile'.tokens = dbFile.tokens + 1
      BY <1>1, <1>5 DEF DBFiles
    <2> QED
      BY <1>1, <1>5, <2>1 DEF LastInv, SeenTogether
  <1> QED
    BY <1>2, <1>3, <1>4, <1>5

\* No step gives a caller an older file than it saw; one named step per action.
LEMMA OlderStep == CacheInv /\ OlderInv /\ [CacheNext]_cacheVars => OlderInv'
  <1> SUFFICES ASSUME CacheInv, OlderInv, [CacheNext]_cacheVars PROVE OlderInv'
    OBVIOUS
  <1> USE DEF OlderInv
  <1>t. /\ CacheTypeOK /\ KeepsUpInv
        /\ dbFile \in DBFiles
        /\ handle \in [Handles -> HandleRecords]
        /\ caller \in [Callers -> CallerRecords]
        /\ cache.handle # NoHandle => cache.handle \in Handles
    BY DEF CacheInv, CacheTypeOK, DBFiles, HandleRecords, CallerRecords, Places
  <1>n. /\ \A c \in Callers : caller[c].token \in Nat /\ caller[c].saw \in Nat
        /\ \A h \in Handles : handle[h].file \in Nat
        /\ cache.token \in Nat
        /\ dbFile.file \in Nat /\ dbFile.token \in Nat
        /\ dbFile.files \in Nat /\ dbFile.tokens \in Nat
    BY <1>t, StoreCacheAssumption DEF CacheTypeOK, DBFiles, HandleRecords, CallerRecords, DBTokens
  <1>1. ASSUME ReplaceFile \/ RemoveFile \/ Checkpoint PROVE OlderInv'
    <2>1. UNCHANGED <<handle, cache, caller, mutex, swapped>>
      BY <1>1 DEF ReplaceFile, RemoveFile, Checkpoint
    <2>2. /\ LastInv(dbFile')
          /\ \A t, f \in Nat : SeenTogether(dbFile, t, f) => SeenTogether(dbFile', t, f)
      BY <1>1, <1>t, SeenStays DEF ReplaceFile, RemoveFile, Checkpoint
    <2>3. \A c \in Callers : SeenTogether(dbFile', caller'[c].token, caller'[c].saw)
      BY <1>n, <2>1, <2>2
    <2>4. CachedTokenInv'
      BY <1>n, <1>t, <2>1, <2>2 DEF CachedTokenInv
    <2>5. OpenedInv' /\ NeverOlderThanSeen'
      BY <2>1 DEF OpenedInv, NeverOlderThanSeen
    <2> QED
      BY <2>2, <2>3, <2>4, <2>5
  <1>2. ASSUME NEW c \in Callers, StatFile(c) PROVE OlderInv'
    <2>1. /\ caller'[c].at = "stat"
          /\ caller'[c].token = dbFile.token /\ caller'[c].saw = dbFile.file
          /\ \A d \in Callers : d # c => caller'[d] = caller[d]
      BY <1>2, <1>t, IdleCallerType DEF StatFile, CallerRecords
    <2>2. UNCHANGED <<dbFile, handle, cache, swapped>>
      BY <1>2 DEF StatFile
    <2>3. SeenTogether(dbFile, dbFile.token, dbFile.file)
      BY <1>n DEF LastInv, SeenTogether, Missing
    <2>4. CachedTokenInv'
      BY <1>n, <1>t, <2>1, <2>2 DEF CachedTokenInv, SeenTogether, LastInv
    <2>5. OpenedInv' /\ NeverOlderThanSeen'
      BY <2>1, <2>2 DEF OpenedInv, NeverOlderThanSeen
    <2> QED
      BY <2>1, <2>2, <2>3, <2>4, <2>5
  <1>3. ASSUME NEW c \in Callers, Lookup(c) PROVE OlderInv'
    <2>1. /\ \A d \in Callers : /\ d # c => caller'[d] = caller[d]
                                /\ caller'[d].token = caller[d].token
                                /\ caller'[d].saw = caller[d].saw
          /\ caller'[c].at \in {"using", "opening"}
          /\ caller'[c].at = "using" =>
               /\ cache.handle # NoHandle /\ cache.token = caller[c].token
               /\ caller'[c].handle = cache.handle
      BY <1>3, <1>t DEF Lookup, CallerRecords
    <2>2. UNCHANGED <<dbFile, handle, cache, swapped>>
      BY <1>3 DEF Lookup
    <2>3. CachedTokenInv' /\ OpenedInv'
      BY <2>1, <2>2 DEF CachedTokenInv, OpenedInv
    <2>4. NeverOlderThanSeen'
      BY <1>n, <1>t, <2>1, <2>2 DEF CachedTokenInv, NeverOlderThanSeen
    <2> QED
      BY <2>1, <2>2, <2>3, <2>4
  <1>4. ASSUME NEW c \in Callers, OpenFile(c) PROVE OlderInv'
    <2> PICK h \in Handles :
          /\ handle[h].state = "unopened"
          /\ dbFile' = IF dbFile.file = Missing THEN NewFile ELSE dbFile
          /\ handle' = [handle EXCEPT ![h].state = "open", ![h].file = dbFile'.file]
          /\ caller' = [caller EXCEPT ![c].at = "opened", ![c].handle = h]
      BY <1>4 DEF OpenFile
    <2>1. /\ LastInv(dbFile')
          /\ \A t, f \in Nat : SeenTogether(dbFile, t, f) => SeenTogether(dbFile', t, f)
          /\ dbFile'.files >= dbFile.files
      BY <1>t, SeenStays
    <2>2. dbFile'.file = dbFile'.files /\ dbFile'.file # Missing /\ dbFile'.file \in Nat
      BY <1>n DEF NewFile, LastInv, Missing
    <2>3. /\ \A d \in Callers : /\ d # c => caller'[d] = caller[d]
                                /\ caller'[d].token = caller[d].token
                                /\ caller'[d].saw = caller[d].saw
          /\ caller'[c].at = "opened" /\ caller'[c].handle = h
      BY <1>t DEF CallerRecords
    <2>4. /\ handle'[h].file = dbFile'.file
          /\ \A g \in Handles : g # h => handle'[g] = handle[g]
      BY <1>t DEF HandleRecords
    <2>5. UNCHANGED <<cache, swapped>>
      BY <1>4 DEF OpenFile
    <2>6. \A d \in Callers : SeenTogether(dbFile', caller'[d].token, caller'[d].saw)
      BY <1>n, <2>1, <2>3
    <2>7. cache.handle # NoHandle => cache.handle # h /\ handle'[cache.handle] = handle[cache.handle]
      BY <1>t, <2>4 DEF KeepsUpInv
    <2>8. CachedTokenInv'
      BY <1>n, <1>t, <2>1, <2>3, <2>5, <2>7 DEF CachedTokenInv
    <2>9. OpenedInv'
      <3>1. caller[c].saw <= dbFile.files
        BY DEF SeenTogether
      <3>2. \A d \in Callers : d # c => caller[d].at # "opened"
        BY <1>4, <1>t, HolderIsUnique DEF OpenFile, CacheTypeOK
      <3>3. /\ handle'[caller'[c].handle].file # Missing
            /\ handle'[caller'[c].handle].file >= caller'[c].saw
        <4>1. caller[c].saw <= dbFile'.file
          BY <1>n, <2>1, <2>2, <3>1
        <4>2. caller'[c].handle = h /\ caller'[c].saw = caller[c].saw
          BY <2>3
        <4>3. handle'[h].file = dbFile'.file
          BY <2>4
        <4>4. dbFile'.file # Missing /\ dbFile'.file \in Nat /\ caller[c].saw \in Nat
          BY <1>n, <2>2
        <4> QED
          BY <4>1, <4>2, <4>3, <4>4
      <3>4. \A d \in Callers : caller'[d].at = "opened" => d = c
        BY <2>3, <3>2
      <3> QED
        BY <3>3, <3>4 DEF OpenedInv
    <2>10. NeverOlderThanSeen'
      <3>1. \A d \in Callers : caller[d].at = "using" => caller[d].handle \in Handles \ {h}
        BY <1>t DEF KeepsUpInv
      <3>2. ASSUME NEW d \in Callers, caller'[d].at = "using"
            PROVE  /\ caller[d].at = "using"
                   /\ handle'[caller'[d].handle].file = handle[caller[d].handle].file
                   /\ caller'[d].saw = caller[d].saw
        <4>1. d # c
          BY <2>3, <3>2
        <4>2. caller'[d] = caller[d] /\ caller[d].handle \in Handles \ {h}
          BY <2>3, <3>1, <3>2, <4>1
        <4> QED
          BY <2>4, <3>2, <4>2
      <3> QED
        BY <2>5, <3>2 DEF NeverOlderThanSeen
    <2> QED
      BY <2>1, <2>6, <2>8, <2>9, <2>10
  <1>5. ASSUME NEW c \in Callers, OpenFails(c) \/ CallEnds(c) PROVE OlderInv'
    <2>1. /\ caller'[c].at = "idle" /\ caller'[c].token = 0 /\ caller'[c].saw = 0
          /\ \A d \in Callers : d # c => caller'[d] = caller[d]
          /\ UNCHANGED <<dbFile, handle, cache, swapped>>
      BY <1>5, <1>t DEF OpenFails, CallEnds, IdleCaller
    <2>2. SeenTogether(dbFile, 0, 0)
      BY <1>n DEF SeenTogether, Missing
    <2>3. CachedTokenInv' /\ OpenedInv' /\ NeverOlderThanSeen'
      BY <2>1 DEF CachedTokenInv, OpenedInv, NeverOlderThanSeen
    <2> QED
      BY <2>1, <2>2, <2>3
  <1>6. ASSUME NEW c \in Callers, CacheStore(c) PROVE OlderInv'
    <2> DEFINE new == caller[c].handle
    <2>1. /\ caller[c].at = "opened" /\ dbFile' = dbFile
          /\ cache'.handle = new /\ cache'.token = dbFile.token
          /\ swapped' = (swapped \/ dbFile.file # handle[new].file)
      BY <1>6 DEF CacheStore
    <2>2. /\ \A d \in Callers : /\ d # c => caller'[d] = caller[d]
                                /\ caller'[d].token = caller[d].token
                                /\ caller'[d].saw = caller[d].saw
                                /\ caller'[d].handle = caller[d].handle
          /\ caller'[c].at = "using"
      BY <1>6, <1>t DEF CacheStore, CallerRecords
    <2>3. \A g \in Handles : handle'[g].file = handle[g].file
      BY <1>6, <1>t DEF CacheStore, retireStore, HandleRecords
    <2>4. new \in Handles /\ handle[new].file # Missing /\ handle[new].file >= caller[c].saw
      BY <1>t, <2>1 DEF KeepsUpInv, OpenedInv
    <2>5. CachedTokenInv'
      <3> SUFFICES ASSUME ~swapped'
                   PROVE  CachedTokenInv'
        BY DEF CachedTokenInv
      <3>1. dbFile.file = handle'[new].file /\ dbFile.file = dbFile.files
            /\ dbFile.token = dbFile.tokens /\ dbFile.token # 0
        BY <2>1, <2>3, <2>4 DEF LastInv
      <3>2. SeenTogether(dbFile, dbFile.token, dbFile.file)
        BY <1>n, <3>1 DEF SeenTogether
      <3>3. \A d \in Callers : caller[d].token = dbFile.token => caller[d].saw = dbFile.file
        BY <3>1 DEF SeenTogether
      <3> QED
        BY <2>1, <2>2, <3>1, <3>2, <3>3 DEF CachedTokenInv
    <2>6. OpenedInv'
      <3>1. \A d \in Callers : d # c => caller[d].at # "opened"
        BY <1>t, <2>1, HolderIsUnique DEF CacheTypeOK
      <3> QED
        BY <2>2, <3>1 DEF OpenedInv
    <2>7. NeverOlderThanSeen'
      <3>1. handle'[caller'[c].handle].file >= caller'[c].saw
        BY <2>2, <2>3, <2>4
      <3>2. ASSUME NEW d \in Callers, d # c, caller'[d].at = "using"
            PROVE  /\ caller[d].at = "using"
                   /\ handle'[caller'[d].handle].file = handle[caller[d].handle].file
                   /\ caller'[d].saw = caller[d].saw
        <4>1. caller'[d] = caller[d]
          BY <2>2, <3>2
        <4>2. caller[d].handle \in Handles
          BY <1>t, <3>2, <4>1 DEF KeepsUpInv
        <4> QED
          BY <2>3, <3>2, <4>1, <4>2
      <3> QED
        BY <2>1, <3>1, <3>2 DEF NeverOlderThanSeen
    <2> QED
      BY <2>1, <2>2, <2>5, <2>6, <2>7
  <1>7. ASSUME NEW h \in Handles, CloseRetired(h) PROVE OlderInv'
    <2>1. /\ \A g \in Handles : handle'[g].file = handle[g].file
          /\ UNCHANGED <<dbFile, cache, caller, swapped>>
      BY <1>7, <1>t DEF CloseRetired, HandleRecords
    <2> QED
      BY <1>t, <2>1 DEF CachedTokenInv, OpenedInv, NeverOlderThanSeen, KeepsUpInv
  <1>8. CASE Tick
    <2>1. \A h \in Handles : handle'[h].file = handle[h].file
      BY <1>8, <1>t DEF Tick, HandleRecords
    <2>2. \A c \in Callers : /\ caller'[c].at = caller[c].at
                             /\ caller'[c].token = caller[c].token
                             /\ caller'[c].saw = caller[c].saw
                             /\ caller'[c].handle = caller[c].handle
      <3> TAKE c \in Callers
      <3>1. /\ caller[c] \in CallerRecords
            /\ caller'[c] \in {caller[c], [caller[c] EXCEPT !.ticks = @ + 1]}
        BY <1>8, <1>t DEF Tick
      <3> QED
        BY <3>1 DEF CallerRecords
    <2>3. UNCHANGED <<dbFile, cache, swapped>>
      BY <1>8 DEF Tick
    <2> QED
      BY <1>t, <2>1, <2>2, <2>3 DEF CachedTokenInv, OpenedInv, NeverOlderThanSeen, KeepsUpInv
  <1>9. CASE UNCHANGED cacheVars
    BY <1>9 DEF cacheVars, CachedTokenInv, OpenedInv, NeverOlderThanSeen
  <1> QED
    BY <1>1, <1>2, <1>3, <1>4, <1>5, <1>6, <1>7, <1>8, <1>9 DEF CacheNext

\* However stat, lookup, open and store of several callers interleave with the
\* writers of the file, a tool call reads no older file than it saw, unless the
\* file was replaced between an open and the token read after it.
THEOREM NotOlderThanSeen == CacheSpec => []NeverOlderThanSeen
  <1>1. CacheInit => OlderInv
    BY StoreCacheAssumption
       DEF CacheInit, OlderInv, LastInv, SeenTogether, CachedTokenInv, OpenedInv,
           NeverOlderThanSeen, IdleCaller, Missing
  <1>2. OlderInv => NeverOlderThanSeen
    BY DEF OlderInv
  <1> QED
    BY <1>1, <1>2, CacheInitially, CacheStep, OlderStep, PTL DEF CacheSpec
------------------------------------------------------------------------------
(* Bridge *)

QueryRecords == [action : {"hover", "rename"}, id : Ids,
                 at : {"call", "check", "read", "initialized", "didOpen", "shutdown", "ended"},
                 result : {"none", "fallback", "result", "request"}]
ServerRecords == [wrapped : BOOLEAN, alive : BOOLEAN, writing : Frames \cup {NoFrame}]
Answers == {"empty", "result", "error", "request"}

\* Calls are made in the order of their ids; the channel that holds an answer
\* is that of an earlier call, which waits no more.
IdsInv ==
  /\ \A id \in pending : id <= query.id
  /\ \A id \in Ids : box[id] # "empty" => id \notin pending /\ id < query.id
  /\ At("call") => query.id \notin pending
  /\ query.at \in {"initialized", "didOpen"} => query.id = 1
  /\ query.result # "none" => query.at \in {"shutdown", "ended"}

\* An answer in the pipe was given, a request was made.
Real(f) == /\ f.kind = "result" => [kind |-> "result", id |-> f.id] \in answered
           /\ f.kind = "request" => f.id \in requested
FramesInv == Real(server.writing) /\ \A i \in 1..Len(stdout) : Real(stdout[i])

BridgeInv == BridgeTypeOK /\ IdsInv /\ FramesInv /\ AnswerIsToThisCall

LEMMA BridgeTypes ==
  ASSUME BridgeTypeOK
  PROVE  /\ query \in QueryRecords /\ server \in ServerRecords
         /\ box \in [Ids -> Answers]
         /\ stdin \in Seq(Messages) /\ stdout \in Seq(Frames)
  BY DEF BridgeTypeOK, QueryRecords, ServerRecords, Answers

LEMMA BridgeInitially == BridgeInit => BridgeInv
  <1> SUFFICES ASSUME BridgeInit PROVE BridgeInv
    OBVIOUS
  <1>1. BridgeTypeOK
    <2>1. query \in QueryRecords /\ server \in ServerRecords
      <3>1. PICK a \in {"hover", "rename"}, i \in {1}, p \in {"call"}, x \in {"none"} :
              query = [action |-> a, id |-> i, at |-> p, result |-> x]
        BY DEF BridgeInit
      <3>2. query \in QueryRecords
        BY <3>1 DEF QueryRecords, Ids
      <3>3. PICK w \in BOOLEAN, l \in {TRUE}, y \in {NoFrame} :
              server = [wrapped |-> w, alive |-> l, writing |-> y]
        BY DEF BridgeInit
      <3>4. server \in ServerRecords
        BY <3>3 DEF ServerRecords
      <3> QED
        BY <3>2, <3>4
    <2>2. query.at = "call" /\ noise \in 0..MaxNoise
      BY BridgeAssumption DEF BridgeInit
    <2>3. /\ box \in [Ids -> Answers] /\ Len(stdin) <= PipeSize /\ Len(stdout) <= PipeSize
          /\ stdin \in Seq(Messages) /\ stdout \in Seq(Frames)
      BY BridgeAssumption DEF BridgeInit, Answers
    <2> QED
      BY <2>1, <2>2, <2>3
         DEF BridgeInit, BridgeTypeOK, QueryRecords, ServerRecords, Answers
  <1>2. IdsInv /\ AnswerIsToThisCall
    BY DEF BridgeInit, IdsInv, AnswerIsToThisCall, At, Ids
  <1>3. FramesInv
    BY DEF BridgeInit, FramesInv, Real, NoFrame
  <1> QED
    BY <1>1, <1>2, <1>3 DEF BridgeInv

\* What a failed call makes of the query.
LEMMA FailedQuery ==
  ASSUME BridgeInv, query.at \in {"call", "check", "read"}, CallFails
  PROVE  /\ query' \in QueryRecords /\ query'.id >= query.id
         /\ query'.at \in {"call", "ended"}
         /\ query'.at = "call" => query'.id > query.id /\ query'.result = "none"
         /\ query'.result \in {"none", "fallback"}
         /\ query'.result # "none" => query'.at = "ended"
  <1>1. query \in QueryRecords /\ query.result = "none"
    BY BridgeTypes DEF BridgeInv, IdsInv, QueryRecords
  <1>2. CASE query.action = "rename" /\ query.id = 2
    <2>1. query' = [query EXCEPT !.at = "call", !.id = 3]
      BY <1>2 DEF CallFails
    <2>2. query' \in QueryRecords
      <3>1. 3 \in Ids
        BY DEF Ids
      <3> QED
        BY <1>1, <2>1, <3>1 DEF QueryRecords
    <2>3. query'.at = "call" /\ query'.id = 3 /\ query'.result = query.result
      BY <1>1, <2>1 DEF QueryRecords
    <2> QED
      BY <1>1, <1>2, <2>2, <2>3
  <1>3. CASE ~(query.action = "rename" /\ query.id = 2)
    <2>1. query' = [query EXCEPT !.at = "ended", !.result = "fallback"]
      BY <1>3 DEF CallFails
    <2>2. query' \in QueryRecords
      BY <1>1, <2>1 DEF QueryRecords
    <2>3. query'.at = "ended" /\ query'.id = query.id /\ query'.result = "fallback"
      BY <1>1, <2>1 DEF QueryRecords
    <2>4. query.id \in Int
      BY <1>1 DEF QueryRecords, Ids
    <2> QED
      BY <2>2, <2>3, <2>4
  <1> QED
    BY <1>2, <1>3

\* A failed call leaves the invariant alone, whatever was written.
LEMMA FailureKeeps ==
  ASSUME BridgeInv, query.at \in {"call", "check", "read"}, CallFails,
         pending' \in {pending, pending \cup {query.id}}, UNCHANGED <<box, answered, requested>>
  PROVE  IdsInv' /\ AnswerIsToThisCall' /\ query' \in QueryRecords
  <1>1. query \in QueryRecords /\ query.id \in Int /\ query'.id \in Int
    BY BridgeTypes, FailedQuery DEF BridgeInv, QueryRecords, Ids
  <1>2. pending \subseteq Ids
    BY DEF BridgeInv, BridgeTypeOK
  <1>3. \A id \in pending' : id \in Ids /\ id <= query.id
    BY <1>1, <1>2 DEF BridgeInv, IdsInv, QueryRecords
  <1>4. query'.at \notin {"initialized", "didOpen", "shutdown"} /\ query'.id >= query.id
    BY FailedQuery
  <1>5. ASSUME NEW id \in Ids, box[id] # "empty" PROVE id \notin pending' /\ id < query'.id
    BY <1>5, <1>1, <1>4 DEF BridgeInv, IdsInv, Ids
  <1>6. IdsInv'
    BY <1>1, <1>3, <1>4, <1>5, FailedQuery DEF IdsInv, At, Ids
  <1>7. AnswerIsToThisCall'
    BY FailedQuery DEF AnswerIsToThisCall
  <1> QED
    BY <1>6, <1>7, FailedQuery

LEMMA CallStep == BridgeInv /\ Call => BridgeInv'
  <1> SUFFICES ASSUME BridgeInv, Call PROVE BridgeInv'
    OBVIOUS
  <1> DEFINE msg == [kind |-> "call", id |-> query.id]
  <1>1. /\ query.at = "call" /\ pending' = pending \cup {query.id}
        /\ UNCHANGED <<box, stdout, server, unanswered, noise, clock, requested, answered>>
        /\ \/ /\ server.alive /\ Len(stdin) < PipeSize /\ stdin' = Append(stdin, msg)
              /\ query' = [query EXCEPT !.at = "check"]
           \/ CallFails /\ UNCHANGED stdin
    BY DEF Call, Write, Goto, At
  <1>2. query \in QueryRecords /\ stdin \in Seq(Messages) /\ query.id \in Ids
    BY BridgeTypes DEF BridgeInv, QueryRecords
  <1>3. stdin' \in Seq(Messages) /\ Len(stdin') <= PipeSize
    <2>1. msg \in Messages
      BY <1>2 DEF Messages
    <2>2. Len(stdin) <= PipeSize
      BY DEF BridgeInv, BridgeTypeOK
    <2> QED
      BY <1>1, <1>2, <2>1, <2>2, BridgeAssumption
  <1>4. query' \in QueryRecords /\ IdsInv' /\ AnswerIsToThisCall'
    <2>1. CASE query' = [query EXCEPT !.at = "check"]
      <3>1. /\ query' \in QueryRecords /\ query'.id = query.id /\ query'.at = "check"
            /\ query'.result = query.result /\ query.result = "none"
        BY <1>1, <1>2, <2>1 DEF QueryRecords, BridgeInv, IdsInv
      <3>2. IdsInv'
        <4>1. \A id \in pending' : id <= query'.id
          BY <1>1, <1>2, <3>1 DEF BridgeInv, IdsInv, Ids
        <4>2. \A id \in Ids : box'[id] # "empty" => id \notin pending' /\ id < query'.id
          BY <1>1, <1>2, <3>1 DEF BridgeInv, IdsInv, Ids
        <4> QED
          BY <3>1, <4>1, <4>2 DEF IdsInv, At
      <3> QED
        BY <3>1, <3>2 DEF AnswerIsToThisCall
    <2>2. CASE CallFails
      BY <1>1, <2>2, FailureKeeps
    <2> QED
      BY <1>1, <2>1, <2>2
  <1>5. query'.at \in {"check", "read"} => query'.id \in pending'
    <2>1. CASE query' = [query EXCEPT !.at = "check"]
      BY <1>1, <1>2, <2>1 DEF QueryRecords
    <2>2. CASE CallFails
      BY <1>1, <2>2, FailedQuery
    <2> QED
      BY <1>1, <2>1, <2>2
  <1>6. BridgeTypeOK'
    BY <1>1, <1>2, <1>3, <1>4, <1>5 DEF BridgeInv, BridgeTypeOK, QueryRecords
  <1>7. FramesInv'
    BY <1>1 DEF BridgeInv, FramesInv, Real
  <1> QED
    BY <1>4, <1>6, <1>7 DEF BridgeInv

LEMMA NotifyStep == BridgeInv /\ Notify => BridgeInv'
  <1> SUFFICES ASSUME BridgeInv, Notify PROVE BridgeInv'
    OBVIOUS
  <1>1. /\ UNCHANGED <<pending, box, stdout, server, unanswered, noise, clock, requested, answered>>
        /\ \/ server.alive /\ Len(stdin) < PipeSize /\ stdin' = Append(stdin, Note)
           \/ UNCHANGED stdin
        /\ \/ query.at = "initialized" /\ query' = [query EXCEPT !.at = "didOpen"]
           \/ query.at = "didOpen" /\ query' = [query EXCEPT !.at = "call", !.id = 2]
           \/ query.at = "shutdown" /\ query' = [query EXCEPT !.at = "ended"]
    BY DEF Notify, Write, Goto, At
  <1>2. query \in QueryRecords /\ stdin \in Seq(Messages) /\ query.id \in Ids
    BY BridgeTypes DEF BridgeInv, QueryRecords
  <1>3. stdin' \in Seq(Messages) /\ Len(stdin') <= PipeSize
    <2>1. Note \in Messages
      BY DEF Messages
    <2>2. Len(stdin) <= PipeSize
      BY DEF BridgeInv, BridgeTypeOK
    <2> QED
      BY <1>1, <1>2, <2>1, <2>2, BridgeAssumption
  <1>4. /\ query' \in QueryRecords /\ query'.result = query.result
        /\ query'.at \in {"didOpen", "call", "ended"}
        /\ query'.at = "didOpen" => query.at = "initialized" /\ query'.id = query.id
        /\ query'.at = "call" => query.at = "didOpen" /\ query'.id = 2
        /\ query'.at = "ended" => query.at = "shutdown" /\ query'.id = query.id
    <2>1. CASE query.at \in {"initialized", "shutdown"}
      BY <1>1, <1>2, <2>1 DEF QueryRecords
    <2>2. CASE query.at = "didOpen"
      <3>1. 2 \in Ids /\ query' = [query EXCEPT !.at = "call", !.id = 2]
        BY <1>1, <2>2 DEF Ids
      <3> QED
        BY <1>2, <2>2, <3>1 DEF QueryRecords
    <2> QED
      BY <1>1, <2>1, <2>2
  <1>5. BridgeTypeOK'
    BY <1>1, <1>3, <1>4 DEF BridgeInv, BridgeTypeOK, QueryRecords
  <1>6. IdsInv'
    <2>1. query'.id >= query.id /\ (query'.at = "call" => query.id = 1 /\ query'.id = 2)
      BY <1>2, <1>4 DEF BridgeInv, IdsInv, Ids
    <2>2. \A id \in pending' : id <= query.id
      BY <1>1 DEF BridgeInv, IdsInv
    <2>3. pending \subseteq Ids /\ query'.id \in Ids
      BY <1>4 DEF BridgeInv, BridgeTypeOK, QueryRecords
    <2>4. \A id \in pending' : id <= query'.id
      BY <1>1, <1>2, <2>1, <2>2, <2>3 DEF Ids
    <2>5. \A id \in Ids : box'[id] # "empty" => id \notin pending' /\ id < query'.id
      BY <1>1, <1>2, <2>1, <2>3 DEF BridgeInv, IdsInv, Ids
    <2>6. query'.at = "call" => query'.id \notin pending'
      BY <1>2, <2>1, <2>2
    <2>7. /\ query'.at \in {"initialized", "didOpen"} => query'.id = 1
          /\ query'.result # "none" => query'.at \in {"shutdown", "ended"}
      BY <1>4 DEF BridgeInv, IdsInv
    <2> QED
      BY <2>4, <2>5, <2>6, <2>7 DEF IdsInv, At
  <1>7. AnswerIsToThisCall'
    BY <1>1, <1>4 DEF BridgeInv, IdsInv, AnswerIsToThisCall
  <1>8. FramesInv'
    BY <1>1 DEF BridgeInv, FramesInv, Real
  <1> QED
    BY <1>5, <1>6, <1>7, <1>8 DEF BridgeInv

LEMMA CheckDeadlineStep == BridgeInv /\ CheckDeadline => BridgeInv'
  <1> SUFFICES ASSUME BridgeInv, CheckDeadline PROVE BridgeInv'
    OBVIOUS
  <1>1. /\ query.at = "check"
        /\ UNCHANGED <<pending, box, stdin, stdout, server, unanswered, noise, clock,
                       requested, answered>>
        /\ query' = [query EXCEPT !.at = "read"] \/ CallFails
    BY DEF CheckDeadline, Goto, At
  <1>2. query \in QueryRecords
    BY BridgeTypes DEF BridgeInv
  <1>3. FramesInv'
    BY <1>1 DEF BridgeInv, FramesInv, Real
  <1>4. CASE query' = [query EXCEPT !.at = "read"]
    <2>1. /\ query' \in QueryRecords /\ query'.id = query.id /\ query'.at = "read"
          /\ query'.result = query.result
      BY <1>2, <1>4 DEF QueryRecords
    <2>2. BridgeTypeOK'
      BY <1>1, <2>1 DEF BridgeInv, BridgeTypeOK, QueryRecords
    <2>3. IdsInv' /\ AnswerIsToThisCall'
      BY <1>1, <2>1 DEF BridgeInv, IdsInv, AnswerIsToThisCall, At
    <2> QED
      BY <1>3, <2>2, <2>3 DEF BridgeInv
  <1>5. CASE CallFails
    <2>1. IdsInv' /\ AnswerIsToThisCall' /\ query' \in QueryRecords /\ query'.at \in {"call", "ended"}
      BY <1>1, <1>5, FailureKeeps, FailedQuery
    <2>2. BridgeTypeOK'
      BY <1>1, <2>1 DEF BridgeInv, BridgeTypeOK, QueryRecords
    <2> QED
      BY <1>3, <2>1, <2>2 DEF BridgeInv
  <1> QED
    BY <1>1, <1>4, <1>5

\* An answer to the call that waits: the query moves on with it.
LEMMA TakeMine ==
  ASSUME BridgeInv, query.at = "read", NEW f \in Frames, Real(f), f.id = query.id,
         CallReturns(f.kind), pending' = pending \ {f.id},
         UNCHANGED <<box, answered, requested>>
  PROVE  IdsInv' /\ AnswerIsToThisCall' /\ query' \in QueryRecords
         /\ query'.at \notin {"check", "read"}
  <1>1. /\ query \in QueryRecords /\ query.id \in Ids /\ query.result = "none"
        /\ pending \subseteq Ids
    BY BridgeTypes DEF BridgeInv, QueryRecords, IdsInv, BridgeTypeOK
  <1>2. /\ \A id \in pending' : id \in Ids /\ id < query.id
        /\ \A id \in Ids : box'[id] # "empty" => id \notin pending' /\ id < query.id
    BY <1>1 DEF BridgeInv, IdsInv, Ids
  <1>3. CASE f.kind = "error"
    <2>1. CallFails
      BY <1>3 DEF CallReturns
    <2>2. /\ query'.id >= query.id /\ query'.at \in {"call", "ended"} /\ query'.id \in Ids
          /\ query'.result # "none" => query'.at = "ended"
          /\ query'.result \in {"none", "fallback"} /\ query' \in QueryRecords
      BY <2>1, FailedQuery DEF QueryRecords
    <2>3. \A id \in pending' : id < query'.id
      BY <1>1, <1>2, <2>2 DEF Ids
    <2>4. \A id \in Ids : box'[id] # "empty" => id \notin pending' /\ id < query'.id
      BY <1>1, <1>2, <2>2 DEF Ids
    <2>5. IdsInv'
      BY <1>1, <1>2, <2>2, <2>3, <2>4 DEF IdsInv, At, Ids
    <2> QED
      BY <2>2, <2>5 DEF AnswerIsToThisCall
  <1>4. CASE f.kind # "error" /\ query.id = 1
    <2>1. query' = [query EXCEPT !.at = "initialized"]
      BY <1>4 DEF CallReturns, Goto
    <2>2. /\ query' \in QueryRecords /\ query'.id = 1 /\ query'.at = "initialized"
          /\ query'.result = "none"
      BY <1>1, <1>4, <2>1 DEF QueryRecords
    <2>3. IdsInv'
      BY <1>2, <1>4, <2>2 DEF IdsInv, At, Ids
    <2> QED
      BY <2>2, <2>3 DEF AnswerIsToThisCall
  <1>5. CASE f.kind # "error" /\ query.id # 1
    <2>1. query' = [query EXCEPT !.at = "shutdown", !.result = f.kind]
      BY <1>5 DEF CallReturns
    <2>2. f.kind \in {"result", "request"}
      <3>1. f.kind \in {"result", "error", "request"} \/ f.id = 0
        BY DEF Frames, Note
      <3> QED
        BY <1>1, <1>5, <3>1 DEF Ids
    <2>3. /\ query' \in QueryRecords /\ query'.id = query.id /\ query'.at = "shutdown"
          /\ query'.result = f.kind
      BY <1>1, <2>1, <2>2 DEF QueryRecords
    <2>4. IdsInv'
      BY <1>1, <1>2, <2>3 DEF IdsInv, At, Ids
    <2>5. AnswerIsToThisCall'
      BY <2>2, <2>3 DEF AnswerIsToThisCall, Real
    <2> QED
      BY <2>3, <2>4, <2>5
  <1> QED
    BY <1>3, <1>4, <1>5

LEMMA ReadStep == BridgeInv /\ Read => BridgeInv'
  <1> SUFFICES ASSUME BridgeInv, Read PROVE BridgeInv'
    OBVIOUS
  <1> DEFINE f == Head(stdout)
  <1>1. /\ query.at = "read" /\ UNCHANGED <<stdin, server, unanswered, noise, clock,
                                            requested, answered>>
        /\ query \in QueryRecords /\ query.id \in pending /\ stdout \in Seq(Frames)
        /\ pending \subseteq Ids /\ query.id \in Ids /\ box \in [Ids -> Answers]
        /\ Len(stdout) <= PipeSize
    BY BridgeTypes DEF Read, At, BridgeInv, BridgeTypeOK
  <1>2. \/ stdout # <<>> /\ stdout' = Tail(stdout)
        \/ UNCHANGED stdout
    BY DEF Read
  <1>3. /\ stdout' \in Seq(Frames) /\ Len(stdout') <= PipeSize
        /\ \A i \in 1..Len(stdout') : \E j \in 1..Len(stdout) : stdout'[i] = stdout[j]
    <2>1. CASE stdout # <<>> /\ stdout' = Tail(stdout)
      <3>1. /\ stdout' \in Seq(Frames) /\ Len(stdout') = Len(stdout) - 1
            /\ \A i \in 1..Len(stdout') : stdout'[i] = stdout[i + 1]
        BY <1>1, <2>1
      <3>2. \A i \in 1..Len(stdout') : i + 1 \in 1..Len(stdout)
        BY <1>1, <3>1
      <3> QED
        BY <1>1, <3>1, <3>2, BridgeAssumption
    <2>2. CASE UNCHANGED stdout
      BY <1>1, <2>2
    <2> QED
      BY <1>2, <2>1, <2>2
  <1>4. FramesInv'
    BY <1>1, <1>3 DEF BridgeInv, FramesInv, Real
  <1>5. ASSUME query' \in QueryRecords, pending' \subseteq pending, box' \in [Ids -> Answers],
               query'.at \in {"check", "read"} => query'.id \in pending'
        PROVE  BridgeTypeOK'
    BY <1>1, <1>3, <1>5 DEF BridgeInv, BridgeTypeOK, QueryRecords, Answers
  <1>6. CASE CallFails /\ UNCHANGED <<pending, box>>
    <2>1. /\ IdsInv' /\ AnswerIsToThisCall' /\ query' \in QueryRecords
          /\ query'.at \in {"call", "ended"}
      BY <1>1, <1>6, FailureKeeps, FailedQuery
    <2> QED
      BY <1>1, <1>4, <1>5, <1>6, <2>1 DEF BridgeInv
  <1>7. CASE Goto("check") /\ UNCHANGED <<pending, box>>
    <2>1. /\ query' \in QueryRecords /\ query'.at = "check" /\ query'.id = query.id
          /\ query'.result = query.result
      BY <1>1, <1>7 DEF Goto, QueryRecords
    <2>2. IdsInv' /\ AnswerIsToThisCall'
      BY <1>1, <1>7, <2>1 DEF BridgeInv, IdsInv, AnswerIsToThisCall, At
    <2> QED
      BY <1>1, <1>4, <1>5, <1>7, <2>1, <2>2 DEF BridgeInv
  <1>8. CASE stdout # <<>> /\ Take(f)
    <2>1. /\ f \in Frames /\ Real(f) /\ f.id \in pending /\ f.id \in Ids
          /\ pending' = pending \ {f.id}
      <3>1. f = stdout[1] /\ 1 \in 1..Len(stdout)
        BY <1>1, <1>8
      <3> QED
        BY <1>1, <1>8, <3>1 DEF Take, BridgeInv, FramesInv
    <2>2. CASE f.id = query.id
      <3>1. CallReturns(f.kind) /\ UNCHANGED box
        BY <1>8, <2>2 DEF Take
      <3>2. /\ IdsInv' /\ AnswerIsToThisCall' /\ query' \in QueryRecords
            /\ query'.at \notin {"check", "read"}
        BY <1>1, <2>1, <2>2, <3>1, TakeMine
      <3> QED
        BY <1>1, <1>4, <1>5, <2>1, <3>1, <3>2 DEF BridgeInv
    <2>3. CASE f.id # query.id
      <3>1. box' = [box EXCEPT ![f.id] = f.kind] /\ query' = [query EXCEPT !.at = "check"]
        BY <1>8, <2>3 DEF Take, Goto
      <3>2. /\ query' \in QueryRecords /\ query'.at = "check" /\ query'.id = query.id
            /\ query'.result = query.result
        BY <1>1, <3>1 DEF QueryRecords
      <3>3. f.kind \in Answers
        <4>1. f.kind \in {"result", "error", "request"} \/ f.id = 0
          BY <2>1 DEF Frames, Note
        <4> QED
          BY <2>1, <4>1 DEF Ids, Answers
      <3>4. box' \in [Ids -> Answers] /\ \A id \in Ids : id # f.id => box'[id] = box[id]
        BY <1>1, <2>1, <3>1, <3>3
      <3>5. f.id < query.id
        BY <1>1, <2>1, <2>3 DEF BridgeInv, IdsInv, Ids
      <3>6. ASSUME NEW id \in Ids, box'[id] # "empty" PROVE id \notin pending' /\ id < query'.id
        BY <2>1, <3>2, <3>4, <3>5, <3>6 DEF BridgeInv, IdsInv
      <3>7. IdsInv'
        BY <1>1, <2>1, <3>2, <3>6 DEF BridgeInv, IdsInv, At
      <3>8. AnswerIsToThisCall'
        BY <1>1, <3>2 DEF BridgeInv, AnswerIsToThisCall
      <3> QED
        BY <1>1, <1>4, <1>5, <2>1, <2>3, <3>2, <3>4, <3>7, <3>8 DEF BridgeInv
    <2> QED
      BY <2>2, <2>3
  <1> QED
    BY <1>6, <1>7, <1>8 DEF Read

\* The server only adds to what was answered and requested, and what it writes
\* it has done.
LEMMA ServerStep ==
  ASSUME BridgeInv, UNCHANGED <<query, pending, box>>, BridgeTypeOK',
         answered \subseteq answered', requested \subseteq requested',
         FramesInv'
  PROVE  BridgeInv'
  <1>1. IdsInv'
    BY DEF BridgeInv, IdsInv, At
  <1>2. AnswerIsToThisCall'
    BY DEF BridgeInv, AnswerIsToThisCall
  <1> QED
    BY <1>1, <1>2 DEF BridgeInv

LEMMA ServerMoves ==
  BridgeInv /\ (ServerReads \/ ServerWrites \/ ServerExits \/ Deadline \/ KillServerProcess)
    => BridgeInv'
  <1> SUFFICES ASSUME BridgeInv,
                      ServerReads \/ ServerWrites \/ ServerExits \/ Deadline \/ KillServerProcess
               PROVE  BridgeInv'
    OBVIOUS
  <1>0. /\ server \in ServerRecords /\ stdin \in Seq(Messages) /\ stdout \in Seq(Frames)
        /\ Len(stdin) <= PipeSize /\ Len(stdout) <= PipeSize
        /\ Real(server.writing) /\ \A i \in 1..Len(stdout) : Real(stdout[i])
    BY BridgeTypes DEF BridgeInv, BridgeTypeOK, FramesInv
  <1>1. UNCHANGED <<query, pending, box, answered, requested>>
    BY DEF ServerReads, ServerWrites, ServerExits, Deadline, KillServerProcess
  <1>n. Real(NoFrame)
    BY DEF Real, NoFrame
  <1>2. ASSUME server' \in ServerRecords, Real(server'.writing), UNCHANGED stdout,
               UNCHANGED stdin, clock' \in {"ahead", "over", "killed"},
               UNCHANGED <<unanswered, noise>>
        PROVE  BridgeInv'
    <2>1. BridgeTypeOK'
      BY <1>1, <1>2 DEF BridgeInv, BridgeTypeOK, ServerRecords
    <2>2. FramesInv'
      BY <1>0, <1>1, <1>2 DEF FramesInv, Real
    <2> QED
      BY <1>1, <2>1, <2>2, ServerStep
  <1>3. CASE ServerReads
    <2>1. /\ stdin # <<>> /\ stdin' = Tail(stdin)
          /\ unanswered' \in {unanswered, unanswered \cup {Head(stdin).id}}
          /\ Head(stdin).kind # "call" => unanswered' = unanswered
          /\ UNCHANGED <<stdout, server, noise, clock>>
      BY <1>3 DEF ServerReads
    <2>2. stdin' \in Seq(Messages) /\ Len(stdin') <= PipeSize /\ Head(stdin) \in Messages
      BY <1>0, <2>1, BridgeAssumption
    <2>3. Head(stdin).kind = "call" => Head(stdin).id \in Ids
      BY <2>2 DEF Messages, Note
    <2>4. BridgeTypeOK'
      BY <1>1, <2>1, <2>2, <2>3 DEF BridgeInv, BridgeTypeOK
    <2>5. FramesInv'
      BY <1>0, <1>1, <2>1 DEF FramesInv, Real
    <2> QED
      BY <1>1, <2>4, <2>5, ServerStep
  <1>4. CASE ServerWrites
    <2>1. /\ server.writing # NoFrame /\ Len(stdout) < PipeSize
          /\ stdout' = Append(stdout, server.writing)
          /\ server' = [server EXCEPT !.writing = NoFrame]
          /\ UNCHANGED <<stdin, unanswered, noise, clock>>
      BY <1>4 DEF ServerWrites
    <2>2. server.writing \in Frames
      BY <1>0, <2>1 DEF ServerRecords
    <2>3. /\ stdout' \in Seq(Frames) /\ Len(stdout') = Len(stdout) + 1
          /\ \A i \in 1..Len(stdout) : stdout'[i] = stdout[i]
          /\ stdout'[Len(stdout) + 1] = server.writing
      BY <1>0, <2>1, <2>2
    <2>4. server' \in ServerRecords /\ server'.writing = NoFrame
      BY <1>0, <2>1 DEF ServerRecords
    <2>5. Len(stdout') <= PipeSize
      BY <1>0, <2>1, <2>3, BridgeAssumption
    <2>6. BridgeTypeOK'
      BY <1>1, <2>1, <2>3, <2>4, <2>5 DEF BridgeInv, BridgeTypeOK, ServerRecords
    <2>7. ASSUME NEW i \in 1..Len(stdout') PROVE Real(stdout'[i])
      <3>1. i \in 1..Len(stdout) \/ i = Len(stdout) + 1
        BY <1>0, <2>3
      <3> QED
        BY <1>0, <2>3, <3>1
    <2>8. FramesInv'
      BY <1>n, <1>1, <2>4, <2>7 DEF FramesInv, Real
    <2> QED
      BY <1>1, <2>6, <2>8, ServerStep
  <1>5. CASE ServerExits
    <2>1. server' \in ServerRecords /\ server'.writing = NoFrame
      BY <1>0, <1>5 DEF ServerExits, ServerRecords
    <2> QED
      BY <1>2, <1>5, <1>n, <2>1 DEF ServerExits, BridgeInv, BridgeTypeOK
  <1>6. CASE Deadline
    BY <1>0, <1>2, <1>6 DEF Deadline
  <1>7. CASE KillServerProcess
    <2>1. server' \in ServerRecords /\ Real(server'.writing)
      BY <1>0, <1>7, <1>n DEF KillServerProcess, ServerRecords
    <2> QED
      BY <1>2, <1>7, <2>1 DEF KillServerProcess
  <1> QED
    BY <1>3, <1>4, <1>5, <1>6, <1>7

LEMMA ServerAnswersStep ==
  ASSUME BridgeInv, NEW id \in Ids, NEW kind \in {"result", "error"}, ServerAnswers(id, kind)
  PROVE  BridgeInv'
  <1> DEFINE f == [kind |-> kind, id |-> id]
  <1>1. /\ server' = [server EXCEPT !.writing = f] /\ unanswered' = unanswered \ {id}
        /\ answered' = answered \cup {f}
        /\ UNCHANGED <<query, pending, box, stdin, stdout, noise, clock, requested>>
    BY DEF ServerAnswers
  <1>2. server \in ServerRecords /\ f \in Frames
    BY BridgeTypes DEF BridgeInv, Frames
  <1>3. server' \in ServerRecords /\ server'.writing = f
    BY <1>1, <1>2 DEF ServerRecords
  <1>4. BridgeTypeOK'
    BY <1>1, <1>3 DEF BridgeInv, BridgeTypeOK, ServerRecords
  <1>5. FramesInv'
    <2>1. Real(f)'
      BY <1>1 DEF Real
    <2>2. \A i \in 1..Len(stdout) : Real(stdout[i]) => Real(stdout[i])'
      BY <1>1 DEF Real
    <2> QED
      BY <1>1, <1>3, <2>1, <2>2 DEF BridgeInv, FramesInv, Real
  <1> QED
    BY <1>1, <1>4, <1>5, ServerStep

LEMMA ServerSpeaksStep ==
  ASSUME BridgeInv, NEW f \in Frames, ServerSpeaks(f)
  PROVE  BridgeInv'
  <1>1. /\ server' = [server EXCEPT !.writing = f] /\ noise < MaxNoise /\ noise' = noise + 1
        /\ requested' = IF f.kind = "request" THEN requested \cup {f.id} ELSE requested
        /\ f.kind \notin {"result", "error"}
        /\ UNCHANGED <<query, pending, box, stdin, stdout, unanswered, clock, answered>>
    BY DEF ServerSpeaks
  <1>2. server \in ServerRecords /\ noise \in 0..MaxNoise
    BY BridgeTypes DEF BridgeInv, BridgeTypeOK
  <1>3. server' \in ServerRecords /\ server'.writing = f
    BY <1>1, <1>2 DEF ServerRecords
  <1>4. f.kind = "request" => f.id \in Ids
    BY DEF Frames, Note
  <1>5. noise' \in 0..MaxNoise
    BY <1>1, <1>2, BridgeAssumption
  <1>6. BridgeTypeOK'
    BY <1>1, <1>3, <1>4, <1>5 DEF BridgeInv, BridgeTypeOK, ServerRecords
  <1>7. FramesInv'
    BY <1>1, <1>3 DEF BridgeInv, FramesInv, Real
  <1> QED
    BY <1>1, <1>6, <1>7, ServerStep

LEMMA BridgeStep == BridgeInv /\ [BridgeNext]_bridgeVars => BridgeInv'
  <1> SUFFICES ASSUME BridgeInv, [BridgeNext]_bridgeVars PROVE BridgeInv'
    OBVIOUS
  <1>1. CASE ClientStep
    BY <1>1, CallStep, NotifyStep, CheckDeadlineStep, ReadStep DEF ClientStep
  <1>2. CASE ServerReads \/ ServerWrites \/ ServerExits \/ Deadline \/ KillServerProcess
    BY <1>2, ServerMoves
  <1>3. ASSUME NEW id \in Ids, NEW kind \in {"result", "error"}, ServerAnswers(id, kind)
        PROVE  BridgeInv'
    BY <1>3, ServerAnswersStep
  <1>4. ASSUME NEW f \in Frames, ServerSpeaks(f) PROVE BridgeInv'
    BY <1>4, ServerSpeaksStep
  <1>5. CASE UNCHANGED bridgeVars
    BY <1>5 DEF bridgeVars, BridgeInv, BridgeTypeOK, IdsInv, FramesInv, Real,
                AnswerIsToThisCall, At
  <1> QED
    BY <1>1, <1>2, <1>3, <1>4, <1>5 DEF BridgeNext

\* The pipes hold no more than fits, and a call that waits is registered.
THEOREM BridgeIsTyped == BridgeSpec => []BridgeTypeOK
  <1>1. BridgeInv => BridgeTypeOK
    BY DEF BridgeInv
  <1> QED
    BY <1>1, BridgeInitially, BridgeStep, PTL DEF BridgeSpec

\* However large the pipes are, and whatever the server sends, in whatever
\* order: what Query returns was the answer to its own call, or the server has
\* used that id for a request.
THEOREM AnswersMatch == BridgeSpec => []AnswerIsToThisCall
  <1>1. BridgeInv => AnswerIsToThisCall
    BY DEF BridgeInv
  <1> QED
    BY <1>1, BridgeInitially, BridgeStep, PTL DEF BridgeSpec

\* No frame the server can send makes the client wait on a channel of its own.
THEOREM ChannelsAreFree == BridgeSpec => []SendNeverBlocks
  <1>1. BridgeInv => SendNeverBlocks
    BY DEF BridgeInv, BridgeTypeOK, IdsInv, SendNeverBlocks
  <1> QED
    BY <1>1, BridgeInitially, BridgeStep, PTL DEF BridgeSpec
=============================================================================
