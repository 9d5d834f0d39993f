------------------------------ MODULE JsonFile ------------------------------
(***************************************************************************)
(* How taskstore.Store.Save and registry.Registry.Save replace a document: *)
(* os.WriteFile to <path>.tmp, then os.Rename to <path>.  The temporary    *)
(* name is the same for every writer, so two saves that overlap work on    *)
(* one inode.                                                              *)
(*                                                                         *)
(* os.WriteFile opens with O_TRUNC and then writes the whole document with *)
(* one write at offset 0; a shorter document written over a longer one     *)
(* leaves the end of the longer one behind.                                *)
(***************************************************************************)
EXTENDS Integers

CONSTANTS
  Writers,     \* goroutines or processes that save
  Docs,        \* documents
  Length,      \* their lengths in bytes, as far as it matters which is longer
  NoDoc,       \* a name that does not exist, an empty file
  SaveCrashes  \* a writer may be killed

ASSUME JsonFileAssumption ==
  /\ Length \in [Docs -> Nat \ {0}]
  /\ NoDoc \notin Docs
  /\ SaveCrashes \in BOOLEAN

\* Only the inode of <path> and that of <path>.tmp are reachable by name; a
\* writer may still hold the descriptor of one that <path> names by now.
Where == {"path", "tmp", "gone"}
Bytes == [doc : Docs \cup {NoDoc}, size : {0} \cup {Length[d] : d \in Docs}]
Empty == [doc |-> NoDoc, size |-> 0]
Whole(b) == b.doc # NoDoc /\ b.size = Length[b.doc]

VARIABLES
  bytes,    \* what the inodes named <path> and <path>.tmp hold
  exists,   \* which of the two names exist
  save,     \* each writer: where it is, its document, where its descriptor is
  overlap   \* ghost: two saves have overlapped

jsonVars == <<bytes, exists, save, overlap>>

JsonTypeOK ==
  /\ bytes \in [{"path", "tmp"} -> Bytes]
  /\ exists \subseteq {"path", "tmp"}
  /\ save \in [Writers -> [at : {"idle", "opened", "written"},
                           doc : Docs \cup {NoDoc}, fd : Where]]
  /\ overlap \in BOOLEAN
  /\ \A n \in {"path", "tmp"} \ exists : bytes[n] = Empty
  /\ \A w \in Writers : save[w].at # "idle" => save[w].doc # NoDoc

JsonInit ==
  /\ bytes = [n \in {"path", "tmp"} |-> Empty]
  /\ exists = {}
  /\ save = [w \in Writers |-> [at |-> "idle", doc |-> NoDoc, fd |-> "gone"]]
  /\ overlap = FALSE

Saving == {w \in Writers : save[w].at # "idle"}

\* Mutant: the file is opened without O_TRUNC.
OpenTmpKeeping(w, d) ==
  /\ save[w].at = "idle"
  /\ exists' = exists \cup {"tmp"}
  /\ save' = [save EXCEPT ![w] = [at |-> "opened", doc |-> d, fd |-> "tmp"]]
  /\ overlap' = (overlap \/ Saving # {})
  /\ UNCHANGED bytes

\* os.OpenFile(tmp, O_WRONLY|O_CREATE|O_TRUNC)
OpenTmp(w, d) ==
  /\ save[w].at = "idle"
  /\ bytes' = [bytes EXCEPT !["tmp"] = Empty]
  /\ exists' = exists \cup {"tmp"}
  /\ save' = [save EXCEPT ![w] = [at |-> "opened", doc |-> d, fd |-> "tmp"]]
  /\ overlap' = (overlap \/ Saving # {})

Over(old, d) ==
  [doc |-> d, size |-> IF old.size > Length[d] THEN old.size ELSE Length[d]]

WriteTmp(w) ==
  /\ save[w].at = "opened"
  /\ bytes' = IF save[w].fd = "gone" THEN bytes
              ELSE [bytes EXCEPT ![save[w].fd] = Over(@, save[w].doc)]
  /\ save' = [save EXCEPT ![w].at = "written"]
  /\ UNCHANGED <<exists, overlap>>

Done(w) == [at |-> "idle", doc |-> NoDoc, fd |-> "gone"]

\* The inode of <path>.tmp is now that of <path>; open descriptors go with it,
\* and those of the inode it replaced lead nowhere.  Without <path>.tmp, which
\* another writer has renamed, Save returns an error.
RenameTmp(w) ==
  /\ save[w].at = "written"
  /\ IF "tmp" \in exists
     THEN /\ bytes' = [bytes EXCEPT !["path"] = bytes["tmp"], !["tmp"] = Empty]
          /\ exists' = {"path"}
          /\ save' = [v \in Writers |->
               IF v = w THEN Done(w)
               ELSE [save[v] EXCEPT !.fd =
                       IF @ = "tmp" THEN "path" ELSE "gone"]]
     ELSE save' = [save EXCEPT ![w] = Done(w)] /\ UNCHANGED <<bytes, exists>>
  /\ UNCHANGED overlap

KillWriter(w) ==
  /\ SaveCrashes /\ save[w].at # "idle"
  /\ save' = [save EXCEPT ![w] = Done(w)]
  /\ UNCHANGED <<bytes, exists, overlap>>

JsonNext ==
  \E w \in Writers :
    \/ \E d \in Docs : OpenTmp(w, d)
    \/ WriteTmp(w) \/ RenameTmp(w) \/ KillWriter(w)

JsonSpec == JsonInit /\ [][JsonNext]_jsonVars
------------------------------------------------------------------------------
(* Properties *)

\* As long as no two saves have overlapped, whoever reads <path> finds a whole
\* document or no file, also after writers were killed with a temporary file
\* left behind.  With an overlap it need not: the one rename may publish what
\* the other has just truncated, or a short document over the end of a long one.
AloneIsAtomic == ~overlap => ("path" \in exists => Whole(bytes["path"]))
=============================================================================
