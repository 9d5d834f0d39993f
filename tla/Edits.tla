------------------------------- MODULE Edits --------------------------------
(***************************************************************************)
(* internal/mcpsvc: the tools that change files of the workspace           *)
(* (write_workspace_file, apply_patch_workspace_file, insert_at_symbol,    *)
(* rename_symbol) and revert_workspace_edit.  Each edit reads the file,    *)
(* keeps the old bytes in .codehelper/edits/<token>/content.bin, describes *)
(* them in meta.json beside it, and renames a temporary file over the      *)
(* target.  Calls overlap, the server may be killed anywhere, and the      *)
(* developer saves the same files from an editor.                          *)
(*                                                                         *)
(* atomicWrite uses a temporary name of its own and a rename, so replacing *)
(* the target is one step; os.WriteFile on meta.json is not atomic, and a  *)
(* kill may leave it torn.                                                 *)
(***************************************************************************)
EXTENDS Integers, FiniteSets

CONSTANTS
  Files,       \* files of the workspace
  Contents,    \* what a file may hold
  NoContent,   \* the file does not exist, or a snapshot holds nothing
  Occurs,      \* the contents with a line that names the symbol to rename
  Calls,       \* tool calls, each made once
  MaxSaves,    \* bound on the developer's saves
  EditCrashes  \* the server may be killed

ASSUME EditsAssumption ==
  /\ Files # {} /\ NoContent \notin Contents
  /\ Occurs \subseteq Contents /\ Contents \ Occurs # {}
  /\ MaxSaves \in Nat /\ EditCrashes \in BOOLEAN

\* The token of a snapshot is random; a call keeps one for each file it edits.
Tokens == Calls \X Files
Held == Contents \cup {NoContent}

VARIABLES
  file,       \* the working tree
  snap,       \* the snapshot of each token: content.bin and the state of meta.json
  call,       \* each call: where it is and what it holds in memory
  given,      \* tokens returned to the client
  written,    \* ghost: tokens whose file a tool has renamed its bytes over
  replaced,   \* ghost: what the file held at that moment
  overtaken,  \* ghost: those whose file somebody wrote after the tool had read it
  restored,   \* ghost: tokens whose content a revert has put back
  saves       \* the developer's saves so far

editVars == <<file, snap, call, given, written, replaced, overtaken, restored, saves>>

NewCall == [tool |-> "none", at |-> "new", path |-> CHOOSE f \in Files : TRUE,
            prev |-> NoContent, next |-> NoContent, token |-> <<>>,
            plan |-> {}, tokens |-> {}, raced |-> FALSE]
NoSnap == [content |-> NoContent, meta |-> "none"]

EditsTypeOK ==
  /\ file \in [Files -> Held]
  /\ snap \in [Tokens -> [content : Held, meta : {"none", "live", "reverted", "torn"}]]
  /\ call \in [Calls -> [tool : {"none", "write", "patch", "rename", "revert"},
                         at : {"new", "sites", "content", "meta", "write",
                               "restore", "mark", "done", "killed"},
                         path : Files, prev : Held, next : Held,
                         token : Tokens \cup {<<>>},
                         plan : SUBSET Files, tokens : SUBSET Tokens, raced : BOOLEAN]]
  /\ \A c \in Calls :
       /\ call[c].at \in {"content", "meta"} => call[c].prev \in Contents
       /\ call[c].at \in {"content", "meta", "write"} => call[c].next \in Contents
       /\ call[c].at \in {"restore", "mark"} =>
            call[c].token \in given /\ snap[call[c].token].content \in Contents
  /\ given \subseteq Tokens /\ written \subseteq Tokens /\ overtaken \subseteq written
  /\ replaced \in [Tokens -> Held] /\ restored \subseteq Tokens
  /\ saves \in 0..MaxSaves

EditsInit ==
  /\ file \in [Files -> Held]
  /\ snap = [t \in Tokens |-> NoSnap]
  /\ call = [c \in Calls |-> NewCall]
  /\ given = {} /\ written = {} /\ overtaken = {}
  /\ replaced = [t \in Tokens |-> NoContent] /\ restored = {}
  /\ saves = 0

IsAt(c, s) == call[c].at = s
\* A file changes: a call that has read it and not yet written it works on
\* bytes that are no longer there.
Disturbed(f) ==
  [d \in Calls |-> [call[d] EXCEPT !.raced =
     @ \/ (call[d].path = f /\ call[d].at \in {"content", "meta", "write"})]]

\* The answer to the client, with the tokens of the files written.
Ended(how) == [NewCall EXCEPT !.at = how]
Reply(c, toks) ==
  /\ call' = [call EXCEPT ![c] = Ended("done")]
  /\ given' = given \cup toks
Fail(c) ==
  IF call[c].tool = "rename"
  THEN call' = [call EXCEPT ![c].at = "sites"] /\ UNCHANGED given
  ELSE Reply(c, {})
Reads(c, tl, f, new, next_at) ==
  call' = [call EXCEPT ![c].tool = tl, ![c].path = f, ![c].prev = file[f],
                       ![c].next = new, ![c].raced = FALSE, ![c].at = next_at]
------------------------------------------------------------------------------
(* The tools *)

\* write_workspace_file: nothing to do, refused as truncated, or on to the
\* snapshot when the file exists.
WriteWorkspaceFile(c, f, new) ==
  /\ IsAt(c, "new")
  /\ \/ Reply(c, {})
     \/ /\ file[f] # new
        /\ Reads(c, "write", f, new, IF file[f] = NoContent THEN "write" ELSE "content")
        /\ UNCHANGED given
  /\ UNCHANGED <<file, snap, written, replaced, overtaken, restored, saves>>

\* apply_patch_workspace_file and insert_at_symbol: the file must exist; hunks
\* that do not match, and previews, end the call.
PatchFile(c, f, new) ==
  /\ IsAt(c, "new")
  /\ \/ Reply(c, {})
     \/ /\ file[f] # NoContent
        /\ Reads(c, "patch", f, new, "content")
        /\ UNCHANGED given
  /\ UNCHANGED <<file, snap, written, replaced, overtaken, restored, saves>>

\* rename_symbol with apply: the sites are located in the files as they are now.
PlanRename(c, plan) ==
  /\ IsAt(c, "new")
  /\ plan # {} /\ \A f \in plan : file[f] \in Occurs
  /\ call' = [call EXCEPT ![c].tool = "rename", ![c].plan = plan, ![c].at = "sites"]
  /\ UNCHANGED <<file, snap, given, written, replaced, overtaken, restored, saves>>

\* applyRenameSites reads a file again and skips it when the line has changed.
RenameInFile(c, f, new) ==
  /\ IsAt(c, "sites") /\ f \in call[c].plan
  /\ \/ /\ file[f] \in Occurs
        /\ call' = [call EXCEPT ![c].path = f, ![c].prev = file[f], ![c].next = new,
                                ![c].raced = FALSE, ![c].at = "content",
                                ![c].plan = @ \ {f}]
     \/ /\ file[f] \notin Occurs
        /\ call' = [call EXCEPT ![c].plan = @ \ {f}]
  /\ UNCHANGED <<file, snap, given, written, replaced, overtaken, restored, saves>>

RenameDone(c) ==
  /\ IsAt(c, "sites") /\ call[c].plan = {}
  /\ Reply(c, call[c].tokens)
  /\ UNCHANGED <<file, snap, written, replaced, overtaken, restored, saves>>
------------------------------------------------------------------------------
(* snapshotPreEdit and atomicWriteUnderRepo *)

\* Mutant: an error of the snapshot does not end the edit.
SnapContentOptional(c) ==
  /\ IsAt(c, "content")
  /\ \/ /\ snap' = [snap EXCEPT ![<<c, call[c].path>>].content = call[c].prev]
        /\ call' = [call EXCEPT ![c].at = "meta"]
     \/ call' = [call EXCEPT ![c].at = "write"] /\ UNCHANGED snap
  /\ UNCHANGED <<file, given, written, replaced, overtaken, restored, saves>>

SnapContent(c) ==
  /\ IsAt(c, "content")
  /\ \/ /\ snap' = [snap EXCEPT ![<<c, call[c].path>>].content = call[c].prev]
        /\ call' = [call EXCEPT ![c].at = "meta"]
        /\ UNCHANGED given
     \/ Fail(c) /\ UNCHANGED snap
  /\ UNCHANGED <<file, written, replaced, overtaken, restored, saves>>

\* Mutant: a rename notes the token before it writes the file.
SnapMetaNoting(c) ==
  /\ IsAt(c, "meta")
  /\ \/ /\ snap' = [snap EXCEPT ![<<c, call[c].path>>].meta = "live"]
        /\ call' = [call EXCEPT ![c].at = "write", ![c].tokens = @ \cup {<<c, call[c].path>>}]
        /\ UNCHANGED given
     \/ Fail(c) /\ UNCHANGED snap
  /\ UNCHANGED <<file, written, replaced, overtaken, restored, saves>>

SnapMeta(c) ==
  /\ IsAt(c, "meta")
  /\ \/ /\ snap' = [snap EXCEPT ![<<c, call[c].path>>].meta = "live"]
        /\ call' = [call EXCEPT ![c].at = "write"]
        /\ UNCHANGED given
     \/ Fail(c) /\ UNCHANGED snap
  /\ UNCHANGED <<file, written, replaced, overtaken, restored, saves>>

\* The rename over the target, whatever is there by now.  Whether there is a
\* token to return was decided when the tool read the file.
WriteTarget(c) ==
  /\ IsAt(c, "write")
  /\ LET f == call[c].path
         toks == IF call[c].prev = NoContent THEN {} ELSE {<<c, f>>}
     IN \/ /\ file' = [file EXCEPT ![f] = call[c].next]
           /\ written' = written \cup {<<c, f>>}
           /\ replaced' = [replaced EXCEPT ![<<c, f>>] = file[f]]
           /\ overtaken' = IF call[c].raced THEN overtaken \cup {<<c, f>>} ELSE overtaken
           /\ IF call[c].tool = "rename"
              THEN /\ call' = [Disturbed(f) EXCEPT
                                 ![c].at = "sites", ![c].tokens = @ \cup toks]
                   /\ UNCHANGED given
              ELSE /\ call' = [Disturbed(f) EXCEPT ![c] = Ended("done")]
                   /\ given' = given \cup toks
        \/ Fail(c) /\ UNCHANGED <<file, written, replaced, overtaken>>
  /\ UNCHANGED <<snap, restored, saves>>
------------------------------------------------------------------------------
(* revert_workspace_edit *)

\* Mutant: the marker is written before the file is restored.
LoadSnapshotMarking(c, t) ==
  /\ IsAt(c, "new") /\ t \in given
  /\ \/ /\ snap[t].meta = "live"
        /\ snap' = [snap EXCEPT ![t].meta = "reverted"]
        /\ call' = [call EXCEPT ![c].tool = "revert", ![c].token = t, ![c].at = "restore"]
        /\ UNCHANGED given
     \/ Reply(c, {}) /\ UNCHANGED snap
  /\ UNCHANGED <<file, written, replaced, overtaken, restored, saves>>

\* loadSnapshot: a marked snapshot is answered AlreadyDone, a torn one with an
\* error, as is one whose files cannot be read.
LoadSnapshot(c, t) ==
  /\ IsAt(c, "new") /\ t \in given
  /\ \/ /\ snap[t].meta = "live"
        /\ call' = [call EXCEPT ![c].tool = "revert", ![c].token = t, ![c].at = "restore"]
        /\ UNCHANGED given
     \/ Reply(c, {})
  /\ UNCHANGED <<file, snap, written, replaced, overtaken, restored, saves>>

RestoreContent(c) ==
  /\ IsAt(c, "restore")
  /\ LET t == call[c].token IN
       \/ /\ file' = [file EXCEPT ![t[2]] = snap[t].content]
          /\ call' = [Disturbed(t[2]) EXCEPT ![c].at = "mark"]
          /\ restored' = restored \cup {t}
          /\ UNCHANGED given
       \/ Reply(c, {}) /\ UNCHANGED <<file, restored>>
  /\ UNCHANGED <<snap, written, replaced, overtaken, saves>>

\* Best effort: an error of os.WriteFile is ignored and may leave a torn file.
markSnapshotReverted(c) ==
  /\ IsAt(c, "mark")
  /\ \E m \in {"reverted", "torn", snap[call[c].token].meta} :
       snap' = [snap EXCEPT ![call[c].token].meta = m]
  /\ Reply(c, {})
  /\ UNCHANGED <<file, written, replaced, overtaken, restored, saves>>
------------------------------------------------------------------------------
(* What the code does not control *)

\* The server is killed: calls in flight are gone, and the meta.json being
\* written may be torn.
KillServer ==
  /\ EditCrashes
  /\ \E c \in Calls : call[c].at \notin {"new", "done", "killed"}
  /\ call' = [c \in Calls |-> IF call[c].at \in {"new", "done"} THEN call[c]
                              ELSE Ended("killed")]
  /\ LET halfWritten == {<<c, call[c].path>> : c \in {d \in Calls : IsAt(d, "meta")}}
                          \cup {call[c].token : c \in {d \in Calls : IsAt(d, "mark")}}
     IN \E ts \in SUBSET halfWritten :
          snap' = [t \in Tokens |-> IF t \in ts THEN [snap[t] EXCEPT !.meta = "torn"]
                                   ELSE snap[t]]
  /\ UNCHANGED <<file, given, written, replaced, overtaken, restored, saves>>

\* The developer saves or deletes a file in an editor.
DeveloperSaves(f, v) ==
  /\ saves < MaxSaves /\ v # file[f]
  /\ saves' = saves + 1
  /\ file' = [file EXCEPT ![f] = v]
  /\ call' = Disturbed(f)
  /\ UNCHANGED <<snap, given, written, replaced, overtaken, restored>>

EditTool(c) ==
  \/ \E f \in Files, new \in Contents :
        WriteWorkspaceFile(c, f, new) \/ PatchFile(c, f, new)
  \/ \E plan \in SUBSET Files : PlanRename(c, plan)
  \/ \E f \in Files, new \in Contents \ Occurs : RenameInFile(c, f, new)
  \/ RenameDone(c) \/ SnapContent(c) \/ SnapMeta(c) \/ WriteTarget(c)

RevertTool(c) ==
  (\E t \in Tokens : LoadSnapshot(c, t)) \/ RestoreContent(c) \/ markSnapshotReverted(c)

EditsNext ==
  \/ \E c \in Calls : EditTool(c) \/ RevertTool(c)
  \/ KillServer
  \/ \E f \in Files, v \in Held : DeveloperSaves(f, v)

EditsSpec == EditsInit /\ [][EditsNext]_editVars
------------------------------------------------------------------------------
(* Properties *)

Loadable(t) == snap[t].meta \in {"live", "reverted"}

\* What an edit tool replaced, if nobody wrote the file after the tool read it,
\* is in the tool's snapshot from the moment of the write on, whatever is
\* killed; meta.json is unreadable at most after the snapshot was put back.
EveryWriteUndoable ==
  \A t \in Tokens \ overtaken : replaced[t] # NoContent =>
    /\ snap[t].content = replaced[t]
    /\ Loadable(t) \/ t \in restored

\* A call that answers returns tokens of files it wrote, and one for each of
\* them that its write found in place, a rename that failed on some of its files
\* included; unless the file was written by another after the call had read it.
TokensMatchWrites ==
  \A c \in Calls : call[c].at = "done" =>
    \A f \in Files :
      /\ <<c, f>> \in given => <<c, f>> \in written
      /\ <<c, f>> \in written \ overtaken =>
           (<<c, f>> \in given <=> replaced[<<c, f>>] # NoContent)

\* The note of write_workspace_file for an answer without a token, that the file
\* did not exist and is to be deleted to undo the call, whoever else wrote.
NoTokenMeansCreated ==
  \A c \in Calls, f \in Files :
    call[c].at = "done" /\ <<c, f>> \in written \ given => replaced[<<c, f>>] = NoContent

\* AlreadyDone is answered only for a snapshot that was put back: the marker
\* never gets ahead of the file.
MarkedWasRestored ==
  \A t \in Tokens : snap[t].meta = "reverted" => t \in restored
=============================================================================
