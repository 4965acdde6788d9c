------------------------------ MODULE Document ------------------------------
(***************************************************************************)
(* The document of eg/Classes/Document.py: the tree of plugins, folders,   *)
(* macros and actions, its undo and redo stacks, the dirty flag computed   *)
(* from undo counters, saving it in steps that may fail, the question      *)
(* CheckFileNeedsSave asks before it is left, and loading another one.     *)
(*                                                                         *)
(* Commands run on the main thread; the tree itself is changed on the      *)
(* action thread, through actionThread.Func, and Load runs there too,      *)
(* posted by StartSession, which does not wait for it.                     *)
(*                                                                         *)
(* The dialog in which a new item or an item of the tree is set up is not  *)
(* modal: other commands run while the tree holds what the dialog did and  *)
(* no handler knows of it yet.                                             *)
(*                                                                         *)
(* A tree is the set of the edits in effect and of the file they started   *)
(* from.  An undo handler remembers an index path into the tree (a         *)
(* TreePosition), so it is the tree it was recorded in that matters:       *)
(* `before` stands for it.                                                 *)
(***************************************************************************)
EXTENDS Integers, SequencesExt

CONSTANTS Files,      (* paths a document can be saved to                   *)
          NoFile,     (* filePath of a document that has none               *)
          UndoLimit,  (* handlers stockUndo holds, 20 in the code           *)
          MaxEdits,   (* bound on the edits made                            *)
          MaxLoads,   (* bound on the sessions started                      *)
          Overlap,    (* whether commands run while a session starts        *)
          Failures    (* what may fail: see FailureKinds                     *)

\* "revert": Cancel does not take back what Apply changed in a jump's link.
FailureKinds == {"undo", "mkstemp", "write", "parse", "revert"}

ASSUME DocumentAssumption ==
  /\ NoFile \notin Files
  /\ Files \cap (1..MaxEdits) = {}
  /\ UndoLimit \in Nat \ {0}
  /\ MaxEdits \in Nat /\ MaxLoads \in Nat
  /\ Overlap \in BOOLEAN
  /\ Failures \subseteq FailureKinds

Edits == 1..MaxEdits
Trees == SUBSET (Files \cup Edits)

VARIABLES
  root,          (* the tree                                                *)
  doc,           (* how many trees were loaded; handlers keep their root    *)
  edits,         (* number of edits made                                    *)
  filePath, isDirty, undoId, undoIdOnSave, stockUndo, stockRedo,
  exists, disk,  (* the files there are, and the tree in each               *)
  leftover,      (* the files that have a whole temporary file beside them  *)
  known,         (* the files that ever held a tree                         *)
  mpc,           (* where the main thread is                                *)
  handler,       (* the undo handler it is working with                     *)
  target, tmp,   (* the file being saved and the temporary file's tree      *)
  saveAs,        (* the save is to set filePath                             *)
  goal,          (* what is to follow: "none", "session" or "exit"          *)
  result,        (* what CheckFileNeedsSave returned                        *)
  lpc,           (* where StartSession and Load are                         *)
  next, parsed,  (* the file to load and the tree read from it              *)
  cut,           (* the undo counters lost track of the saved tree (history)*)
  dialogs,       (* the edits of open dialogs that a command ran beside     *)
  mixed          (* a command ran beside an open dialog, or a Cancel left   *)
                 (* the change there (history)                              *)

undoVars == <<isDirty, undoId, undoIdOnSave, stockUndo, stockRedo, cut>>
treeVars == <<root, doc, edits>>
diskVars == <<exists, disk, leftover, known>>
mainVars == <<mpc, handler, target, tmp, saveAs, goal, result>>
loadVars == <<lpc, next, parsed>>
dialogVars == <<dialogs, mixed>>
vars == <<treeVars, filePath, undoVars, diskVars, mainVars, loadVars, dialogVars>>

Handlers == [doc : 0..MaxLoads, edit : Edits, before : Trees]
NoHandler == [doc |-> 0, edit |-> 0, before |-> {}]

TypeOK ==
  /\ root \in Trees /\ doc \in 0..MaxLoads /\ edits \in 0..MaxEdits
  /\ filePath \in Files \cup {NoFile}
  /\ isDirty \in BOOLEAN
  /\ undoId \in Int /\ undoIdOnSave \in Int
  /\ stockUndo \in Seq(Handlers) /\ stockRedo \in Seq(Handlers)
  /\ exists \subseteq Files /\ disk \in [Files -> Trees]
  /\ leftover \subseteq Files /\ known \subseteq Files
  /\ mpc \in {"idle", "append", "undone", "redone", "tmp", "remove", "rename",
              "saved", "leave", "exited"}
  /\ handler \in Handlers \cup {NoHandler}
  /\ mpc \in {"append", "undone", "redone"} => handler \in Handlers
  /\ target \in Files \cup {NoFile} /\ tmp \in Trees
  /\ mpc \in {"tmp", "remove", "rename", "saved"} => target \in Files
  /\ saveAs \in BOOLEAN
  /\ goal \in {"none", "session", "exit"}
  /\ result \in {"none", "ok", "yes", "no"}
  /\ lpc \in {"idle", "queued", "parse", "root", "done"}
  /\ next \in Files \cup {NoFile} /\ parsed \in Trees
  /\ lpc \in {"queued", "parse", "root"} => doc < MaxLoads
  /\ cut \in BOOLEAN /\ mixed \in BOOLEAN
  /\ dialogs \subseteq Handlers

Init ==
  /\ root = {} /\ doc = 0 /\ edits = 0
  /\ filePath = NoFile /\ isDirty = FALSE
  /\ undoId = 0 /\ undoIdOnSave = 0
  /\ stockUndo = <<>> /\ stockRedo = <<>>
  /\ exists \in SUBSET Files
  /\ disk = [f \in Files |-> {f}]
  /\ leftover = {} /\ known = exists
  /\ mpc = "idle" /\ handler = NoHandler
  /\ target = NoFile /\ tmp = {} /\ saveAs = FALSE
  /\ goal = "none" /\ result = "none"
  /\ lpc = "idle" /\ next = NoFile /\ parsed = {}
  /\ cut = FALSE /\ mixed = FALSE /\ dialogs = {}

\* A command can start, also beside the dialog of an edit.
MainFree == mpc \in {"idle", "append"} /\ (Overlap \/ lpc = "idle")

\* The dialog that is open stays open beside the command.
Aside ==
  IF mpc = "append" THEN dialogs' = dialogs \cup {handler} /\ mixed' = TRUE
  ELSE UNCHANGED dialogVars

\* actionThread.Func gets its turn only when Load is not running there.
ActionThreadFree == lpc \in {"idle", "queued"}

-----------------------------------------------------------------------------
(***************************************************************************)
(* Editing: the Do of an undo handler, Undo and Redo.  Each changes the    *)
(* tree on the action thread and then the stacks on the main thread.       *)
(***************************************************************************)

\* The change of an edit: at once, by a new item whose dialog is open, or by the
\* Apply of a dialog.
Do ==
  /\ MainFree /\ ActionThreadFree /\ Aside
  /\ edits < MaxEdits
  /\ edits' = edits + 1
  /\ root' = root \cup {edits'}
  /\ handler' = [doc |-> doc, edit |-> edits', before |-> root]
  /\ mpc' = "append"
  /\ UNCHANGED <<doc, filePath, undoVars, diskVars, target, tmp, saveAs, goal, result,
                 loadVars>>

\* Cancel: the new item is deleted, what Apply changed is taken back, and no
\* handler is pushed.
CancelDialog ==
  /\ mpc = "append" /\ ActionThreadFree
  /\ \/ root' = (IF handler.doc = doc THEN root \ {handler.edit} ELSE root) /\ UNCHANGED mixed
     \/ "revert" \in Failures /\ mixed' = TRUE /\ UNCHANGED root
  /\ mpc' = "idle" /\ handler' = NoHandler
  /\ UNCHANGED <<doc, edits, filePath, undoVars, diskVars, target, tmp, saveAs, goal, result,
                 loadVars, dialogs>>

\* The user comes back to a dialog a command ran beside; TreePosition will look
\* for the item's place as the tree is now.
DialogAgain ==
  /\ mpc = "idle" /\ mpc' = "append"
  /\ \E h \in dialogs : /\ handler' = [h EXCEPT !.before = root \ {h.edit}]
                       /\ dialogs' = dialogs \ {h}
  /\ UNCHANGED <<treeVars, filePath, undoVars, diskVars, target, tmp, saveAs, goal, result,
                 loadVars, mixed>>

\* Wrong: the redo stack is kept.
AppendKeepingRedo ==
  /\ mpc = "append"
  /\ stockUndo' = Append(IF Len(stockUndo) >= UndoLimit THEN Tail(stockUndo)
                         ELSE stockUndo, handler)
  /\ undoId' = undoId + 1
  /\ isDirty' = TRUE
  /\ mpc' = "idle" /\ handler' = NoHandler
  /\ UNCHANGED <<treeVars, filePath, undoIdOnSave, stockRedo, cut, diskVars, target, tmp,
                 saveAs, goal, result, loadVars, dialogVars>>

\* The oldest handler goes when the stack is full; the counter goes on.
AppendUndoHandler ==
  /\ mpc = "append"
  /\ stockUndo' = Append(IF Len(stockUndo) >= UndoLimit THEN Tail(stockUndo)
                         ELSE stockUndo, handler)
  /\ undoId' = undoId + 1
  /\ stockRedo' = <<>>
  /\ isDirty' = TRUE
  /\ cut' = (cut \/ undoId < undoIdOnSave)
  /\ mpc' = "idle" /\ handler' = NoHandler
  /\ UNCHANGED <<treeVars, filePath, undoIdOnSave, diskVars, target, tmp, saveAs, goal,
                 result, loadVars, dialogVars>>

\* handler.Undo in the action thread.  A handler of a tree that was replaced
\* works on the old root.
Undo ==
  /\ MainFree /\ ActionThreadFree /\ Aside
  /\ stockUndo # <<>>
  /\ handler' = Last(stockUndo)
  /\ stockUndo' = Front(stockUndo)
  /\ root' = IF handler'.doc = doc THEN root \ {handler'.edit} ELSE root
  /\ mpc' = "undone"
  /\ UNCHANGED <<doc, edits, filePath, isDirty, undoId, undoIdOnSave, stockRedo, cut,
                 diskVars, target, tmp, saveAs, goal, result, loadVars>>

Undone ==
  /\ mpc = "undone"
  /\ undoId' = undoId - 1
  /\ isDirty' = (undoId' # undoIdOnSave)
  /\ stockRedo' = Append(stockRedo, handler)
  /\ mpc' = "idle" /\ handler' = NoHandler
  /\ UNCHANGED <<treeVars, filePath, undoIdOnSave, stockUndo, cut, diskVars, target, tmp,
                 saveAs, goal, result, loadVars, dialogVars>>

Redo ==
  /\ MainFree /\ ActionThreadFree /\ Aside
  /\ stockRedo # <<>>
  /\ handler' = Last(stockRedo)
  /\ stockRedo' = Front(stockRedo)
  /\ root' = IF handler'.doc = doc THEN root \cup {handler'.edit} ELSE root
  /\ mpc' = "redone"
  /\ UNCHANGED <<doc, edits, filePath, isDirty, undoId, undoIdOnSave, stockUndo, cut,
                 diskVars, target, tmp, saveAs, goal, result, loadVars>>

Redone ==
  /\ mpc = "redone"
  /\ undoId' = undoId + 1
  /\ isDirty' = (undoId' # undoIdOnSave)
  /\ stockUndo' = Append(stockUndo, handler)
  /\ mpc' = "idle" /\ handler' = NoHandler
  /\ UNCHANGED <<treeVars, filePath, undoIdOnSave, stockRedo, cut, diskVars, target, tmp,
                 saveAs, goal, result, loadVars, dialogVars>>

\* handler.Undo or handler.Redo raises before it has changed the tree: Func
\* raises in the main thread, and the handler is in neither stack.
HandlerFails ==
  /\ "undo" \in Failures
  /\ MainFree /\ ActionThreadFree /\ Aside
  /\ \/ stockUndo # <<>> /\ stockUndo' = Front(stockUndo) /\ UNCHANGED stockRedo
     \/ stockRedo # <<>> /\ stockRedo' = Front(stockRedo) /\ UNCHANGED stockUndo
  /\ cut' = TRUE
  /\ mpc' = "idle" /\ handler' = NoHandler
  /\ UNCHANGED <<treeVars, filePath, isDirty, undoId, undoIdOnSave, diskVars, target, tmp,
                 saveAs, goal, result, loadVars>>

-----------------------------------------------------------------------------
(***************************************************************************)
(* Saving.                                                                 *)
(***************************************************************************)

\* SaveAs up to WriteFile: the user chose a file.
BeginSaveAs == target' \in Files /\ saveAs' = TRUE /\ mpc' = "tmp"

\* Save up to WriteFile; it is SaveAs when the document has no path.
BeginSave ==
  \/ filePath # NoFile /\ target' = filePath /\ saveAs' = FALSE /\ mpc' = "tmp"
  \/ filePath = NoFile /\ BeginSaveAs

Save ==
  /\ MainFree /\ Aside
  /\ BeginSave \/ BeginSaveAs
  /\ handler' = NoHandler
  /\ UNCHANGED <<treeVars, filePath, undoVars, diskVars, tmp, goal, result, loadVars>>

\* WriteFile: the tree is written to a temporary file in the same directory.
\* mkstemp is outside the try block and raises through Save and its caller.
WriteTmp ==
  /\ mpc = "tmp"
  /\ \/ tmp' = root /\ mpc' = "remove" /\ UNCHANGED <<target, goal, result>>
     \/ "write" \in Failures /\ mpc' = "saved" /\ UNCHANGED <<tmp, target, goal, result>>
     \/ /\ "mkstemp" \in Failures
        /\ mpc' = "idle" /\ goal' = "none" /\ result' = "none" /\ target' = NoFile
        /\ UNCHANGED tmp
  /\ UNCHANGED <<treeVars, filePath, undoVars, diskVars, handler, saveAs, loadVars,
                 dialogVars>>

\* os.remove, whose failure is ignored.
RemoveOld ==
  /\ mpc = "remove"
  /\ \/ exists' = exists \ {target}
     \/ "write" \in Failures /\ UNCHANGED exists
  /\ mpc' = "rename"
  /\ UNCHANGED <<treeVars, filePath, undoVars, disk, leftover, known, handler, target,
                 tmp, saveAs, goal, result, loadVars, dialogVars>>

\* Wrong: undoIdOnSave is not brought up to date.
RenameForgetful ==
  /\ mpc = "rename"
  /\ target \notin exists
  /\ exists' = exists \cup {target}
  /\ disk' = [disk EXCEPT ![target] = tmp]
  /\ known' = known \cup {target}
  /\ isDirty' = FALSE
  /\ mpc' = "saved"
  /\ UNCHANGED <<treeVars, filePath, undoId, undoIdOnSave, stockUndo, stockRedo, cut,
                 leftover, handler, target, tmp, saveAs, goal, result, loadVars, dialogVars>>

\* Wrong: after a failure the temporary file is removed.
RenameCleanUp ==
  /\ mpc = "rename"
  /\ \/ /\ target \notin exists
        /\ exists' = exists \cup {target}
        /\ disk' = [disk EXCEPT ![target] = tmp]
        /\ known' = known \cup {target}
        /\ isDirty' = FALSE /\ undoIdOnSave' = undoId /\ cut' = FALSE
     \/ /\ target \in exists \/ "write" \in Failures
        /\ UNCHANGED <<exists, disk, known, isDirty, undoIdOnSave, cut>>
  /\ mpc' = "saved"
  /\ UNCHANGED <<treeVars, filePath, undoId, stockUndo, stockRedo, leftover, handler,
                 target, tmp, saveAs, goal, result, loadVars, dialogVars>>

\* os.rename, which fails when the old file is still there; the exception is
\* caught and the temporary file stays.
RenameTmp ==
  /\ mpc = "rename"
  /\ \/ /\ target \notin exists
        /\ exists' = exists \cup {target}
        /\ disk' = [disk EXCEPT ![target] = tmp]
        /\ known' = known \cup {target}
        /\ isDirty' = FALSE
        /\ undoIdOnSave' = undoId
        /\ cut' = FALSE
        /\ UNCHANGED leftover
     \/ /\ target \in exists \/ "write" \in Failures
        /\ leftover' = leftover \cup {target}
        /\ UNCHANGED <<exists, disk, known, isDirty, undoIdOnSave, cut>>
  /\ mpc' = "saved"
  /\ UNCHANGED <<treeVars, filePath, undoId, stockUndo, stockRedo, handler, target, tmp,
                 saveAs, goal, result, loadVars, dialogVars>>

\* Save and SaveAs return wx.ID_YES whatever WriteFile returned.
Saved ==
  /\ mpc = "saved"
  /\ filePath' = IF saveAs THEN target ELSE filePath
  /\ mpc' = IF goal = "none" THEN "idle" ELSE "leave"
  /\ target' = NoFile /\ saveAs' = FALSE /\ tmp' = {}
  /\ UNCHANGED <<treeVars, undoVars, diskVars, handler, goal, result, loadVars, dialogVars>>

-----------------------------------------------------------------------------
(***************************************************************************)
(* Leaving the document: New, Open and Exit.                               *)
(***************************************************************************)

\* Sessions that were started: MaxLoads bounds them.
Loads == doc + (IF lpc \in {"queued", "parse", "root"} THEN 1 ELSE 0)

\* CheckFileNeedsSave.  A cancelled dialog changes nothing.
CheckFileNeedsSave ==
  /\ MainFree /\ Aside
  /\ \/ goal' = "session" /\ Loads < MaxLoads
     \/ goal' = "exit"
  /\ \/ /\ \/ ~isDirty /\ result' = "ok"
           \/ isDirty /\ result' = "no"
        /\ mpc' = "leave"
        /\ UNCHANGED <<target, saveAs>>
     \/ isDirty /\ result' = "yes" /\ BeginSave
  /\ handler' = NoHandler
  /\ UNCHANGED <<treeVars, filePath, undoVars, diskVars, tmp, loadVars>>

\* StartSession waits for the old session to stop and posts the new one.  New
\* has no file, Open has asked for one, which exists unless opening may fail.
StartSession ==
  /\ mpc = "leave" /\ goal = "session"
  /\ lpc = "idle"
  /\ next' \in {NoFile} \cup (IF "parse" \in Failures THEN Files ELSE exists)
  /\ lpc' = "queued"
  /\ mpc' = "idle" /\ goal' = "none" /\ result' = "none"
  /\ UNCHANGED <<treeVars, filePath, undoVars, diskVars, handler, target, tmp, saveAs,
                 parsed, dialogVars>>

\* Open asks for the file only now, and the user cancels.
CancelOpen ==
  /\ mpc = "leave" /\ goal = "session"
  /\ mpc' = "idle" /\ goal' = "none" /\ result' = "none"
  /\ UNCHANGED <<treeVars, filePath, undoVars, diskVars, handler, target, tmp, saveAs,
                 loadVars, dialogVars>>

Exit ==
  /\ mpc = "leave" /\ goal = "exit"
  /\ mpc' = "exited"
  /\ UNCHANGED <<treeVars, filePath, undoVars, diskVars, handler, target, tmp, saveAs,
                 goal, result, loadVars, dialogVars>>

\* Load and LoadEmpty on the action thread: ResetUndoState and SetFilePath,
\* reading the file, the new root, SetIsDirty(False).
LoadStart ==
  /\ lpc = "queued"
  /\ stockUndo' = <<>> /\ stockRedo' = <<>>
  /\ undoId' = 0 /\ undoIdOnSave' = 0
  /\ cut' = FALSE
  /\ filePath' = next
  /\ lpc' = "parse"
  /\ UNCHANGED <<treeVars, isDirty, diskVars, mainVars, next, parsed, dialogVars>>

\* ElementTree.parse; an exception ends the session's start.
Parse ==
  /\ lpc = "parse"
  /\ \/ next = NoFile /\ parsed' = {} /\ lpc' = "root"
     \/ next \in exists /\ parsed' = disk[next] /\ lpc' = "root"
     \/ /\ next # NoFile
        /\ next \in exists => "parse" \in Failures
        /\ lpc' = "idle"
        /\ UNCHANGED parsed
  /\ UNCHANGED <<treeVars, filePath, undoVars, diskVars, mainVars, next, dialogVars>>

NewRoot ==
  /\ lpc = "root"
  /\ root' = parsed
  /\ doc' = doc + 1
  /\ lpc' = "done"
  /\ UNCHANGED <<edits, filePath, undoVars, diskVars, mainVars, next, parsed, dialogVars>>

LoadDone ==
  /\ lpc = "done"
  /\ isDirty' = FALSE
  /\ lpc' = "idle" /\ next' = NoFile /\ parsed' = {}
  /\ UNCHANGED <<treeVars, filePath, undoId, undoIdOnSave, stockUndo, stockRedo, cut,
                 diskVars, mainVars, dialogVars>>

-----------------------------------------------------------------------------
Editing == \/ Do \/ AppendUndoHandler \/ CancelDialog \/ DialogAgain
           \/ Undo \/ Undone \/ Redo \/ Redone \/ HandlerFails
Saving == Save \/ WriteTmp \/ RemoveOld \/ RenameTmp \/ Saved
Leaving == CheckFileNeedsSave \/ StartSession \/ CancelOpen \/ Exit
Loading == LoadStart \/ Parse \/ NewRoot \/ LoadDone

Next == Editing \/ Saving \/ Leaving \/ Loading

Spec == Init /\ [][Next]_vars

-----------------------------------------------------------------------------
(***************************************************************************)
(* Properties.                                                             *)
(***************************************************************************)

\* The document's file holds the tree t.
Holds(t) == IF filePath = NoFile THEN t = {}
            ELSE filePath \in exists /\ disk[filePath] = t
InFile == Holds(root)

Settled == mpc \in {"idle", "leave", "exited"} /\ lpc = "idle"

\* Doc of CheckFileNeedsSave, which asks nothing when isDirty is false:
\* "wx.ID_OK if no save was needed".  A document that is not dirty is its file,
\* at least where no dialog's change was mixed up with other commands.
CleanIsSaved == Settled /\ ~isDirty /\ ~mixed => InFile

\* The same where the undo counters did not lose track of the saved tree, but
\* commands ran beside dialogs that are closed by now.  It does not hold: Save
\* beside the dialog of a new item, then Cancel (DocumentDialog.cfg).
CleanIsSavedDespiteDialogs == Settled /\ ~isDirty /\ ~cut /\ dialogs = {} => InFile

\* The dirty flag computed from undoId and undoIdOnSave is right as long as no
\* edit threw away the redo stack that led to the saved tree, no handler was
\* lost and no dialog's change was mixed up, whatever the length of the undo
\* stack; what an open dialog put into the tree does not count.
CleanIsSavedUnlessCut ==
  ~isDirty /\ ~cut /\ ~mixed =>
    /\ Settled => InFile
    /\ mpc = "append" /\ lpc = "idle" /\ handler.doc = doc => Holds(root \ {handler.edit})

\* TreePosition is an index path, good only in the tree it was recorded in.  A
\* handler is on top of stockUndo only in the tree its edit led to, and on top
\* of stockRedo only in the tree the edit was made in, as long as no command
\* ran beside an open dialog.
PathsStayValid ==
  mpc \in {"idle", "tmp", "remove", "rename", "saved", "leave"} /\ lpc = "idle" /\ ~mixed =>
    /\ stockUndo # <<>> /\ Last(stockUndo).doc = doc =>
         root = Last(stockUndo).before \cup {Last(stockUndo).edit}
    /\ stockRedo # <<>> /\ Last(stockRedo).doc = doc => root = Last(stockRedo).before

\* WriteFile, at every point where the program may be killed and after every
\* failure: beside or at the path of a saved document is a whole copy of it.
FileOrTemp ==
  \A f \in known : \/ f \in exists \cup leftover
                   \/ mpc = "rename" /\ target = f
=============================================================================
