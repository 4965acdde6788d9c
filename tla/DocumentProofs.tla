--------------------------- MODULE DocumentProofs ---------------------------
(***************************************************************************)
(* Proofs about Document for any files, any size of the undo stack, any    *)
(* number of edits and sessions, with commands that overlap the start of a *)
(* session and with every failure of saving and loading.  Dialogs are      *)
(* opened, confirmed and cancelled anywhere; once a command ran beside one *)
(* the history is `mixed`, and the stacks are lines no more.               *)
(*                                                                         *)
(* FileOrTemp needs no more than itself.  PathsStayValid needs to know how *)
(* the two stacks hang together: read from the bottom of stockUndo to its  *)
(* top and on from the top of stockRedo to its bottom, they are one line   *)
(* of edits, those of replaced trees first, in which each edit of the      *)
(* present tree starts from the tree its predecessor led to.  An edit      *)
(* whose dialog is open hangs beyond the top of stockUndo: Cancel takes it *)
(* from the tree, and the line ends where it did before.                   *)
(*                                                                         *)
(* CleanIsSavedUnlessCut, the last part, needs to know the way back to the *)
(* saved tree: its distance is what undoId and undoIdOnSave are apart, and *)
(* that many handlers, of the one stack or of the other, lead to it.       *)
(***************************************************************************)
EXTENDS Document, SequenceTheorems, TLAPS

Busy == mpc \in {"append", "undone", "redone"}

\* A session that is going to be started is within the bound.
LoadInv == goal = "session" => Loads < MaxLoads

\* Trees hold edits that were made, and an edit is new to the tree it was made
\* in.
MadeTrees == SUBSET (Files \cup (1..edits))

MadeHandlers == {h \in Handlers : /\ h.doc <= doc /\ h.edit <= edits
                                  /\ h.edit \notin h.before
                                  /\ h.before \in MadeTrees}

TreeInv ==
  /\ root \in MadeTrees /\ parsed \in MadeTrees /\ tmp \in MadeTrees
  /\ disk \in [Files -> MadeTrees]
  /\ stockUndo \in Seq(MadeHandlers) /\ stockRedo \in Seq(MadeHandlers)
  /\ Busy => handler \in MadeHandlers
  /\ dialogs \subseteq MadeHandlers

\* A dialog that a command ran beside is remembered.
DialogsInv == dialogs # {} => mixed

\* The handler is one of the present tree, not of a replaced one.
Present(h) == h.doc = doc

After(h) == h.before \cup {h.edit}

\* b may follow a in the line of edits.
Link(a, b) == Present(a) => Present(b) /\ b.before = After(a)

UndoLinks == \A i \in 1..Len(stockUndo) :
               i < Len(stockUndo) => Link(stockUndo[i], stockUndo[i + 1])

RedoLinks == \A i \in 1..Len(stockRedo) :
               i < Len(stockRedo) => Link(stockRedo[i + 1], stockRedo[i])

MiddleLink ==
  /\ mpc \notin {"undone", "redone"} /\ stockUndo # <<>> /\ stockRedo # <<>> =>
       Link(Last(stockUndo), Last(stockRedo))
  /\ Busy /\ stockUndo # <<>> => Link(Last(stockUndo), handler)
  /\ mpc \in {"undone", "redone"} /\ stockRedo # <<>> => Link(handler, Last(stockRedo))

\* The tree is the one between the last edit done and the first one undone.
UndoRoot ==
  ~Busy /\ stockUndo # <<>> => (Present(Last(stockUndo)) => root = After(Last(stockUndo)))

TopPresent(i) == /\ Present(stockRedo[i])
                 /\ \A k \in 1..Len(stockRedo) : k > i => ~Present(stockRedo[k])

\* The tree without an edit whose dialog is open.
Before == IF mpc = "append" /\ Present(handler) THEN handler.before ELSE root

RedoRoot ==
  (mpc \in {"undone", "redone"} => ~Present(handler)) =>
    \A i \in 1..Len(stockRedo) : TopPresent(i) => Before = stockRedo[i].before

HandlerRoot ==
  /\ mpc \in {"append", "redone"} /\ Present(handler) => root = After(handler)
  /\ mpc = "undone" /\ Present(handler) => root = handler.before

LineInv == UndoLinks /\ RedoLinks /\ MiddleLink
RootInv == UndoRoot /\ RedoRoot /\ HandlerRoot

DInv == TypeOK /\ LoadInv /\ TreeInv /\ DialogsInv /\ (~mixed => LineInv /\ RootInv)

-----------------------------------------------------------------------------
(***************************************************************************)
(* Facts about sequences, in the form the steps below use them.            *)
(***************************************************************************)

\* Appending keeps the old elements at their places and adds one at the end.
LEMMA AppendFacts ==
  ASSUME NEW S, NEW q \in Seq(S), NEW e \in S
  PROVE  /\ Append(q, e) \in Seq(S)
         /\ Len(Append(q, e)) = Len(q) + 1
         /\ \A i \in 1..Len(q) : Append(q, e)[i] = q[i]
         /\ Append(q, e)[Len(q) + 1] = e
  OBVIOUS

\* Taking the oldest element away moves the others one place down.
LEMMA TailFacts ==
  ASSUME NEW S, NEW q \in Seq(S), q # <<>>
  PROVE  /\ Tail(q) \in Seq(S)
         /\ Len(Tail(q)) = Len(q) - 1
         /\ \A i \in 1..(Len(q) - 1) : Tail(q)[i] = q[i + 1]
  OBVIOUS

\* Taking the newest element away keeps the others at their places.
LEMMA FrontFacts ==
  ASSUME NEW S, NEW q \in Seq(S), q # <<>>
  PROVE  /\ Front(q) \in Seq(S)
         /\ Len(Front(q)) = Len(q) - 1
         /\ \A i \in 1..(Len(q) - 1) : Front(q)[i] = q[i]
         /\ Last(q) \in S
         /\ Len(q) \in Nat /\ Len(q) > 0
<1>1. Len(q) \in Nat /\ Len(q) > 0
  OBVIOUS
<1>2. \A i \in 1..Len(q) : q[i] \in S
  OBVIOUS
<1>3. Last(q) \in S
  BY <1>1, <1>2 DEF Last
<1> DEFINE n == Len(q) - 1
<1> HIDE DEF n
<1>4. n \in Nat
  BY <1>1 DEF n
<1>5. \A i \in 1..n : q[i] \in S
  BY <1>1, <1>2 DEF n
<1>6. /\ SubSeq(q, 1, n) \in Seq(S)
      /\ Len(SubSeq(q, 1, n)) = IF 1 <= n THEN n - 1 + 1 ELSE 0
      /\ \A i \in 1..(n - 1 + 1) : SubSeq(q, 1, n)[i] = q[1 + i - 1]
  BY <1>4, <1>5, 1 \in Int, n \in Int, SubSeqProperties
<1>7. Front(q) = SubSeq(q, 1, n)
  BY DEF Front, n
<1>8. Len(Front(q)) = n /\ \A i \in 1..n : Front(q)[i] = q[i]
  BY <1>4, <1>6, <1>7
<1> QED
  BY <1>1, <1>3, <1>6, <1>7, <1>8 DEF n

-----------------------------------------------------------------------------
(***************************************************************************)
(* WriteFile.                                                              *)
(***************************************************************************)

\* No step loses the last whole copy of a saved tree: os.remove leaves the
\* temporary file, and os.rename puts it at the path or leaves it beside it.
LEMMA FileStep == FileOrTemp /\ [Next]_vars => FileOrTemp'
<1> SUFFICES ASSUME FileOrTemp, [Next]_vars, NEW f \in known'
             PROVE  \/ f \in exists' \cup leftover'
                    \/ mpc' = "rename" /\ target' = f
  BY DEF FileOrTemp
<1> USE DEF FileOrTemp
<1>1. CASE RemoveOld
  BY <1>1 DEF RemoveOld
<1>2. CASE RenameTmp
  BY <1>2 DEF RenameTmp
<1>3. CASE Editing
  BY <1>3 DEF Editing, Do, AppendUndoHandler, CancelDialog, DialogAgain, Undo, Undone, Redo,
              Redone, HandlerFails, MainFree, mainVars, diskVars
<1>4. CASE Save \/ WriteTmp \/ Saved
  BY <1>4 DEF Save, WriteTmp, Saved, MainFree, diskVars
<1>5. CASE Leaving
  BY <1>5 DEF Leaving, CheckFileNeedsSave, StartSession, CancelOpen, Exit, MainFree, diskVars
<1>6. CASE Loading
  BY <1>6 DEF Loading, LoadStart, Parse, NewRoot, LoadDone, mainVars, diskVars
<1>7. CASE UNCHANGED vars
  BY <1>7 DEF vars, mainVars, diskVars
<1> QED
  BY <1>1, <1>2, <1>3, <1>4, <1>5, <1>6, <1>7 DEF Next, Saving

\* WriteFile: whenever the program is killed, and whatever step of a save
\* fails, every document that was ever saved is whole at its path or in a
\* temporary file beside it.
THEOREM FileOrTempHolds == Spec => []FileOrTemp
<1>1. Init => FileOrTemp
  BY DEF Init, FileOrTemp
<1> QED
  BY <1>1, FileStep, PTL DEF Spec

-----------------------------------------------------------------------------
(***************************************************************************)
(* Types.                                                                  *)
(***************************************************************************)

\* The initial state satisfies the invariant.
LEMMA InitDInv == Init => DInv
<1> SUFFICES ASSUME Init PROVE DInv
  OBVIOUS
<1> USE DocumentAssumption DEF Init
<1>1. TypeOK
  <2>1. disk \in [Files -> Trees] /\ {} \in Trees
    BY DEF Trees
  <2>2. stockUndo \in Seq(Handlers) /\ stockRedo \in Seq(Handlers)
    OBVIOUS
  <2>3. /\ root \in Trees /\ doc \in 0..MaxLoads /\ edits \in 0..MaxEdits
        /\ tmp \in Trees /\ parsed \in Trees
    BY <2>1
  <2>4. /\ filePath \in Files \cup {NoFile} /\ target \in Files \cup {NoFile}
        /\ next \in Files \cup {NoFile}
    OBVIOUS
  <2>5. /\ undoId \in Int /\ undoIdOnSave \in Int
        /\ exists \subseteq Files /\ leftover \subseteq Files /\ known \subseteq Files
    OBVIOUS
  <2>6. /\ isDirty \in BOOLEAN /\ saveAs \in BOOLEAN /\ cut \in BOOLEAN
        /\ mixed \in BOOLEAN /\ dialogs \subseteq Handlers
        /\ mpc = "idle" /\ handler = NoHandler /\ goal = "none" /\ result = "none"
        /\ lpc = "idle"
    OBVIOUS
  <2> QED
    BY ONLY <2>1, <2>2, <2>3, <2>4, <2>5, <2>6 DEF TypeOK
<1>2. LoadInv
  BY DEF LoadInv
<1>3. TreeInv
  <2>1. {} \in MadeTrees /\ disk \in [Files -> MadeTrees]
    BY DEF MadeTrees
  <2>2. stockUndo \in Seq(MadeHandlers) /\ stockRedo \in Seq(MadeHandlers)
    OBVIOUS
  <2> QED
    BY <2>1, <2>2 DEF TreeInv, Busy
<1>4. LineInv
  BY DEF LineInv, UndoLinks, RedoLinks, MiddleLink, Busy
<1>5. RootInv
  BY DEF RootInv, UndoRoot, RedoRoot, HandlerRoot, Busy
<1>6. DialogsInv
  BY DEF DialogsInv
<1> QED
  BY <1>1, <1>2, <1>3, <1>4, <1>5, <1>6 DEF DInv

\* Every step keeps the variables in their types.
LEMMA TypeStep == TypeOK /\ LoadInv /\ [Next]_vars => TypeOK'
<1> SUFFICES ASSUME TypeOK, LoadInv, [Next]_vars PROVE TypeOK'
  OBVIOUS
<1>a. ASSUME Aside PROVE dialogs' \subseteq Handlers /\ mixed' \in BOOLEAN
  BY <1>a DEF Aside, TypeOK, dialogVars
<1> USE DocumentAssumption
    DEF TypeOK, treeVars, undoVars, diskVars, mainVars, loadVars, dialogVars
<1>1. CASE Do
  <2>1. edits' \in Edits /\ root' \in Trees
    BY <1>1 DEF Do, Edits, Trees
  <2>2. handler' \in Handlers
    BY <1>1, <2>1 DEF Do, Handlers
  <2> QED
    BY <1>a, <1>1, <2>1, <2>2 DEF Do, Edits
<1>2. CASE AppendUndoHandler
  <2>1. stockUndo' \in Seq(Handlers)
    BY <1>2, AppendFacts, TailFacts DEF AppendUndoHandler
  <2> QED
    BY <1>2, <2>1 DEF AppendUndoHandler
<1>3. CASE Undo
  <2>1. stockUndo' \in Seq(Handlers) /\ handler' \in Handlers
    BY <1>3, FrontFacts DEF Undo
  <2>2. root' \in Trees
    BY <1>3 DEF Undo, Trees
  <2> QED
    BY <1>a, <1>3, <2>1, <2>2 DEF Undo
<1>4. CASE Undone
  <2>1. stockRedo' \in Seq(Handlers)
    BY <1>4, AppendFacts DEF Undone
  <2> QED
    BY <1>4, <2>1 DEF Undone
<1>5. CASE Redo
  <2>1. stockRedo' \in Seq(Handlers) /\ handler' \in Handlers
    BY <1>5, FrontFacts DEF Redo
  <2>2. root' \in Trees
    BY <1>5, <2>1 DEF Redo, Trees, Handlers
  <2> QED
    BY <1>a, <1>5, <2>1, <2>2 DEF Redo
<1>6. CASE Redone
  <2>1. stockUndo' \in Seq(Handlers)
    BY <1>6, AppendFacts DEF Redone
  <2> QED
    BY <1>6, <2>1 DEF Redone
<1>7. CASE HandlerFails
  <2>1. stockUndo' \in Seq(Handlers) /\ stockRedo' \in Seq(Handlers)
    BY <1>7, FrontFacts DEF HandlerFails
  <2> QED
    BY <1>a, <1>7, <2>1 DEF HandlerFails
<1>8. CASE Save
  <2>1. target' \in Files /\ saveAs' \in BOOLEAN /\ mpc' = "tmp"
    BY <1>8 DEF Save, BeginSave, BeginSaveAs
  <2> QED
    BY <1>a, <1>8, <2>1 DEF Save
<1>9. CASE WriteTmp
  BY <1>9 DEF WriteTmp
<1>10. CASE RemoveOld
  BY <1>10 DEF RemoveOld
<1>11. CASE RenameTmp
  <2>1. exists' \subseteq Files /\ disk' \in [Files -> Trees] /\ known' \subseteq Files
    BY <1>11 DEF RenameTmp
  <2>2. /\ leftover' \subseteq Files /\ isDirty' \in BOOLEAN
        /\ undoIdOnSave' \in Int /\ cut' \in BOOLEAN
    BY <1>11 DEF RenameTmp
  <2> QED
    BY <1>11, <2>1, <2>2 DEF RenameTmp
<1>12. CASE Saved
  <2>1. tmp' \in Trees
    BY <1>12 DEF Saved, Trees
  <2>2. /\ filePath' \in Files \cup {NoFile} /\ target' = NoFile /\ saveAs' = FALSE
        /\ mpc' \in {"idle", "leave"}
    BY <1>12 DEF Saved
  <2>3. UNCHANGED <<treeVars, undoVars, diskVars, handler, goal, result, loadVars, dialogVars>>
    BY <1>12 DEF Saved
  <2>4. root' \in Trees /\ doc' \in 0..MaxLoads /\ edits' \in 0..MaxEdits
    BY <2>3
  <2>5. /\ isDirty' \in BOOLEAN /\ undoId' \in Int /\ undoIdOnSave' \in Int
        /\ stockUndo' \in Seq(Handlers) /\ stockRedo' \in Seq(Handlers) /\ cut' \in BOOLEAN
    BY <2>3
  <2>6. /\ exists' \subseteq Files /\ disk' \in [Files -> Trees]
        /\ leftover' \subseteq Files /\ known' \subseteq Files
    BY <2>3
  <2>7. /\ handler' \in Handlers \cup {NoHandler}
        /\ mixed' \in BOOLEAN /\ dialogs' \subseteq Handlers
        /\ next' \in Files \cup {NoFile} /\ parsed' \in Trees
    BY <2>3
  <2> QED
    BY <2>1, <2>2, <2>3, <2>4, <2>5, <2>6, <2>7
<1>13. CASE CheckFileNeedsSave
  <2>1. /\ target' \in Files \cup {NoFile} /\ saveAs' \in BOOLEAN
        /\ mpc' = "leave" \/ (mpc' = "tmp" /\ target' \in Files)
    BY <1>13 DEF CheckFileNeedsSave, BeginSave, BeginSaveAs
  <2>2. goal' \in {"session", "exit"} /\ result' \in {"ok", "no", "yes"}
    BY <1>13 DEF CheckFileNeedsSave
  <2>3. /\ handler' = NoHandler
        /\ UNCHANGED <<treeVars, filePath, undoVars, diskVars, tmp, loadVars>>
        /\ dialogs' \subseteq Handlers /\ mixed' \in BOOLEAN
    BY <1>a, <1>13 DEF CheckFileNeedsSave
  <2> QED
    BY <2>1, <2>2, <2>3
<1>14. CASE StartSession
  BY <1>14 DEF StartSession, LoadInv, Loads
<1>15. CASE CancelOpen \/ Exit
  BY <1>15 DEF CancelOpen, Exit
<1>16. CASE LoadStart
  <2>1. stockUndo' \in Seq(Handlers) /\ stockRedo' \in Seq(Handlers)
    BY <1>16 DEF LoadStart
  <2>2. /\ undoId' = 0 /\ undoIdOnSave' = 0 /\ cut' = FALSE /\ filePath' = next
        /\ lpc = "queued" /\ lpc' = "parse"
        /\ UNCHANGED <<treeVars, isDirty, diskVars, mainVars, next, parsed, dialogVars>>
    BY <1>16 DEF LoadStart
  <2>3. root' \in Trees /\ doc' \in 0..MaxLoads /\ edits' \in 0..MaxEdits
    BY <2>1, <2>2
  <2>4. filePath' \in Files \cup {NoFile} /\ isDirty' \in BOOLEAN
    BY <2>1, <2>2
  <2>5. undoId' \in Int /\ undoIdOnSave' \in Int
    BY <2>1, <2>2
  <2>6. /\ exists' \subseteq Files /\ disk' \in [Files -> Trees]
        /\ leftover' \subseteq Files /\ known' \subseteq Files
    BY <2>1, <2>2
  <2>7. lpc' \in {"idle", "queued", "parse", "root", "done"} /\ doc' < MaxLoads
    BY <2>1, <2>2
  <2>8. next' \in Files \cup {NoFile} /\ parsed' \in Trees /\ cut' \in BOOLEAN
    BY <2>1, <2>2
  <2> QED
    BY <2>1, <2>2, <2>3, <2>4, <2>5, <2>6, <2>7, <2>8
<1>17. CASE Parse
  BY <1>17 DEF Parse, Trees
<1>18. CASE NewRoot
  BY <1>18 DEF NewRoot
<1>19. CASE LoadDone
  <2>1. parsed' \in Trees /\ next' \in Files \cup {NoFile} /\ isDirty' \in BOOLEAN
    BY <1>19 DEF LoadDone, Trees
  <2> QED
    BY <1>19, <2>1 DEF LoadDone
<1>20. CASE UNCHANGED vars
  BY <1>20 DEF vars
<1>21. CASE CancelDialog
  <2>1. root' \in Trees /\ handler' = NoHandler /\ mixed' \in BOOLEAN
    BY <1>21 DEF CancelDialog, Trees
  <2> QED
    BY <1>21, <2>1 DEF CancelDialog
<1>22. CASE DialogAgain
  <2>1. PICK h \in dialogs : handler' = [h EXCEPT !.before = root \ {h.edit}]
    BY <1>22 DEF DialogAgain
  <2>2. h \in Handlers /\ root \ {h.edit} \in Trees
    BY DEF Trees
  <2>3. handler' \in Handlers
    BY <2>1, <2>2 DEF Handlers
  <2>4. dialogs' \subseteq Handlers
    BY <1>22 DEF DialogAgain
  <2> QED
    BY <1>22, <2>3, <2>4 DEF DialogAgain
<1> QED
  BY <1>1, <1>2, <1>3, <1>4, <1>5, <1>6, <1>7, <1>8, <1>9, <1>10, <1>11, <1>12, <1>13,
     <1>14, <1>15, <1>16, <1>17, <1>18, <1>19, <1>20, <1>21, <1>22
  DEF Next, Editing, Saving, Leaving, Loading

-----------------------------------------------------------------------------
(***************************************************************************)
(* The bound on the sessions, and the trees.                               *)
(***************************************************************************)

\* A session the main thread is going to start stays within the bound.
LEMMA LoadStep == TypeOK /\ LoadInv /\ [Next]_vars => LoadInv'
<1> SUFFICES ASSUME TypeOK, LoadInv, [Next]_vars PROVE LoadInv'
  OBVIOUS
<1> USE DocumentAssumption DEF LoadInv, Loads
<1>1. doc \in Nat /\ MaxLoads \in Nat
  BY DEF TypeOK
<1>2. CASE Editing
  BY <1>2 DEF Editing, Do, AppendUndoHandler, CancelDialog, DialogAgain, Undo, Undone, Redo,
              Redone, HandlerFails, treeVars, mainVars, loadVars
<1>3. CASE Saving
  BY <1>3 DEF Saving, Save, WriteTmp, RemoveOld, RenameTmp, Saved, treeVars, loadVars
<1>4. CASE CheckFileNeedsSave
  BY <1>4 DEF CheckFileNeedsSave, treeVars, loadVars
<1>5. CASE StartSession \/ CancelOpen \/ Exit
  BY <1>5 DEF StartSession, CancelOpen, Exit, treeVars, loadVars
<1>6. CASE LoadStart \/ Parse \/ LoadDone
  BY <1>1, <1>6 DEF LoadStart, Parse, LoadDone, treeVars, mainVars
<1>7. CASE NewRoot
  BY <1>1, <1>7 DEF NewRoot, mainVars
<1>8. CASE UNCHANGED vars
  BY <1>8 DEF vars, treeVars, mainVars, loadVars
<1> QED
  BY <1>2, <1>3, <1>4, <1>5, <1>6, <1>7, <1>8 DEF Next, Leaving, Loading

\* What was made stays made.
LEMMA Growing ==
  ASSUME TypeOK, [Next]_vars
  PROVE  /\ doc <= doc' /\ edits <= edits'
         /\ MadeTrees \subseteq MadeTrees' /\ MadeHandlers \subseteq MadeHandlers'
<1>1. doc \in Nat /\ edits \in Nat
  BY DocumentAssumption DEF TypeOK
<1>2. \/ edits' = edits + 1 /\ doc' = doc
      \/ doc' = doc + 1 /\ edits' = edits
      \/ UNCHANGED <<doc, edits>>
  BY DEF Next, Editing, Do, AppendUndoHandler, CancelDialog, DialogAgain, Undo, Undone, Redo,
         Redone, HandlerFails, Saving, Save, WriteTmp, RemoveOld, RenameTmp, Saved,
         Leaving, CheckFileNeedsSave, StartSession, CancelOpen, Exit,
         Loading, LoadStart, Parse, NewRoot, LoadDone, vars, treeVars
<1>3. doc <= doc' /\ edits <= edits' /\ doc' \in Nat /\ edits' \in Nat
  BY <1>1, <1>2
<1>4. MadeTrees \subseteq MadeTrees'
  BY <1>1, <1>3 DEF MadeTrees
<1>5. ASSUME NEW h \in MadeHandlers PROVE h \in MadeHandlers'
  <2>1. h.doc \in Nat /\ h.edit \in Nat
    BY DocumentAssumption DEF MadeHandlers, Handlers, Edits
  <2> QED
    BY <1>1, <1>3, <1>4, <2>1 DEF MadeHandlers
<1> QED
  BY <1>3, <1>4, <1>5

\* What becomes of the dialogs: the open one stays open beside a command, and
\* that is never forgotten.
LEMMA DialogsStep ==
  ASSUME [Next]_vars
  PROVE  /\ dialogs' \subseteq dialogs \cup (IF Busy THEN {handler} ELSE {})
         /\ mixed' = mixed \/ mixed' = TRUE
         /\ dialogs' \subseteq dialogs \/ mixed' = TRUE
<1> USE DEF dialogVars
<1>1. CASE Aside
  BY <1>1 DEF Aside, Busy
<1>2. CASE CancelDialog \/ DialogAgain
  BY <1>2 DEF CancelDialog, DialogAgain
<1>3. CASE AppendUndoHandler \/ Undone \/ Redone
  BY <1>3 DEF AppendUndoHandler, Undone, Redone
<1>4. CASE WriteTmp \/ RemoveOld \/ RenameTmp \/ Saved
  BY <1>4 DEF WriteTmp, RemoveOld, RenameTmp, Saved
<1>5. CASE StartSession \/ CancelOpen \/ Exit
  BY <1>5 DEF StartSession, CancelOpen, Exit
<1>6. CASE Loading
  BY <1>6 DEF Loading, LoadStart, Parse, NewRoot, LoadDone
<1>7. CASE UNCHANGED vars
  BY <1>7 DEF vars
<1>8. Do \/ Undo \/ Redo \/ HandlerFails \/ Save \/ CheckFileNeedsSave => Aside
  BY DEF Do, Undo, Redo, HandlerFails, Save, CheckFileNeedsSave
<1> QED
  BY <1>1, <1>2, <1>3, <1>4, <1>5, <1>6, <1>7, <1>8 DEF Next, Editing, Saving, Leaving

\* Where nothing was mixed up, commands start with no dialog open and none is
\* come back to.
LEMMA NotMixed ==
  ASSUME TypeOK, DialogsInv, [Next]_vars
  PROVE  /\ DialogsInv'
         /\ ~mixed' => /\ ~mixed /\ ~DialogAgain
                       /\ Do \/ Undo \/ Redo \/ HandlerFails \/ Save \/ CheckFileNeedsSave
                            => mpc # "append"
<1>1. mixed \in BOOLEAN
  BY DEF TypeOK
<1>2. DialogsInv'
  BY <1>1, DialogsStep DEF DialogsInv
<1>3. ASSUME ~mixed' PROVE ~mixed /\ ~DialogAgain
  BY <1>1, <1>3, DialogsStep DEF DialogsInv, DialogAgain
<1>4. ASSUME ~mixed', Do \/ Undo \/ Redo \/ HandlerFails \/ Save \/ CheckFileNeedsSave
      PROVE  mpc # "append"
  <2>1. Aside
    BY <1>4 DEF Do, Undo, Redo, HandlerFails, Save, CheckFileNeedsSave
  <2> QED
    BY <1>4, <2>1 DEF Aside
<1> QED
  BY <1>2, <1>3, <1>4

\* TreeInv is kept by every step.
LEMMA TreeStep == TypeOK /\ TreeInv /\ [Next]_vars => TreeInv'
<1> SUFFICES ASSUME TypeOK, TreeInv, [Next]_vars PROVE TreeInv'
  OBVIOUS
<1> DEFINE G == MadeHandlers'
           M == MadeTrees'
<1>1. doc <= doc' /\ edits <= edits' /\ MadeTrees \subseteq M /\ MadeHandlers \subseteq G
  BY Growing
<1>2. stockUndo \in Seq(G) /\ stockRedo \in Seq(G)
  BY <1>1, SeqMonotonic DEF TreeInv
<1>3. /\ root \in M /\ parsed \in M /\ tmp \in M /\ {} \in M
      /\ disk \in [Files -> M]
      /\ Busy => handler \in G
      /\ dialogs \subseteq G
  BY <1>1 DEF TreeInv, MadeTrees
<1>d. dialogs' \subseteq G
  BY <1>1, <1>3, DialogsStep DEF TreeInv
<1> SUFFICES /\ root' \in M /\ parsed' \in M /\ tmp' \in M
             /\ disk' \in [Files -> M]
             /\ stockUndo' \in Seq(G) /\ stockRedo' \in Seq(G)
             /\ Busy' => handler' \in G
  BY <1>d DEF TreeInv
<1>4. CASE Do
  <2>1. edits \in Nat /\ doc \in Nat
    BY DocumentAssumption DEF TypeOK
  <2>2. edits' \in Edits /\ edits' \notin root /\ root' = root \cup {edits'}
    BY <1>4, <2>1, DocumentAssumption DEF Do, TreeInv, MadeTrees, Edits
  <2>3. root' \in M
    BY <1>3, <2>1, <2>2 DEF MadeTrees, Edits
  <2>4. handler' \in Handlers
    BY <1>4, <2>2 DEF Do, Handlers, TypeOK
  <2>5. handler' \in G
    BY <1>3, <1>4, <2>1, <2>2, <2>4 DEF Do, MadeHandlers
  <2> QED
    BY <1>2, <1>3, <1>4, <2>3, <2>5 DEF Do, undoVars, diskVars, loadVars
<1>5. CASE AppendUndoHandler
  <2> DEFINE kept == IF Len(stockUndo) >= UndoLimit THEN Tail(stockUndo) ELSE stockUndo
  <2>1. stockUndo' = Append(kept, handler) /\ stockRedo' = <<>> /\ ~Busy' /\ Busy
    BY <1>5 DEF AppendUndoHandler, Busy
  <2>2. kept \in Seq(G)
    BY <1>2, TailFacts, DocumentAssumption
  <2>3. stockUndo' \in Seq(G)
    BY <1>3, <2>1, <2>2, AppendFacts
  <2>4. stockRedo' \in Seq(G)
    BY <2>1
  <2> QED
    BY <1>3, <1>5, <2>1, <2>3, <2>4 DEF AppendUndoHandler, treeVars, diskVars, loadVars
<1>6. CASE Undo
  <2>1. stockUndo' \in Seq(G) /\ handler' \in G
    BY <1>2, <1>6, FrontFacts DEF Undo
  <2>2. root' \in M
    BY <1>3, <1>6 DEF Undo, MadeTrees
  <2> QED
    BY <1>2, <1>3, <1>6, <2>1, <2>2 DEF Undo, diskVars, loadVars
<1>7. CASE Undone
  <2>1. stockRedo' \in Seq(G) /\ ~Busy'
    BY <1>2, <1>3, <1>7, AppendFacts DEF Undone, Busy
  <2> QED
    BY <1>2, <1>3, <1>7, <2>1 DEF Undone, treeVars, diskVars, loadVars
<1>8. CASE Redo
  <2>1. stockRedo' \in Seq(G) /\ handler' \in G
    BY <1>2, <1>8, FrontFacts DEF Redo
  <2>2. handler'.edit \in 1..edits'
    <3>1. handler' \in MadeHandlers
      BY <1>8, FrontFacts DEF Redo, TreeInv
    <3> QED
      BY <1>1, <1>8, <3>1, DocumentAssumption DEF Redo, MadeHandlers, Handlers, Edits
  <2>3. root' \in M
    BY <1>3, <1>8, <2>2 DEF Redo, MadeTrees
  <2> QED
    BY <1>2, <1>3, <1>8, <2>1, <2>3 DEF Redo, diskVars, loadVars
<1>9. CASE Redone
  <2>1. stockUndo' \in Seq(G) /\ ~Busy'
    BY <1>2, <1>3, <1>9, AppendFacts DEF Redone, Busy
  <2> QED
    BY <1>2, <1>3, <1>9, <2>1 DEF Redone, treeVars, diskVars, loadVars
<1>10. CASE HandlerFails
  <2>1. stockUndo' \in Seq(G) /\ stockRedo' \in Seq(G)
    BY <1>2, <1>10, FrontFacts DEF HandlerFails
  <2> QED
    BY <1>3, <1>10, <2>1 DEF HandlerFails, treeVars, diskVars, loadVars, Busy
<1>11. CASE Save \/ WriteTmp \/ RemoveOld \/ Saved
  BY <1>2, <1>3, <1>11 DEF Save, BeginSave, BeginSaveAs, WriteTmp, RemoveOld,
                           Saved, treeVars, undoVars,
                           diskVars, loadVars, Busy
<1>12. CASE RenameTmp
  <2>1. disk' \in [Files -> M]
    BY <1>3, <1>12 DEF RenameTmp
  <2> QED
    BY <1>2, <1>3, <1>12, <2>1 DEF RenameTmp, treeVars, loadVars, Busy
<1>13. CASE Leaving
  BY <1>2, <1>3, <1>13 DEF Leaving, CheckFileNeedsSave, BeginSave, BeginSaveAs,
                           StartSession, CancelOpen, Exit,
                           treeVars, undoVars, diskVars, loadVars, Busy
<1>14. CASE LoadStart
  <2>1. stockUndo' \in Seq(G) /\ stockRedo' \in Seq(G)
    BY <1>14 DEF LoadStart
  <2>2. UNCHANGED <<root, parsed, tmp, disk, mpc, handler>>
    BY <1>14 DEF LoadStart, treeVars, diskVars, mainVars
  <2> QED
    BY <1>3, <2>1, <2>2 DEF Busy
<1>15. CASE Parse \/ NewRoot \/ LoadDone
  <2>1. UNCHANGED <<stockUndo, stockRedo, tmp, disk, mpc, handler>>
    BY <1>15 DEF Parse, NewRoot, LoadDone, undoVars, diskVars, mainVars
  <2>2. root' \in {root, parsed}
    BY <1>15 DEF Parse, NewRoot, LoadDone, treeVars
  <2>3. parsed' \in M
    BY <1>3, <1>15 DEF Parse, NewRoot, LoadDone, TypeOK
  <2> QED
    BY <1>2, <1>3, <2>1, <2>2, <2>3 DEF Busy
<1>16. CASE UNCHANGED vars
  BY <1>2, <1>3, <1>16 DEF vars, treeVars, undoVars, diskVars, mainVars, loadVars, Busy
<1>17. CASE CancelDialog
  <2>1. root' \in M /\ ~Busy'
    BY <1>3, <1>17 DEF CancelDialog, MadeTrees, Busy
  <2> QED
    BY <1>2, <1>3, <1>17, <2>1 DEF CancelDialog, undoVars, diskVars, loadVars
<1>18. CASE DialogAgain
  <2>1. PICK h \in dialogs : handler' = [h EXCEPT !.before = root \ {h.edit}]
    BY <1>18 DEF DialogAgain
  <2>2. UNCHANGED <<root, doc, edits>>
    BY <1>18 DEF DialogAgain, treeVars
  <2>3. h \in MadeHandlers /\ root \ {h.edit} \in MadeTrees /\ root \ {h.edit} \in Trees
    BY DEF TreeInv, MadeTrees, TypeOK, Trees
  <2>4. handler' \in MadeHandlers
    BY <2>1, <2>3 DEF MadeHandlers, Handlers
  <2> QED
    BY <1>1, <1>2, <1>3, <1>18, <2>2, <2>4 DEF DialogAgain, undoVars, diskVars, loadVars
<1> QED
  BY <1>4, <1>5, <1>6, <1>7, <1>8, <1>9, <1>10, <1>11, <1>12, <1>13, <1>14, <1>15, <1>16,
     <1>17, <1>18
  DEF Next, Editing, Saving, Loading

-----------------------------------------------------------------------------
(***************************************************************************)
(* The line of edits, when no undo handler fails.                          *)
(***************************************************************************)

\* Steps that leave the stacks, the tree and the handler alone.
LEMMA OtherSteps ==
  ASSUME Save \/ WriteTmp \/ RemoveOld \/ RenameTmp \/ Saved \/ Leaving \/ Parse
           \/ LoadDone \/ UNCHANGED vars,
         Save \/ CheckFileNeedsSave => mpc # "append"
  PROVE  /\ UNCHANGED <<stockUndo, stockRedo, root, doc>>
         /\ (mpc' = mpc /\ handler' = handler) \/ (~Busy /\ ~Busy')
<1>1. CASE Save \/ WriteTmp \/ RemoveOld \/ RenameTmp \/ Saved
  BY <1>1 DEF Save, BeginSave, BeginSaveAs, WriteTmp, RemoveOld, RenameTmp, Saved,
              MainFree, Busy,
              treeVars, undoVars
<1>2. CASE Leaving
  BY <1>2 DEF Leaving, CheckFileNeedsSave, BeginSave, BeginSaveAs,
                           StartSession, CancelOpen, Exit, MainFree, Busy,
              treeVars, undoVars
<1>3. CASE Parse \/ LoadDone \/ UNCHANGED vars
  BY <1>3 DEF Parse, LoadDone, vars, treeVars, undoVars, mainVars
<1> QED
  BY <1>1, <1>2, <1>3

\* A new tree leaves no handler of the present tree.
LEMMA NewRootForgets ==
  ASSUME TypeOK, TreeInv, NewRoot
  PROVE  /\ UNCHANGED <<stockUndo, stockRedo, handler, mpc>>
         /\ \A i \in 1..Len(stockUndo) : stockUndo[i].doc # doc'
         /\ \A i \in 1..Len(stockRedo) : stockRedo[i].doc # doc'
         /\ Busy => handler.doc # doc'
<1>1. doc \in Nat /\ doc' = doc + 1
  BY DocumentAssumption DEF TypeOK, NewRoot
<1>2. \A h \in MadeHandlers : h.doc # doc'
  <2> SUFFICES ASSUME NEW h \in MadeHandlers PROVE h.doc # doc'
    OBVIOUS
  <2>1. h.doc \in Nat /\ h.doc <= doc
    BY DocumentAssumption DEF MadeHandlers, Handlers
  <2> QED
    BY <1>1, <2>1
<1>3. /\ \A i \in 1..Len(stockUndo) : stockUndo[i] \in MadeHandlers
      /\ \A i \in 1..Len(stockRedo) : stockRedo[i] \in MadeHandlers
      /\ Busy => handler \in MadeHandlers
  BY DEF TreeInv
<1> QED
  BY <1>2, <1>3 DEF NewRoot, undoVars, mainVars

\* LineInv is kept by every step.
LEMMA LineStep == DInv /\ "undo" \notin Failures /\ [Next]_vars /\ ~mixed' => LineInv'
<1> SUFFICES ASSUME DInv, "undo" \notin Failures, [Next]_vars, ~mixed' PROVE LineInv'
  OBVIOUS
<1>0. /\ ~mixed /\ ~DialogAgain
      /\ Do \/ Undo \/ Redo \/ Save \/ CheckFileNeedsSave => mpc # "append"
  BY NotMixed DEF DInv
<1>1. /\ stockUndo \in Seq(MadeHandlers) /\ stockRedo \in Seq(MadeHandlers)
      /\ Len(stockUndo) \in Nat /\ Len(stockRedo) \in Nat
      /\ TypeOK /\ TreeInv /\ LineInv /\ RootInv
  BY <1>0 DEF DInv, TreeInv
<1> USE DEF LineInv
<1>2. CASE Do
  <2>1. /\ ~Busy /\ mpc' = "append" /\ UNCHANGED <<stockUndo, stockRedo, doc>>
        /\ handler'.doc = doc /\ handler'.before = root
    BY <1>0, <1>2 DEF Do, Busy, MainFree, undoVars
  <2>2. MiddleLink'
    BY <1>1, <2>1 DEF MiddleLink, Busy, RootInv, UndoRoot, Link, Present, After
  <2> QED
    BY <1>1, <2>1, <2>2 DEF UndoLinks, RedoLinks, Link, Present, After
<1>11. CASE CancelDialog
  <2>1. mpc = "append" /\ mpc' = "idle" /\ UNCHANGED <<stockUndo, stockRedo, doc>>
    BY <1>11 DEF CancelDialog, undoVars
  <2> QED
    BY <1>1, <2>1 DEF UndoLinks, RedoLinks, MiddleLink, Link, Present, After, Busy
<1>3. CASE AppendUndoHandler
  <2> DEFINE kept == IF Len(stockUndo) >= UndoLimit THEN Tail(stockUndo) ELSE stockUndo
  <2>1. /\ Busy /\ handler \in MadeHandlers /\ ~Busy' /\ doc' = doc
        /\ stockUndo' = Append(kept, handler) /\ stockRedo' = <<>>
    BY <1>1, <1>3 DEF AppendUndoHandler, Busy, TreeInv, treeVars
  <2>2. Len(stockUndo) >= UndoLimit => stockUndo # <<>>
    BY <1>1, DocumentAssumption
  <2>3. /\ kept \in Seq(MadeHandlers) /\ Len(kept) \in Nat
        /\ kept # <<>> => stockUndo # <<>> /\ kept[Len(kept)] = Last(stockUndo)
        /\ \A i \in 1..Len(kept) : i < Len(kept) => Link(kept[i], kept[i + 1])
    <3>1. CASE Len(stockUndo) >= UndoLimit
      <4>1. /\ kept \in Seq(MadeHandlers) /\ Len(kept) = Len(stockUndo) - 1
            /\ \A i \in 1..Len(kept) : kept[i] = stockUndo[i + 1]
        BY <1>1, <2>2, <3>1, TailFacts
      <4>2. \A i \in 1..Len(kept) : i < Len(kept) => Link(kept[i], kept[i + 1])
        BY <1>1, <4>1 DEF UndoLinks
      <4>3. kept # <<>> => kept[Len(kept)] = Last(stockUndo)
        BY <1>1, <4>1 DEF Last
      <4> QED
        BY <1>1, <2>2, <3>1, <4>1, <4>2, <4>3
    <3>2. CASE ~(Len(stockUndo) >= UndoLimit)
      BY <1>1, <3>2 DEF UndoLinks, Last
    <3> QED
      BY <3>1, <3>2
  <2> HIDE DEF kept
  <2>4. /\ Len(stockUndo') = Len(kept) + 1
        /\ \A i \in 1..Len(kept) : stockUndo'[i] = kept[i]
        /\ stockUndo'[Len(kept) + 1] = handler
    BY <2>1, <2>3, AppendFacts
  <2>5. kept # <<>> => Link(kept[Len(kept)], handler)
    BY <1>1, <2>1, <2>3 DEF MiddleLink
  <2>6. UndoLinks'
    <3> SUFFICES ASSUME NEW i \in 1..Len(stockUndo'), i < Len(stockUndo')
                 PROVE  Link(stockUndo'[i], stockUndo'[i + 1])
      BY <2>1 DEF UndoLinks, Link, Present, After
    <3>1. CASE i < Len(kept)
      BY <2>3, <2>4, <3>1
    <3>2. CASE i = Len(kept)
      BY <2>3, <2>4, <2>5, <3>2
    <3> QED
      BY <2>3, <2>4, <3>1, <3>2
  <2> QED
    BY <2>1, <2>6 DEF RedoLinks, MiddleLink
<1>4. CASE Undo
  <2>1. /\ ~Busy /\ mpc' = "undone" /\ stockUndo # <<>> /\ UNCHANGED <<stockRedo, doc>>
        /\ stockUndo' = Front(stockUndo) /\ handler' = Last(stockUndo)
    BY <1>0, <1>4 DEF Undo, Busy, MainFree
  <2>2. /\ Len(stockUndo') = Len(stockUndo) - 1 /\ Len(stockUndo) > 0
        /\ \A i \in 1..Len(stockUndo') : stockUndo'[i] = stockUndo[i]
    BY <1>1, <2>1, FrontFacts
  <2>3. UndoLinks' /\ RedoLinks'
    <3>1. RedoLinks'
      BY <1>1, <2>1 DEF RedoLinks, Link, Present, After
    <3>2. \A i \in 1..Len(stockUndo') : i < Len(stockUndo') =>
            i \in 1..Len(stockUndo) /\ i < Len(stockUndo) /\ i + 1 \in 1..Len(stockUndo')
      BY <1>1, <2>2
    <3>3. UndoLinks'
      BY <1>1, <2>1, <2>2, <3>2 DEF UndoLinks, Link, Present, After
    <3> QED
      BY <3>1, <3>3
  <2>4. stockUndo' # <<>> => Link(Last(stockUndo'), handler')
    <3> SUFFICES ASSUME stockUndo' # <<>> PROVE Link(Last(stockUndo'), handler')
      OBVIOUS
    <3>1. stockUndo' \in Seq(MadeHandlers)
      BY <1>1, <2>1, FrontFacts
    <3>2. Len(stockUndo') \in 1..Len(stockUndo) /\ Len(stockUndo') < Len(stockUndo)
      BY <1>1, <2>2, <3>1
    <3>3. Link(stockUndo[Len(stockUndo')], stockUndo[Len(stockUndo') + 1])
      BY <1>1, <3>2 DEF UndoLinks
    <3> QED
      BY <1>1, <2>1, <2>2, <3>2, <3>3 DEF Last
  <2>5. stockRedo # <<>> => Link(handler', Last(stockRedo))
    BY <1>1, <2>1 DEF MiddleLink, Busy
  <2> QED
    BY <2>1, <2>3, <2>4, <2>5 DEF MiddleLink, Busy, Link, Present, After
<1>5. CASE Undone
  <2>1. /\ mpc = "undone" /\ ~Busy' /\ handler \in MadeHandlers
        /\ UNCHANGED <<stockUndo, doc>> /\ stockRedo' = Append(stockRedo, handler)
    BY <1>1, <1>5 DEF Undone, Busy, TreeInv, treeVars
  <2>2. /\ Len(stockRedo') = Len(stockRedo) + 1
        /\ \A i \in 1..Len(stockRedo) : stockRedo'[i] = stockRedo[i]
        /\ stockRedo'[Len(stockRedo) + 1] = handler
    BY <1>1, <2>1, AppendFacts
  <2>3. stockRedo # <<>> => Link(handler, stockRedo[Len(stockRedo)])
    BY <1>1, <2>1 DEF MiddleLink, Last
  <2>4. RedoLinks'
    <3> SUFFICES ASSUME NEW i \in 1..Len(stockRedo'), i < Len(stockRedo')
                 PROVE  Link(stockRedo'[i + 1], stockRedo'[i])
      BY <2>1 DEF RedoLinks, Link, Present, After
    <3>1. CASE i < Len(stockRedo)
      BY <1>1, <2>2, <3>1 DEF RedoLinks
    <3>2. CASE i = Len(stockRedo)
      BY <1>1, <2>2, <2>3, <3>2
    <3> QED
      BY <1>1, <2>2, <3>1, <3>2
  <2>5. UndoLinks'
    BY <1>1, <2>1 DEF UndoLinks, Link, Present, After
  <2>6. Last(stockRedo') = handler
    BY <2>2 DEF Last
  <2>7. stockUndo # <<>> => Link(Last(stockUndo), handler)
    BY <1>1, <2>1 DEF MiddleLink, Busy
  <2> QED
    BY <2>1, <2>4, <2>5, <2>6, <2>7 DEF MiddleLink, Busy, Link, Present, After
<1>6. CASE Redo
  <2>1. /\ ~Busy /\ mpc' = "redone" /\ stockRedo # <<>> /\ UNCHANGED <<stockUndo, doc>>
        /\ stockRedo' = Front(stockRedo) /\ handler' = Last(stockRedo)
    BY <1>0, <1>6 DEF Redo, Busy, MainFree
  <2>2. /\ Len(stockRedo') = Len(stockRedo) - 1 /\ Len(stockRedo) > 0
        /\ \A i \in 1..Len(stockRedo') : stockRedo'[i] = stockRedo[i]
    BY <1>1, <2>1, FrontFacts
  <2>3. UndoLinks' /\ RedoLinks'
    BY <1>1, <2>1, <2>2 DEF UndoLinks, RedoLinks, Link, Present, After
  <2>4. stockRedo' # <<>> => Link(handler', Last(stockRedo'))
    <3> SUFFICES ASSUME stockRedo' # <<>> PROVE Link(handler', Last(stockRedo'))
      OBVIOUS
    <3>1. stockRedo' \in Seq(MadeHandlers)
      BY <1>1, <2>1, FrontFacts
    <3>2. Len(stockRedo') \in 1..Len(stockRedo) /\ Len(stockRedo') < Len(stockRedo)
      BY <1>1, <2>2, <3>1
    <3>3. Link(stockRedo[Len(stockRedo') + 1], stockRedo[Len(stockRedo')])
      BY <1>1, <3>2 DEF RedoLinks
    <3> QED
      BY <1>1, <2>1, <2>2, <3>2, <3>3 DEF Last
  <2>5. stockUndo # <<>> => Link(Last(stockUndo), handler')
    BY <1>1, <2>1 DEF MiddleLink, Busy
  <2> QED
    BY <2>1, <2>3, <2>4, <2>5 DEF MiddleLink, Busy, Link, Present, After
<1>7. CASE Redone
  <2>1. /\ mpc = "redone" /\ ~Busy' /\ handler \in MadeHandlers
        /\ UNCHANGED <<stockRedo, doc>> /\ stockUndo' = Append(stockUndo, handler)
    BY <1>1, <1>7 DEF Redone, Busy, TreeInv, treeVars
  <2>2. /\ Len(stockUndo') = Len(stockUndo) + 1
        /\ \A i \in 1..Len(stockUndo) : stockUndo'[i] = stockUndo[i]
        /\ stockUndo'[Len(stockUndo) + 1] = handler
    BY <1>1, <2>1, AppendFacts
  <2>3. stockUndo # <<>> => Link(stockUndo[Len(stockUndo)], handler)
    BY <1>1, <2>1 DEF MiddleLink, Last, Busy
  <2>4. UndoLinks'
    <3> SUFFICES ASSUME NEW i \in 1..Len(stockUndo'), i < Len(stockUndo')
                 PROVE  Link(stockUndo'[i], stockUndo'[i + 1])
      BY <2>1 DEF UndoLinks, Link, Present, After
    <3>1. CASE i < Len(stockUndo)
      BY <1>1, <2>2, <3>1 DEF UndoLinks
    <3>2. CASE i = Len(stockUndo)
      BY <1>1, <2>2, <2>3, <3>2
    <3> QED
      BY <1>1, <2>2, <3>1, <3>2
  <2>5. RedoLinks'
    BY <1>1, <2>1 DEF RedoLinks, Link, Present, After
  <2>6. Last(stockUndo') = handler
    BY <2>2 DEF Last
  <2>7. stockRedo # <<>> => Link(handler, Last(stockRedo))
    BY <1>1, <2>1 DEF MiddleLink
  <2> QED
    BY <2>1, <2>4, <2>5, <2>6, <2>7 DEF MiddleLink, Busy, Link, Present, After
<1>8. CASE LoadStart
  <2>1. stockUndo' = <<>> /\ stockRedo' = <<>>
    BY <1>8 DEF LoadStart
  <2> QED
    BY <2>1 DEF UndoLinks, RedoLinks, MiddleLink
<1>9. CASE NewRoot
  <2>1. /\ \A i \in 1..Len(stockUndo') : ~Present(stockUndo[i])'
        /\ \A i \in 1..Len(stockRedo') : ~Present(stockRedo[i])'
        /\ Busy' => ~Present(handler)'
    BY <1>1, <1>9, NewRootForgets DEF Present, Busy
  <2>2. stockUndo' \in Seq(MadeHandlers) /\ stockRedo' \in Seq(MadeHandlers)
    BY <1>1, <1>9, NewRootForgets
  <2>3. UndoLinks' /\ RedoLinks'
    BY <2>1, <2>2 DEF UndoLinks, RedoLinks, Link
  <2>4. MiddleLink'
    BY <2>1, <2>2 DEF MiddleLink, Link, Last, Busy
  <2> QED
    BY <2>3, <2>4
<1>10. CASE Save \/ WriteTmp \/ RemoveOld \/ RenameTmp \/ Saved \/ Leaving \/ Parse
              \/ LoadDone \/ UNCHANGED vars
  <2>1. /\ UNCHANGED <<stockUndo, stockRedo, root, doc>>
        /\ (mpc' = mpc /\ handler' = handler) \/ (~Busy /\ ~Busy')
    BY <1>0, <1>10, OtherSteps
  <2> QED
    BY <1>1, <2>1 DEF UndoLinks, RedoLinks, MiddleLink, Link, Present, After, Busy
<1> QED
  BY <1>0, <1>2, <1>3, <1>4, <1>5, <1>6, <1>7, <1>8, <1>9, <1>10, <1>11
  DEF Next, Editing, Saving, Loading, HandlerFails

\* RootInv is kept by every step.
LEMMA RootStep == DInv /\ "undo" \notin Failures /\ [Next]_vars /\ ~mixed' => RootInv'
<1> SUFFICES ASSUME DInv, "undo" \notin Failures, [Next]_vars, ~mixed' PROVE RootInv'
  OBVIOUS
<1>0. /\ ~mixed /\ ~DialogAgain
      /\ Do \/ Undo \/ Redo \/ Save \/ CheckFileNeedsSave => mpc # "append"
  BY NotMixed DEF DInv
<1>1. /\ stockUndo \in Seq(MadeHandlers) /\ stockRedo \in Seq(MadeHandlers)
      /\ Len(stockUndo) \in Nat /\ Len(stockRedo) \in Nat
      /\ TypeOK /\ TreeInv /\ LineInv /\ RootInv
  BY <1>0 DEF DInv, TreeInv
<1>b. (mpc # "append" => Before = root) /\ (mpc' # "append" => Before' = root')
  BY DEF Before
<1> USE DEF RootInv
<1>2. CASE Do
  <2>1. /\ ~Busy /\ mpc' = "append" /\ handler'.before = root /\ doc' = doc
        /\ handler'.doc = doc /\ root' = root \cup {handler'.edit}
        /\ UNCHANGED <<stockUndo, stockRedo>>
    BY <1>0, <1>2 DEF Do, MainFree, Busy, undoVars
  <2>2. Before = root /\ Before' = root
    BY <2>1 DEF Before, Busy, Present
  <2>3. RedoRoot'
    BY <1>1, <2>1, <2>2 DEF RedoRoot, TopPresent, Present, Busy
  <2> QED
    BY <2>1, <2>3 DEF UndoRoot, HandlerRoot, Busy, After
<1>11. CASE CancelDialog
  <2>1. /\ mpc = "append" /\ mpc' = "idle" /\ UNCHANGED <<stockUndo, stockRedo, doc>>
        /\ root' = (IF handler.doc = doc THEN root \ {handler.edit} ELSE root)
    BY <1>0, <1>11 DEF CancelDialog, undoVars
  <2>2. handler \in MadeHandlers
    BY <1>1, <2>1 DEF TreeInv, Busy
  <2>3. Before' = root' /\ root' = Before
    BY <1>1, <2>1, <2>2 DEF Before, HandlerRoot, Present, After, MadeHandlers
  <2>4. RedoRoot'
    BY <1>1, <2>1, <2>3 DEF RedoRoot, TopPresent, Present
  <2>5. UndoRoot'
    BY <1>1, <2>1, <2>3 DEF UndoRoot, LineInv, MiddleLink, Link, Busy, Before, Present, After
  <2> QED
    BY <2>1, <2>4, <2>5 DEF HandlerRoot
<1>3. CASE AppendUndoHandler
  <2> DEFINE kept == IF Len(stockUndo) >= UndoLimit THEN Tail(stockUndo) ELSE stockUndo
  <2>1. /\ mpc = "append" /\ handler \in MadeHandlers /\ ~Busy' /\ root' = root /\ doc' = doc
        /\ mpc' = "idle" /\ stockUndo' = Append(kept, handler) /\ stockRedo' = <<>>
    BY <1>1, <1>3 DEF AppendUndoHandler, Busy, TreeInv, treeVars
  <2>2. kept \in Seq(MadeHandlers)
    BY <1>1, TailFacts, DocumentAssumption
  <2>3. Last(stockUndo') = handler
    BY <2>1, <2>2, AppendFacts DEF Last
  <2> QED
    BY <1>1, <2>1, <2>3 DEF UndoRoot, RedoRoot, HandlerRoot, Present, After
<1>4. CASE Undo
  <2>1. /\ ~Busy /\ mpc' = "undone" /\ Busy' /\ stockUndo # <<>>
        /\ UNCHANGED <<stockRedo, doc>> /\ handler' = Last(stockUndo)
        /\ root' = IF handler'.doc = doc THEN root \ {handler'.edit} ELSE root
    BY <1>0, <1>4 DEF Undo, Busy, MainFree
  <2>2. handler' \in MadeHandlers
    BY <1>1, <2>1, FrontFacts
  <2>3. Present(handler)' => root' = handler'.before
    BY <1>1, <2>1, <2>2 DEF UndoRoot, Present, After, MadeHandlers
  <2>4. RedoRoot'
    BY <1>b, <1>1, <2>1 DEF RedoRoot, TopPresent, Present, Busy
  <2> QED
    BY <2>1, <2>3, <2>4 DEF UndoRoot, HandlerRoot
<1>5. CASE Undone
  <2>1. /\ mpc = "undone" /\ mpc' = "idle" /\ Busy /\ ~Busy' /\ handler \in MadeHandlers
        /\ UNCHANGED <<stockUndo, doc, root>> /\ stockRedo' = Append(stockRedo, handler)
    BY <1>1, <1>5 DEF Undone, Busy, TreeInv, treeVars
  <2>2. /\ Len(stockRedo') = Len(stockRedo) + 1
        /\ \A i \in 1..Len(stockRedo) : stockRedo'[i] = stockRedo[i]
        /\ stockRedo'[Len(stockRedo) + 1] = handler
    BY <1>1, <2>1, AppendFacts
  <2>3. UndoRoot'
    BY <1>1, <2>1 DEF UndoRoot, HandlerRoot, LineInv, MiddleLink, Link, Present, After
  <2>4. RedoRoot'
    <3> SUFFICES ASSUME NEW i \in 1..Len(stockRedo'), TopPresent(i)'
                 PROVE  root = stockRedo'[i].before
      BY <1>b, <2>1 DEF RedoRoot
    <3>1. CASE i = Len(stockRedo) + 1
      BY <1>1, <2>1, <2>2, <3>1 DEF TopPresent, HandlerRoot, Present
    <3>2. CASE i # Len(stockRedo) + 1
      <4>1. i \in 1..Len(stockRedo) /\ ~Present(handler)
        BY <1>1, <2>1, <2>2, <3>2 DEF TopPresent, Present
      <4>2. TopPresent(i)
        BY <1>1, <2>1, <2>2, <4>1 DEF TopPresent, Present
      <4> QED
        BY <1>b, <1>1, <2>1, <2>2, <4>1, <4>2 DEF RedoRoot
    <3> QED
      BY <3>1, <3>2
  <2> QED
    BY <2>1, <2>3, <2>4 DEF HandlerRoot
<1>6. CASE Redo
  <2>1. /\ ~Busy /\ mpc' = "redone" /\ Busy' /\ stockRedo # <<>>
        /\ UNCHANGED <<stockUndo, doc>> /\ handler' = Last(stockRedo)
        /\ stockRedo' = Front(stockRedo)
        /\ root' = IF handler'.doc = doc THEN root \cup {handler'.edit} ELSE root
    BY <1>0, <1>6 DEF Redo, Busy, MainFree
  <2>2. /\ Len(stockRedo') = Len(stockRedo) - 1 /\ Len(stockRedo) > 0
        /\ \A i \in 1..Len(stockRedo') : stockRedo'[i] = stockRedo[i]
    BY <1>1, <2>1, FrontFacts
  <2>3. Present(handler)' => root' = After(handler)'
    <3> SUFFICES ASSUME handler'.doc = doc PROVE root' = handler'.before \cup {handler'.edit}
      BY <2>1 DEF Present, After
    <3>1. Len(stockRedo) \in 1..Len(stockRedo) /\ TopPresent(Len(stockRedo))
      BY <1>1, <2>1, <2>2 DEF TopPresent, Present, Last
    <3>2. root = stockRedo[Len(stockRedo)].before
      BY <1>b, <1>1, <2>1, <3>1 DEF RedoRoot, Busy
    <3> QED
      BY <2>1, <3>2 DEF Last
  <2>4. RedoRoot'
    <3> SUFFICES ASSUME handler'.doc # doc, NEW i \in 1..Len(stockRedo'), TopPresent(i)'
                 PROVE  root' = stockRedo'[i].before
      BY <1>b, <2>1 DEF RedoRoot, Present
    <3>1. /\ i \in 1..Len(stockRedo)
          /\ \A k \in 1..Len(stockRedo) : k \in 1..Len(stockRedo') \/ k = Len(stockRedo)
      <4>1. \A n \in Nat : n > 0 => /\ 1..(n - 1) \subseteq 1..n
                                     /\ \A k \in 1..n : k \in 1..(n - 1) \/ k = n
        OBVIOUS
      <4>2. 1..Len(stockRedo') = 1..(Len(stockRedo) - 1)
        BY <2>2
      <4> QED
        BY <1>1, <2>2, <4>1, <4>2
    <3>2. TopPresent(i)
      BY <1>1, <2>1, <2>2, <3>1 DEF TopPresent, Present, Last
    <3> QED
      BY <1>b, <1>1, <2>1, <2>2, <3>1, <3>2 DEF RedoRoot, Busy
  <2> QED
    BY <2>1, <2>3, <2>4 DEF UndoRoot, HandlerRoot
<1>7. CASE Redone
  <2>1. /\ mpc = "redone" /\ mpc' = "idle" /\ Busy /\ ~Busy' /\ handler \in MadeHandlers
        /\ UNCHANGED <<stockRedo, doc, root>> /\ stockUndo' = Append(stockUndo, handler)
    BY <1>1, <1>7 DEF Redone, Busy, TreeInv, treeVars
  <2>2. Last(stockUndo') = handler
    BY <1>1, <2>1, AppendFacts DEF Last
  <2>3. UndoRoot'
    BY <1>1, <2>1, <2>2 DEF UndoRoot, HandlerRoot, Present, After
  <2>4. RedoRoot'
    <3> SUFFICES ASSUME NEW i \in 1..Len(stockRedo), TopPresent(i)
                 PROVE  root = stockRedo[i].before
      BY <1>b, <2>1 DEF RedoRoot, TopPresent, Present
    <3>1. CASE Present(handler)
      <4>1. stockRedo # <<>> /\ Len(stockRedo) \in 1..Len(stockRedo)
        BY <1>1
      <4>2. /\ Present(stockRedo[Len(stockRedo)])
            /\ stockRedo[Len(stockRedo)].before = After(handler)
        BY <1>1, <2>1, <3>1, <4>1 DEF LineInv, MiddleLink, Link, Last
      <4>3. i = Len(stockRedo)
        BY <1>1, <4>1, <4>2 DEF TopPresent
      <4> QED
        BY <1>1, <2>1, <3>1, <4>2, <4>3 DEF HandlerRoot
    <3>2. CASE ~Present(handler)
      BY <1>b, <1>1, <2>1, <3>2 DEF RedoRoot
    <3> QED
      BY <3>1, <3>2
  <2> QED
    BY <2>1, <2>3, <2>4 DEF HandlerRoot
<1>8. CASE LoadStart
  <2>1. stockUndo' = <<>> /\ stockRedo' = <<>> /\ UNCHANGED <<root, doc, mpc, handler>>
    BY <1>8 DEF LoadStart, treeVars, mainVars
  <2> QED
    BY <1>1, <2>1 DEF UndoRoot, RedoRoot, HandlerRoot, Present, After
<1>9. CASE NewRoot
  <2>1. /\ \A i \in 1..Len(stockUndo') : ~Present(stockUndo[i])'
        /\ \A i \in 1..Len(stockRedo') : ~Present(stockRedo[i])'
        /\ Busy' => ~Present(handler)'
        /\ stockUndo' \in Seq(MadeHandlers)
    BY <1>1, <1>9, NewRootForgets DEF Present, Busy
  <2> QED
    BY <2>1 DEF UndoRoot, RedoRoot, HandlerRoot, TopPresent, Last, Busy
<1>10. CASE Save \/ WriteTmp \/ RemoveOld \/ RenameTmp \/ Saved \/ Leaving \/ Parse
              \/ LoadDone \/ UNCHANGED vars
  <2>1. /\ UNCHANGED <<stockUndo, stockRedo, root, doc>>
        /\ (mpc' = mpc /\ handler' = handler) \/ (~Busy /\ ~Busy')
    BY <1>0, <1>10, OtherSteps
  <2> QED
    BY <1>1, <2>1 DEF UndoRoot, RedoRoot, HandlerRoot, TopPresent, Present, After, Busy, Before
<1> QED
  BY <1>0, <1>2, <1>3, <1>4, <1>5, <1>6, <1>7, <1>8, <1>9, <1>10, <1>11
  DEF Next, Editing, Saving, Loading, HandlerFails

-----------------------------------------------------------------------------
(***************************************************************************)
(* The theorems.                                                           *)
(***************************************************************************)

\* Types, the bound on sessions, TreeInv and DialogsInv do not need handlers to
\* succeed, and hold beside dialogs.
THEOREM DocumentTypes == Spec => [](TypeOK /\ LoadInv /\ TreeInv /\ DialogsInv)
<1>1. Init => TypeOK /\ LoadInv /\ TreeInv /\ DialogsInv
  BY InitDInv DEF DInv
<1>2. TypeOK /\ LoadInv /\ TreeInv /\ DialogsInv /\ [Next]_vars
        => (TypeOK /\ LoadInv /\ TreeInv /\ DialogsInv)'
  BY TypeStep, LoadStep, TreeStep, NotMixed
<1> QED
  BY <1>1, <1>2, PTL DEF Spec

\* Type correctness of the document, for any files, edits and sessions.
THEOREM DocumentTypeCorrect == Spec => []TypeOK
  BY DocumentTypes, PTL

\* As long as no undo handler raises, the undo and redo stacks are one line of
\* edits around the present tree.
THEOREM LineInvariance == "undo" \notin Failures /\ Spec => []DInv
<1> SUFFICES ASSUME "undo" \notin Failures PROVE Spec => []DInv
  OBVIOUS
<1>1. DInv /\ [Next]_vars => DInv'
  BY TypeStep, LoadStep, TreeStep, NotMixed, LineStep, RootStep DEF DInv
<1> QED
  BY <1>1, InitDInv, PTL DEF Spec

\* Undo and Redo apply a handler's index path only to the tree it was recorded
\* in, whatever saves and session starts fall between the edits and whatever
\* dialogs are confirmed or cancelled, as long as no handler raises and no
\* command ran beside a dialog.
THEOREM PathsStayValidHolds == "undo" \notin Failures /\ Spec => []PathsStayValid
<1>1. DInv => PathsStayValid
  <2> SUFFICES ASSUME DInv, ~Busy, ~mixed
               PROVE  /\ stockUndo # <<>> /\ Last(stockUndo).doc = doc =>
                            root = Last(stockUndo).before \cup {Last(stockUndo).edit}
                      /\ stockRedo # <<>> /\ Last(stockRedo).doc = doc =>
                            root = Last(stockRedo).before
    BY DEF PathsStayValid, Busy
  <2>1. /\ UndoRoot /\ RedoRoot /\ stockRedo \in Seq(MadeHandlers)
    BY DEF DInv, RootInv, TreeInv
  <2>2. ASSUME stockRedo # <<>>, Last(stockRedo).doc = doc PROVE root = Last(stockRedo).before
    <3>1. Len(stockRedo) \in 1..Len(stockRedo) /\ TopPresent(Len(stockRedo))
      BY <2>1, <2>2 DEF TopPresent, Present, Last
    <3> QED
      BY <2>1, <3>1 DEF RedoRoot, Before, Last, Busy
  <2> QED
    BY <2>1, <2>2 DEF UndoRoot, Present, After
<1> QED
  BY <1>1, LineInvariance, PTL

-----------------------------------------------------------------------------
\* The undo stack and the redo stack, with the handler in work put where the
\* second half of Undo and Redo puts it, the tree without an edit that has no
\* handler yet, and how far that tree is from the one that was saved.
DoneStack == IF mpc = "redone" THEN Append(stockUndo, handler) ELSE stockUndo
UndoneStack == IF mpc = "undone" THEN Append(stockRedo, handler) ELSE stockRedo
Bare == IF mpc = "append" THEN root \ {handler.edit} ELSE root
Distance == undoId - undoIdOnSave
            + (IF mpc = "redone" THEN 1 ELSE IF mpc = "undone" THEN -1 ELSE 0)

\* The edits of the newest k handlers of a stack.
Newest(q, k) == {q[i].edit : i \in {j \in 1..Len(q) : j > Len(q) - k}}

\* The tree t is what a document with the path p holds on the disk.
HeldBy(p, files, trees, t) == IF p = NoFile THEN t = {} ELSE p \in files /\ trees[p] = t

\* With d edits done, or -d undone, since then, t was the tree p holds.
Apart(p, files, trees, t, done, undone, d) ==
  /\ d >= 0 /\ d <= Len(done) => HeldBy(p, files, trees, t \ Newest(done, d))
  /\ d <= 0 => /\ 0 - d <= Len(undone)
               /\ HeldBy(p, files, trees, t \cup Newest(undone, 0 - d))

\* While a session starts, no command is under way and the stacks are empty.
StartingInv ==
  /\ lpc # "idle" => mpc = "idle"
  /\ lpc \in {"parse", "root", "done"} =>
       stockUndo = <<>> /\ stockRedo = <<>> /\ undoId = undoIdOnSave /\ filePath = next
  /\ lpc \in {"queued", "parse"} /\ next # NoFile => next \in exists
  /\ lpc \in {"root", "done"} =>
       IF next = NoFile THEN parsed = {} ELSE next \in exists /\ disk[next] = parsed
  /\ lpc = "done" => root = parsed

\* What a save has done so far.
SavingInv ==
  /\ mpc \in {"tmp", "remove", "rename", "saved"} /\ ~saveAs => target = filePath
  /\ mpc \in {"remove", "rename"} => tmp = root
  /\ mpc = "rename" => target \notin exists
  /\ mpc = "saved" => target \in exists /\ disk[target] = root /\ undoId = undoIdOnSave

DirtyInv == ~isDirty => undoId = undoIdOnSave

\* The edits of a stack, each of them there once, of handlers of the tree d.
EditsOf(q) == {q[i].edit : i \in 1..Len(q)}
Distinct(q, d) ==
  \A i \in 1..Len(q) : /\ q[i].doc = d
                       /\ \A j \in 1..Len(q) : q[i].edit = q[j].edit => i = j

\* The handlers are of the present tree; what was done is in it and what was
\* undone is not, each edit once.
StacksInv ==
  /\ Distinct(DoneStack, doc) /\ EditsOf(DoneStack) \subseteq Bare
  /\ Distinct(UndoneStack, doc) /\ EditsOf(UndoneStack) \cap root = {}
  /\ mpc = "append" => handler.doc = doc /\ handler.edit \in root

\* As many undos, or redos, as the counters are apart lead to the saved tree.
SavedInv ==
  lpc \in {"idle", "queued"} /\ mpc \notin {"remove", "rename", "saved"} /\ ~cut =>
    Apart(filePath, exists, disk, Bare, DoneStack, UndoneStack, Distance)

SInv == StartingInv /\ SavingInv /\ DirtyInv /\ StacksInv /\ SavedInv

-----------------------------------------------------------------------------
(***************************************************************************)
(* Facts about the newest handlers of a stack.                             *)
(***************************************************************************)

\* A stack that is not empty is its last element on top of the others.
LEMMA FrontLast ==
  ASSUME NEW S, NEW q \in Seq(S), q # <<>>
  PROVE  /\ Front(q) \in Seq(S) /\ Last(q) \in S
         /\ q = Append(Front(q), Last(q))
<1>1. /\ Front(q) \in Seq(S) /\ Len(Front(q)) = Len(q) - 1 /\ Last(q) \in S
      /\ \A i \in 1..(Len(q) - 1) : Front(q)[i] = q[i]
      /\ Len(q) \in Nat /\ Len(q) > 0
  BY FrontFacts
<1>2. /\ Append(Front(q), Last(q)) \in Seq(S)
      /\ Len(Append(Front(q), Last(q))) = Len(q)
      /\ \A i \in 1..(Len(q) - 1) : Append(Front(q), Last(q))[i] = q[i]
      /\ Append(Front(q), Last(q))[Len(q)] = Last(q)
  BY <1>1, AppendFacts
<1>3. \A i \in 1..Len(q) : Append(Front(q), Last(q))[i] = q[i]
  BY <1>1, <1>2 DEF Last
<1> QED
  BY <1>1, <1>2, <1>3, SeqEqual

\* One more handler, one more edit among the newest.
LEMMA NewestAppend ==
  ASSUME NEW q \in Seq(Handlers), NEW h \in Handlers, NEW k \in Nat
  PROVE  Newest(Append(q, h), k + 1) = {h.edit} \cup Newest(q, k)
<1> DEFINE p == Append(q, h)
<1>1. /\ Len(q) \in Nat /\ Len(p) = Len(q) + 1
      /\ \A i \in 1..Len(q) : p[i] = q[i]
      /\ p[Len(q) + 1] = h
  BY AppendFacts
<1> HIDE DEF p
<1>2. {i \in 1..Len(p) : i > Len(p) - (k + 1)}
        = {Len(q) + 1} \cup {i \in 1..Len(q) : i > Len(q) - k}
  BY <1>1
<1>3. Newest(p, k + 1) = {p[i].edit : i \in {Len(q) + 1} \cup {j \in 1..Len(q) : j > Len(q) - k}}
  BY <1>2 DEF Newest
<1>4. Newest(p, k + 1) = {p[Len(q) + 1].edit} \cup {p[i].edit : i \in {j \in 1..Len(q) : j > Len(q) - k}}
  BY <1>3
<1>5. {p[i].edit : i \in {j \in 1..Len(q) : j > Len(q) - k}} = Newest(q, k)
  BY <1>1 DEF Newest
<1> QED
  BY <1>1, <1>4, <1>5 DEF p

\* The oldest handler is not among the newest ones.
LEMMA NewestTail ==
  ASSUME NEW q \in Seq(Handlers), q # <<>>, NEW k \in Nat, k <= Len(q) - 1
  PROVE  Newest(Tail(q), k) = Newest(q, k)
<1> DEFINE t == Tail(q)
<1>1. /\ Len(q) \in Nat /\ Len(t) = Len(q) - 1
      /\ \A i \in 1..(Len(q) - 1) : t[i] = q[i + 1]
  BY TailFacts
<1> HIDE DEF t
<1>2. ASSUME NEW i \in 1..Len(t), i > Len(t) - k
      PROVE  i + 1 \in 1..Len(q) /\ i + 1 > Len(q) - k /\ t[i] = q[i + 1]
  BY <1>1, <1>2
<1>3. ASSUME NEW i \in 1..Len(q), i > Len(q) - k
      PROVE  i - 1 \in 1..Len(t) /\ i - 1 > Len(t) - k /\ t[i - 1] = q[i]
  BY <1>1, <1>3
<1>4. Newest(t, k) \subseteq Newest(q, k)
  BY <1>2 DEF Newest
<1>5. Newest(q, k) \subseteq Newest(t, k)
  BY <1>3 DEF Newest
<1> QED
  BY <1>4, <1>5 DEF t

\* No handler, no edit.
LEMMA NewestNone ==
  ASSUME NEW q \in Seq(Handlers)
  PROVE  Newest(q, 0) = {}
  BY DEF Newest

\* A stack stays distinct under a handler whose edit is not in it.
LEMMA DistinctAppend ==
  ASSUME NEW q \in Seq(Handlers), NEW h \in Handlers, NEW d
  PROVE  /\ EditsOf(Append(q, h)) = EditsOf(q) \cup {h.edit}
         /\ Distinct(Append(q, h), d) <=>
              Distinct(q, d) /\ h.doc = d /\ h.edit \notin EditsOf(q)
<1> DEFINE p == Append(q, h)
           n == Len(q)
<1>1. /\ n \in Nat /\ Len(p) = n + 1
      /\ \A i \in 1..n : p[i] = q[i]
      /\ p[n + 1] = h
  BY AppendFacts
<1> HIDE DEF p, n
<1>2. 1..Len(p) = (1..n) \cup {n + 1} /\ n + 1 \notin 1..n
  BY <1>1
<1>3. EditsOf(p) = {p[i].edit : i \in 1..n} \cup {p[n + 1].edit}
  BY <1>2 DEF EditsOf
<1>4. {p[i].edit : i \in 1..n} = EditsOf(q)
  BY <1>1 DEF EditsOf, n
<1>5. EditsOf(p) = EditsOf(q) \cup {h.edit}
  BY <1>1, <1>3, <1>4
<1>6. Distinct(q, d) <=> \A i \in 1..n : /\ p[i].doc = d
                                         /\ \A j \in 1..n : p[i].edit = p[j].edit => i = j
  BY <1>1 DEF Distinct, n
<1>7. h.edit \notin EditsOf(q) <=> \A i \in 1..n : p[i].edit # p[n + 1].edit
  BY <1>1, <1>4
<1>8. Distinct(p, d) <=> Distinct(q, d) /\ h.doc = d /\ h.edit \notin EditsOf(q)
  <2>1. Distinct(p, d) => Distinct(q, d) /\ h.doc = d /\ h.edit \notin EditsOf(q)
    BY <1>1, <1>2, <1>6, <1>7 DEF Distinct
  <2>2. ASSUME Distinct(q, d), h.doc = d, h.edit \notin EditsOf(q),
               NEW i \in 1..Len(p)
        PROVE  p[i].doc = d /\ \A j \in 1..Len(p) : p[i].edit = p[j].edit => i = j
    BY <1>1, <1>2, <1>6, <1>7, <2>2
  <2> QED
    BY <2>1, <2>2 DEF Distinct
<1> QED
  BY <1>5, <1>8 DEF p

\* It stays distinct without its oldest handler.
LEMMA DistinctTail ==
  ASSUME NEW q \in Seq(Handlers), q # <<>>, NEW d
  PROVE  /\ EditsOf(Tail(q)) \subseteq EditsOf(q)
         /\ Distinct(q, d) => Distinct(Tail(q), d)
<1> DEFINE t == Tail(q)
<1>1. /\ Len(q) \in Nat /\ Len(t) = Len(q) - 1
      /\ \A i \in 1..(Len(q) - 1) : t[i] = q[i + 1]
  BY TailFacts
<1> HIDE DEF t
<1>2. \A i \in 1..Len(t) : i + 1 \in 1..Len(q) /\ t[i] = q[i + 1]
  BY <1>1
<1>3. EditsOf(t) \subseteq EditsOf(q)
  BY <1>2 DEF EditsOf
<1>4. ASSUME Distinct(q, d), NEW i \in 1..Len(t)
      PROVE  t[i].doc = d /\ \A j \in 1..Len(t) : t[i].edit = t[j].edit => i = j
  <2>1. i + 1 \in 1..Len(q) /\ t[i] = q[i + 1]
    BY <1>2
  <2>2. ASSUME NEW j \in 1..Len(t), t[i].edit = t[j].edit PROVE i = j
    <3>1. j + 1 \in 1..Len(q) /\ t[j] = q[j + 1]
      BY <1>2
    <3>2. i + 1 = j + 1
      BY <1>4, <2>1, <2>2, <3>1 DEF Distinct
    <3> QED
      BY <3>2
  <2> QED
    BY <1>4, <2>1, <2>2 DEF Distinct
<1> QED
  BY <1>3, <1>4 DEF t, Distinct

\* Doing one more edit, whose handler comes off the undone ones if there were
\* any of them between the trees.
LEMMA OneForward ==
  ASSUME NEW p, NEW files, NEW trees, NEW t, NEW d \in Int, NEW h \in Handlers,
         NEW done \in Seq(Handlers), NEW undone \in Seq(Handlers), h.edit \notin t
  PROVE  /\ d >= 0 /\ Apart(p, files, trees, t, done, undone, d) =>
              Apart(p, files, trees, t \cup {h.edit}, Append(done, h), undone, d + 1)
         /\ Apart(p, files, trees, t, done, Append(undone, h), d) =>
              Apart(p, files, trees, t \cup {h.edit}, Append(done, h), undone, d + 1)
<1> DEFINE u == t \cup {h.edit}
           n == Append(done, h)
           r == Append(undone, h)
<1>1. /\ Len(n) = Len(done) + 1 /\ Len(done) \in Nat /\ n \in Seq(Handlers)
      /\ Len(r) = Len(undone) + 1 /\ Len(undone) \in Nat
  BY AppendFacts
<1>2. Newest(n, 0) = {} /\ Newest(undone, 0) = {}
  BY <1>1, NewestNone
<1>3. ASSUME d >= 0 PROVE u \ Newest(n, d + 1) = t \ Newest(done, d)
  <2>1. Newest(n, d + 1) = {h.edit} \cup Newest(done, d)
    BY <1>3, NewestAppend
  <2> QED
    BY <2>1
<1>4. ASSUME d <= -1 PROVE u \cup Newest(undone, -(d + 1)) = t \cup Newest(r, -d)
  <2>1. -(d + 1) \in Nat /\ -d = -(d + 1) + 1
    BY <1>4
  <2>2. Newest(r, -d) = {h.edit} \cup Newest(undone, -(d + 1))
    BY <2>1, NewestAppend
  <2> QED
    BY <2>2
<1> HIDE DEF u, n, r
<1>5. ASSUME d >= 0, d <= Len(done) => HeldBy(p, files, trees, t \ Newest(done, d))
      PROVE  Apart(p, files, trees, u, n, undone, d + 1)
  BY <1>1, <1>3, <1>5 DEF Apart, HeldBy
<1>6. ASSUME d <= -1, -d <= Len(r), HeldBy(p, files, trees, t \cup Newest(r, -d))
      PROVE  Apart(p, files, trees, u, n, undone, d + 1)
  <2>1. -(d + 1) <= Len(undone) /\ HeldBy(p, files, trees, u \cup Newest(undone, -(d + 1)))
    BY <1>1, <1>4, <1>6 DEF HeldBy
  <2>2. d + 1 >= 0 => HeldBy(p, files, trees, u \ Newest(n, d + 1))
    <3>1. d + 1 >= 0 => d + 1 = 0 /\ -(d + 1) = 0
      BY <1>6
    <3> QED
      BY <1>2, <2>1, <3>1
  <2> QED
    BY <2>1, <2>2 DEF Apart
<1> QED
  BY <1>5, <1>6 DEF Apart, u, n, r

\* Undoing the newest edit.
LEMMA OneBack ==
  ASSUME NEW p, NEW files, NEW trees, NEW t, NEW d \in Int, NEW h \in Handlers,
         NEW done \in Seq(Handlers), NEW undone \in Seq(Handlers), h.edit \in t,
         Apart(p, files, trees, t, Append(done, h), undone, d)
  PROVE  Apart(p, files, trees, t \ {h.edit}, done, Append(undone, h), d - 1)
<1> DEFINE u == t \ {h.edit}
           n == Append(done, h)
           r == Append(undone, h)
<1>1. /\ Len(n) = Len(done) + 1 /\ Len(done) \in Nat
      /\ Len(r) = Len(undone) + 1 /\ Len(undone) \in Nat /\ r \in Seq(Handlers)
  BY AppendFacts
<1>2. Newest(r, 0) = {} /\ Newest(done, 0) = {}
  BY <1>1, NewestNone
<1>3. ASSUME d >= 1 PROVE u \ Newest(done, d - 1) = t \ Newest(n, d)
  <2>1. d - 1 \in Nat /\ d = (d - 1) + 1
    BY <1>3
  <2>2. Newest(n, d) = {h.edit} \cup Newest(done, d - 1)
    BY <2>1, NewestAppend
  <2> QED
    BY <2>2
<1>4. ASSUME d <= 0 PROVE u \cup Newest(r, -(d - 1)) = t \cup Newest(undone, -d)
  <2>1. -d \in Nat /\ -(d - 1) = -d + 1
    BY <1>4
  <2>2. Newest(r, -(d - 1)) = {h.edit} \cup Newest(undone, -d)
    BY <2>1, NewestAppend
  <2> QED
    BY <2>2
<1> HIDE DEF u, n, r
<1>5. ASSUME d <= 0, -d <= Len(undone), HeldBy(p, files, trees, t \cup Newest(undone, -d))
      PROVE  Apart(p, files, trees, u, done, r, d - 1)
  BY <1>1, <1>4, <1>5 DEF Apart, HeldBy
<1>6. ASSUME d >= 1, d <= Len(n) => HeldBy(p, files, trees, t \ Newest(n, d))
      PROVE  Apart(p, files, trees, u, done, r, d - 1)
  <2>1. d - 1 <= Len(done) => HeldBy(p, files, trees, u \ Newest(done, d - 1))
    BY <1>1, <1>3, <1>6 DEF HeldBy
  <2>2. d - 1 <= 0 => -(d - 1) <= Len(r) /\ HeldBy(p, files, trees, u \cup Newest(r, -(d - 1)))
    <3>1. d - 1 <= 0 => d - 1 = 0 /\ -(d - 1) = 0
      BY <1>6
    <3> QED
      BY <1>1, <1>2, <2>1, <3>1
  <2> QED
    BY <2>1, <2>2 DEF Apart
<1> QED
  BY <1>5, <1>6 DEF Apart, u, n, r

\* Nothing between the trees.
LEMMA NotApart ==
  ASSUME NEW p, NEW files, NEW trees, NEW t,
         NEW done \in Seq(Handlers), NEW undone \in Seq(Handlers)
  PROVE  HeldBy(p, files, trees, t) <=> Apart(p, files, trees, t, done, undone, 0)
<1>1. Newest(done, 0) = {} /\ Newest(undone, 0) = {}
  BY NewestNone
<1>2. Len(done) \in Nat /\ Len(undone) \in Nat
  OBVIOUS
<1>3. 0 - 0 = 0 /\ 0 >= 0 /\ 0 <= 0 /\ 0 <= Len(done) /\ 0 <= Len(undone)
  BY <1>2, SMT
<1>4. t \ {} = t /\ t \cup {} = t
  OBVIOUS
<1> DEFINE H(s) == HeldBy(p, files, trees, s)
<1>5. Apart(p, files, trees, t, done, undone, 0) <=> H(t \ {}) /\ H(t \cup {})
  BY <1>1, <1>3 DEF Apart
<1> QED
  BY <1>4, <1>5

\* The oldest edit is too far back to lead to the saved tree, and what was
\* undone does not matter when the saved tree lies before.
LEMMA ForgetOldest ==
  ASSUME NEW p, NEW files, NEW trees, NEW t, NEW d \in Int,
         NEW done \in Seq(Handlers), done # <<>>, NEW undone \in Seq(Handlers),
         Apart(p, files, trees, t, done, undone, d)
  PROVE  Apart(p, files, trees, t, Tail(done), undone, d)
<1>1. Len(Tail(done)) = Len(done) - 1 /\ Len(done) \in Nat
  BY TailFacts
<1>2. d >= 0 /\ d <= Len(Tail(done)) => Newest(Tail(done), d) = Newest(done, d)
  BY <1>1, NewestTail
<1> QED
  BY <1>1, <1>2 DEF Apart, HeldBy

-----------------------------------------------------------------------------
(***************************************************************************)
(* The saved tree, when commands do not overlap the start of a session and *)
(* neither writing nor reading a file fails.                               *)
(***************************************************************************)
Orderly == ~Overlap /\ Failures \cap {"write", "parse"} = {}

\* The initial state: the empty tree, which no file holds.
LEMMA InitSInv == Init => SInv
<1> SUFFICES ASSUME Init PROVE SInv
  OBVIOUS
<1>1. /\ DoneStack = <<>> /\ UndoneStack = <<>> /\ Distance = 0 /\ root = {}
      /\ filePath = NoFile /\ lpc = "idle" /\ mpc = "idle" /\ Bare = root
  BY DEF Init, DoneStack, UndoneStack, Distance, Bare
<1>2. StartingInv /\ SavingInv /\ DirtyInv
  BY DEF Init, StartingInv, SavingInv, DirtyInv
<1>3. StacksInv
  BY <1>1 DEF StacksInv, Distinct, EditsOf
<1>4. HeldBy(filePath, exists, disk, root)
  BY <1>1 DEF HeldBy
<1>5. SavedInv
  <2>1. <<>> \in Seq(Handlers)
    OBVIOUS
  <2> QED
    BY <1>1, <1>4, <2>1, NotApart DEF SavedInv
<1> QED
  BY <1>2, <1>3, <1>5 DEF SInv

\* Both stacks hold handlers.
LEMMA StackTypes ==
  ASSUME TypeOK
  PROVE  /\ DoneStack \in Seq(Handlers) /\ UndoneStack \in Seq(Handlers)
         /\ Distance \in Int
         /\ Len(DoneStack) \in Nat /\ Len(UndoneStack) \in Nat
<1>1. DoneStack \in Seq(Handlers)
  BY AppendFacts DEF TypeOK, DoneStack
<1>2. UndoneStack \in Seq(Handlers)
  BY AppendFacts DEF TypeOK, UndoneStack
<1>3. Distance \in Int
  BY DEF TypeOK, Distance
<1> QED
  BY <1>1, <1>2, <1>3

\* A step with which nothing is mixed up: commands start with no dialog open,
\* and no dialog is come back to.
Plainly ==
  /\ [Next]_vars /\ ~mixed' /\ ~DialogAgain
  /\ Do \/ Undo \/ Redo \/ HandlerFails \/ Save \/ CheckFileNeedsSave => mpc # "append"

\* Do puts its edit on the tree; the stacks do not know of it yet.
LEMMA DoStacks ==
  ASSUME TypeOK, TypeOK', TreeInv, StartingInv, Orderly, Plainly, Do
  PROVE  /\ handler' \in Handlers /\ handler'.doc = doc' /\ doc' = doc
         /\ handler'.edit = edits + 1 /\ handler'.edit \notin root
         /\ root' = root \cup {handler'.edit}
         /\ DoneStack' = DoneStack /\ UndoneStack' = UndoneStack
         /\ DoneStack = stockUndo /\ UndoneStack = stockRedo
         /\ Distance' = Distance /\ cut' = cut /\ Bare' = Bare /\ Bare = root
         /\ lpc = "idle" /\ mpc = "idle" /\ mpc' = "append"
<1> USE DEF Do, MainFree, Orderly, Plainly
<1>1. handler' \in Handlers
  BY DEF TypeOK
<1>2. edits' \notin root /\ edits' = edits + 1 /\ handler'.edit = edits'
  <2>1. edits \in Nat /\ edits' = edits + 1 /\ edits' \in 1..MaxEdits
    BY DocumentAssumption DEF TypeOK
  <2>2. root \subseteq Files \cup (1..edits)
    BY DEF TreeInv, MadeTrees
  <2>3. handler'.edit = edits'
    OBVIOUS
  <2> HIDE DEF Do
  <2> QED
    BY <2>1, <2>2, <2>3, DocumentAssumption
<1>3. handler'.doc = doc' /\ lpc = "idle" /\ mpc = "idle" /\ mpc' = "append" /\ doc' = doc
  OBVIOUS
<1>4. /\ DoneStack' = DoneStack /\ UndoneStack' = UndoneStack
      /\ DoneStack = stockUndo /\ UndoneStack = stockRedo
  BY <1>3 DEF DoneStack, UndoneStack, undoVars
<1>5. Distance' = Distance /\ cut' = cut
  BY <1>3 DEF Distance, undoVars, TypeOK
<1>6. Bare' = Bare /\ Bare = root
  BY <1>2, <1>3 DEF Bare
<1> QED
  BY <1>1, <1>2, <1>3, <1>4, <1>5, <1>6

\* Cancel leaves the tree the stacks know of.
LEMMA CancelStacks ==
  ASSUME TypeOK, StacksInv, Plainly, CancelDialog
  PROVE  /\ DoneStack' = DoneStack /\ UndoneStack' = UndoneStack
         /\ Distance' = Distance /\ cut' = cut
         /\ Bare' = Bare /\ root' = Bare /\ doc' = doc
         /\ mpc = "append" /\ mpc' = "idle"
<1> USE DEF CancelDialog, Plainly
<1>1. mpc = "append" /\ mpc' = "idle" /\ doc' = doc
  OBVIOUS
<1>2. DoneStack' = DoneStack /\ UndoneStack' = UndoneStack
  BY <1>1 DEF DoneStack, UndoneStack, undoVars
<1>3. Distance' = Distance /\ cut' = cut
  BY <1>1 DEF Distance, undoVars
<1>4. root' = root \ {handler.edit}
  BY <1>1 DEF StacksInv
<1> QED
  BY <1>1, <1>2, <1>3, <1>4 DEF Bare

\* AppendUndoHandler puts the handler on what is done, from which a full undo
\* stack loses its oldest one, and forgets what was undone.
LEMMA AppendStacks ==
  ASSUME TypeOK, StacksInv, AppendUndoHandler
  PROVE  LET all == Append(DoneStack, handler)
         IN /\ DoneStack' = all \/ (all # <<>> /\ DoneStack' = Tail(all))
            /\ UndoneStack' = <<>>
            /\ Distance' = Distance + 1
            /\ handler \in Handlers /\ handler.doc = doc /\ doc' = doc /\ root' = root
            /\ handler.edit \notin Bare /\ Bare' = Bare \cup {handler.edit} /\ Bare' = root
            /\ ~cut' => ~cut /\ Distance >= 0
            /\ mpc = "append"
<1> USE DEF AppendUndoHandler
<1>1. /\ mpc = "append" /\ mpc' = "idle" /\ doc' = doc /\ root' = root
      /\ handler \in Handlers /\ stockUndo \in Seq(Handlers)
  BY DEF TypeOK, treeVars
<1>2. DoneStack = stockUndo /\ DoneStack' = stockUndo' /\ UndoneStack' = <<>>
  BY <1>1 DEF DoneStack, UndoneStack
<1>3. \/ DoneStack' = Append(DoneStack, handler)
      \/ /\ Append(DoneStack, handler) # <<>>
         /\ DoneStack' = Tail(Append(DoneStack, handler))
  <2>1. CASE Len(stockUndo) >= UndoLimit
    <3>1. stockUndo' = Append(Tail(stockUndo), handler) /\ stockUndo # <<>>
      BY <1>1, <2>1, DocumentAssumption
    <3>2. Tail(Append(stockUndo, handler)) = Append(Tail(stockUndo), handler)
      BY <1>1, <3>1
    <3> QED
      BY <1>1, <1>2, <3>1, <3>2
  <2>2. CASE ~(Len(stockUndo) >= UndoLimit)
    BY <1>2, <2>2
  <2> QED
    BY <2>1, <2>2
<1>4. Distance' = Distance + 1 /\ (~cut' => ~cut /\ Distance >= 0)
  <2>2. ~cut' => ~cut /\ ~(undoId < undoIdOnSave)
    OBVIOUS
  <2>3. /\ undoId \in Int /\ undoIdOnSave \in Int
        /\ undoId' = undoId + 1 /\ undoIdOnSave' = undoIdOnSave
    BY DEF TypeOK
  <2> HIDE DEF AppendUndoHandler
  <2>1. Distance = undoId - undoIdOnSave /\ Distance' = undoId + 1 - undoIdOnSave
    BY <1>1, <2>3 DEF Distance
  <2>4. ~(undoId < undoIdOnSave) => undoId - undoIdOnSave >= 0
    BY <2>3
  <2>5. Distance' = Distance + 1
    BY <2>1, <2>3
  <2> QED
    BY <2>1, <2>2, <2>4, <2>5
<1>5. handler.doc = doc /\ handler.edit \in root
  BY <1>1 DEF StacksInv
<1>6. handler.edit \notin Bare /\ Bare' = Bare \cup {handler.edit} /\ Bare' = root
  BY <1>1, <1>5 DEF Bare
<1> QED
  BY <1>1, <1>2, <1>3, <1>4, <1>5, <1>6

\* Undo moves the newest handler from what is done to what is undone.
LEMMA UndoStacks ==
  ASSUME TypeOK, TypeOK', StartingInv, StacksInv, Orderly, Plainly, Undo
  PROVE  /\ handler' \in Handlers /\ handler'.doc = doc' /\ doc' = doc
         /\ handler'.edit \in root /\ root' = root \ {handler'.edit}
         /\ DoneStack = Append(DoneStack', handler')
         /\ UndoneStack' = Append(UndoneStack, handler')
         /\ Distance' = Distance - 1 /\ cut' = cut
         /\ Bare = root /\ Bare' = root'
         /\ lpc = "idle" /\ mpc = "idle" /\ mpc' = "undone"
<1> USE DEF Undo, MainFree, Orderly, Plainly
<1>0. mpc = "idle" /\ mpc' = "undone" /\ lpc = "idle" /\ Bare = root /\ Bare' = root'
  BY DEF Bare
<1>1. /\ DoneStack = stockUndo /\ UndoneStack = stockRedo
      /\ DoneStack' = Front(stockUndo) /\ UndoneStack' = Append(stockRedo, handler')
  BY <1>0 DEF DoneStack, UndoneStack
<1>2. /\ handler' \in Handlers /\ stockUndo = Append(Front(stockUndo), Last(stockUndo))
      /\ Len(stockUndo) \in Nat /\ Len(stockUndo) > 0
  BY FrontLast, FrontFacts DEF TypeOK
<1>3. handler' = DoneStack[Len(DoneStack)] /\ Len(DoneStack) \in 1..Len(DoneStack)
  BY <1>1, <1>2 DEF Last
<1>4. handler'.doc = doc /\ handler'.edit \in root
  BY <1>0, <1>3 DEF StacksInv, Distinct, EditsOf
<1>5. Distance' = Distance - 1 /\ cut' = cut
  BY <1>0 DEF Distance, TypeOK
<1> QED
  BY <1>0, <1>1, <1>2, <1>4, <1>5

\* Redo moves it back.
LEMMA RedoStacks ==
  ASSUME TypeOK, TypeOK', StartingInv, StacksInv, Orderly, Plainly, Redo
  PROVE  /\ handler' \in Handlers /\ handler'.doc = doc' /\ doc' = doc
         /\ handler'.edit \notin root /\ root' = root \cup {handler'.edit}
         /\ DoneStack' = Append(DoneStack, handler')
         /\ UndoneStack = Append(UndoneStack', handler')
         /\ Distance' = Distance + 1 /\ cut' = cut
         /\ Bare = root /\ Bare' = root'
         /\ lpc = "idle" /\ mpc = "idle" /\ mpc' = "redone"
<1> USE DEF Redo, MainFree, Orderly, Plainly
<1>0. mpc = "idle" /\ mpc' = "redone" /\ lpc = "idle" /\ Bare = root /\ Bare' = root'
  BY DEF Bare
<1>1. /\ DoneStack = stockUndo /\ UndoneStack = stockRedo
      /\ UndoneStack' = Front(stockRedo) /\ DoneStack' = Append(stockUndo, handler')
  BY <1>0 DEF DoneStack, UndoneStack
<1>2. /\ handler' \in Handlers /\ stockRedo = Append(Front(stockRedo), Last(stockRedo))
      /\ Len(stockRedo) \in Nat /\ Len(stockRedo) > 0
  BY FrontLast, FrontFacts DEF TypeOK
<1>3. handler' = UndoneStack[Len(UndoneStack)] /\ Len(UndoneStack) \in 1..Len(UndoneStack)
  BY <1>1, <1>2 DEF Last
<1>4. handler'.doc = doc /\ handler'.edit \notin root
  BY <1>0, <1>3 DEF StacksInv, Distinct, EditsOf
<1>5. Distance' = Distance + 1 /\ cut' = cut
  BY <1>0 DEF Distance, TypeOK
<1> QED
  BY <1>0, <1>1, <1>2, <1>4, <1>5

\* The second half of Undo and Redo puts the handler where the first half has
\* it already.
LEMMA SecondHalf ==
  ASSUME TypeOK, Undone \/ Redone
  PROVE  /\ DoneStack' = DoneStack /\ UndoneStack' = UndoneStack
         /\ Distance' = Distance /\ root' = root /\ Bare' = Bare /\ doc' = doc /\ cut' = cut
         /\ mpc' = "idle" /\ mpc \in {"undone", "redone"}
<1>1. CASE Undone
  BY <1>1 DEF Undone, DoneStack, UndoneStack, Distance, Bare, treeVars, TypeOK
<1>2. CASE Redone
  BY <1>2 DEF Redone, DoneStack, UndoneStack, Distance, Bare, treeVars, TypeOK
<1> QED
  BY <1>1, <1>2

\* Steps that are neither commands on the tree nor a new session leave the
\* stacks, and what the counters say, as they are.
LEMMA SameStacks ==
  ASSUME TypeOK, TypeOK', Plainly,
         Saving \/ Leaving \/ Parse \/ LoadDone \/ UNCHANGED vars
  PROVE  /\ DoneStack' = DoneStack /\ UndoneStack' = UndoneStack
         /\ root' = root /\ Bare' = Bare /\ doc' = doc
         /\ mpc' = "append" => mpc = "append" /\ handler' = handler
         /\ RenameTmp \/ (Distance' = Distance /\ cut' = cut)
<1> USE DEF DoneStack, UndoneStack, Distance, Bare, treeVars, undoVars, mainVars
<1>1. CASE Save \/ WriteTmp \/ Saved
  BY <1>1 DEF Save, BeginSave, BeginSaveAs, WriteTmp, Saved, MainFree, Plainly
<1>2. CASE RemoveOld \/ RenameTmp
  BY <1>2 DEF RemoveOld, RenameTmp
<1>3. CASE Leaving
  BY <1>3 DEF Leaving, CheckFileNeedsSave, BeginSave, BeginSaveAs, StartSession, CancelOpen,
              Exit, MainFree, Plainly
<1>4. CASE Parse \/ LoadDone \/ UNCHANGED vars
  BY <1>4 DEF Parse, LoadDone, vars
<1> QED
  BY <1>1, <1>2, <1>3, <1>4 DEF Saving

\* What was done is in the tree, what was undone is not.
LEMMA StacksStep ==
  TypeOK /\ TypeOK' /\ TreeInv /\ StartingInv /\ StacksInv /\ Orderly /\ Plainly
    => StacksInv'
<1> SUFFICES ASSUME TypeOK, TypeOK', TreeInv, StartingInv, StacksInv, Orderly, Plainly
             PROVE  StacksInv'
  OBVIOUS
<1>t. /\ DoneStack \in Seq(Handlers) /\ UndoneStack \in Seq(Handlers)
      /\ DoneStack' \in Seq(Handlers) /\ UndoneStack' \in Seq(Handlers)
  <2>1. DoneStack' \in Seq(Handlers) /\ UndoneStack' \in Seq(Handlers)
    BY AppendFacts DEF TypeOK, DoneStack, UndoneStack
  <2> QED
    BY <2>1, StackTypes
<1>1. CASE Do
  <2>1. /\ handler'.doc = doc' /\ doc' = doc /\ mpc' = "append"
        /\ handler'.edit = edits + 1 /\ root' = root \cup {handler'.edit}
        /\ DoneStack' = DoneStack /\ UndoneStack' = UndoneStack /\ UndoneStack = stockRedo
        /\ Bare' = Bare
    BY <1>1, DoStacks
  <2>2. handler'.edit \notin EditsOf(UndoneStack)
    <3>1. \A i \in 1..Len(stockRedo) : stockRedo[i].edit <= edits /\ stockRedo[i].edit \in Nat
      BY DEF TreeInv, MadeHandlers, Handlers, Edits
    <3> QED
      BY <2>1, <3>1 DEF EditsOf, TypeOK
  <2> QED
    BY <2>1, <2>2 DEF StacksInv
<1>9. CASE CancelDialog
  <2>1. /\ DoneStack' = DoneStack /\ UndoneStack' = UndoneStack
        /\ Bare' = Bare /\ root' = Bare /\ doc' = doc /\ mpc' = "idle"
    BY <1>9, CancelStacks
  <2>2. Bare \subseteq root
    BY DEF Bare
  <2> QED
    BY <2>1, <2>2 DEF StacksInv
<1>2. CASE Undo
  <2>1. /\ handler' \in Handlers /\ handler'.doc = doc' /\ doc' = doc
        /\ handler'.edit \in root /\ root' = root \ {handler'.edit}
        /\ DoneStack = Append(DoneStack', handler')
        /\ UndoneStack' = Append(UndoneStack, handler')
        /\ Bare = root /\ Bare' = root' /\ mpc' = "undone"
    BY <1>2, UndoStacks
  <2>2. /\ EditsOf(DoneStack) = EditsOf(DoneStack') \cup {handler'.edit}
        /\ handler'.edit \notin EditsOf(DoneStack') /\ Distinct(DoneStack', doc)
    BY <1>t, <2>1, DistinctAppend DEF StacksInv
  <2>3. EditsOf(UndoneStack') = EditsOf(UndoneStack) \cup {handler'.edit}
        /\ Distinct(UndoneStack', doc)
    BY <1>t, <2>1, DistinctAppend DEF StacksInv
  <2> QED
    BY <2>1, <2>2, <2>3 DEF StacksInv
<1>3. CASE Redo
  <2>1. /\ handler' \in Handlers /\ handler'.doc = doc' /\ doc' = doc
        /\ handler'.edit \notin root /\ root' = root \cup {handler'.edit}
        /\ DoneStack' = Append(DoneStack, handler')
        /\ UndoneStack = Append(UndoneStack', handler')
        /\ Bare = root /\ Bare' = root' /\ mpc' = "redone"
    BY <1>3, RedoStacks
  <2>2. /\ EditsOf(UndoneStack) = EditsOf(UndoneStack') \cup {handler'.edit}
        /\ handler'.edit \notin EditsOf(UndoneStack') /\ Distinct(UndoneStack', doc)
    BY <1>t, <2>1, DistinctAppend DEF StacksInv
  <2>3. EditsOf(DoneStack') = EditsOf(DoneStack) \cup {handler'.edit}
        /\ Distinct(DoneStack', doc)
    BY <1>t, <2>1, DistinctAppend DEF StacksInv
  <2> QED
    BY <2>1, <2>2, <2>3 DEF StacksInv
<1>4. CASE AppendUndoHandler
  <2> DEFINE all == Append(DoneStack, handler)
  <2>1. /\ DoneStack' = all \/ (all # <<>> /\ DoneStack' = Tail(all))
        /\ UndoneStack' = <<>> /\ handler \in Handlers /\ handler.doc = doc /\ doc' = doc
        /\ handler.edit \notin Bare /\ Bare' = Bare \cup {handler.edit} /\ Bare' = root
        /\ root' = root
    BY <1>4, AppendStacks
  <2>2. all \in Seq(Handlers)
    BY <1>t, <2>1, AppendFacts
  <2>3. EditsOf(all) = EditsOf(DoneStack) \cup {handler.edit} /\ Distinct(all, doc)
    BY <1>t, <2>1, DistinctAppend DEF StacksInv
  <2> HIDE DEF all
  <2>4. Distinct(DoneStack', doc) /\ EditsOf(DoneStack') \subseteq EditsOf(all)
    BY <2>1, <2>2, <2>3, DistinctTail
  <2>5. Distinct(UndoneStack', doc) /\ EditsOf(UndoneStack') = {}
    BY <2>1 DEF Distinct, EditsOf
  <2>6. mpc' # "append"
    BY <1>4 DEF AppendUndoHandler
  <2> QED
    BY <2>1, <2>3, <2>4, <2>5, <2>6 DEF StacksInv
<1>10. CASE Undone \/ Redone
  BY <1>10, SecondHalf DEF StacksInv
<1>5. CASE HandlerFails
  <2>1. /\ mpc = "idle" /\ mpc' = "idle" /\ root' = root /\ doc' = doc
        /\ DoneStack = stockUndo /\ DoneStack' = stockUndo'
        /\ UndoneStack = stockRedo /\ UndoneStack' = stockRedo'
        /\ Bare = root /\ Bare' = root
    BY <1>5 DEF HandlerFails, MainFree, Plainly, treeVars, DoneStack, UndoneStack, Bare
  <2>2. ASSUME stockUndo # <<>>, stockUndo' = Front(stockUndo)
        PROVE  Distinct(DoneStack', doc) /\ EditsOf(DoneStack') \subseteq EditsOf(DoneStack)
    <3>1. DoneStack = Append(DoneStack', Last(stockUndo)) /\ Last(stockUndo) \in Handlers
      BY <1>t, <2>1, <2>2, FrontLast
    <3> QED
      BY <1>t, <3>1, DistinctAppend DEF StacksInv
  <2>3. ASSUME stockRedo # <<>>, stockRedo' = Front(stockRedo)
        PROVE  Distinct(UndoneStack', doc) /\ EditsOf(UndoneStack') \subseteq EditsOf(UndoneStack)
    <3>1. UndoneStack = Append(UndoneStack', Last(stockRedo)) /\ Last(stockRedo) \in Handlers
      BY <1>t, <2>1, <2>3, FrontLast
    <3> QED
      BY <1>t, <3>1, DistinctAppend DEF StacksInv
  <2> QED
    BY <1>5, <2>1, <2>2, <2>3 DEF StacksInv, HandlerFails
<1>6. CASE LoadStart
  BY <1>6 DEF LoadStart, StartingInv, mainVars, treeVars, StacksInv, DoneStack, UndoneStack,
              Distinct, EditsOf, Bare
<1>7. CASE NewRoot
  BY <1>7 DEF NewRoot, StartingInv, mainVars, undoVars, StacksInv, DoneStack, UndoneStack,
              Distinct, EditsOf, Bare
<1>8. CASE Saving \/ Leaving \/ Parse \/ LoadDone \/ UNCHANGED vars
  BY <1>8, SameStacks DEF StacksInv
<1> QED
  BY <1>1, <1>2, <1>3, <1>4, <1>5, <1>6, <1>7, <1>8, <1>9, <1>10
  DEF Next, Editing, Loading, Plainly

\* The counters keep the distance to the saved tree.
LEMMA SavedStep ==
  TypeOK /\ TypeOK' /\ TreeInv /\ SInv /\ Orderly /\ Plainly => SavedInv'
<1> SUFFICES ASSUME TypeOK, TypeOK', TreeInv, SInv, Orderly, Plainly,
                    lpc' \in {"idle", "queued"}, mpc' \notin {"remove", "rename", "saved"},
                    ~cut'
             PROVE  Apart(filePath', exists', disk', Bare', DoneStack', UndoneStack', Distance')
  BY DEF SavedInv
<1>p. /\ StartingInv /\ SavingInv /\ StacksInv
      /\ lpc \in {"idle", "queued"} /\ mpc \notin {"remove", "rename", "saved"} /\ ~cut =>
           Apart(filePath, exists, disk, Bare, DoneStack, UndoneStack, Distance)
  BY DEF SInv, SavedInv
<1>t. /\ DoneStack \in Seq(Handlers) /\ UndoneStack \in Seq(Handlers)
      /\ DoneStack' \in Seq(Handlers) /\ UndoneStack' \in Seq(Handlers)
      /\ Distance \in Int
  <2>1. DoneStack' \in Seq(Handlers) /\ UndoneStack' \in Seq(Handlers)
    BY AppendFacts DEF TypeOK, DoneStack, UndoneStack
  <2> QED
    BY <2>1, StackTypes
<1>s. mpc # "idle" => lpc = "idle"
  BY <1>p DEF StartingInv
<1>1. CASE Do \/ CancelDialog \/ Undone \/ Redone
  <2>1. filePath' = filePath /\ exists' = exists /\ disk' = disk
    BY <1>1 DEF Do, CancelDialog, Undone, Redone, diskVars
  <2>2. /\ DoneStack' = DoneStack /\ UndoneStack' = UndoneStack
        /\ Distance' = Distance /\ cut' = cut /\ Bare' = Bare
        /\ lpc = "idle" /\ mpc \in {"idle", "append", "undone", "redone"}
    BY <1>1, <1>p, <1>s, DoStacks, CancelStacks, SecondHalf
  <2> QED
    BY <1>p, <2>1, <2>2
<1>9. CASE Undo \/ Redo
  <2>1. /\ filePath' = filePath /\ exists' = exists /\ disk' = disk
    BY <1>9 DEF Undo, Redo, diskVars
  <2>4. CASE Undo
    <3>1. /\ handler' \in Handlers /\ handler'.edit \in root
          /\ root' = root \ {handler'.edit}
          /\ DoneStack = Append(DoneStack', handler')
          /\ UndoneStack' = Append(UndoneStack, handler')
          /\ Distance' = Distance - 1 /\ ~cut
          /\ Bare = root /\ Bare' = root'
          /\ lpc = "idle" /\ mpc = "idle"
      BY <1>p, <2>4, UndoStacks
    <3> QED
      BY <1>p, <1>t, <2>1, <3>1, OneBack
  <2>5. CASE Redo
    <3>1. /\ handler' \in Handlers /\ handler'.edit \notin root
          /\ root' = root \cup {handler'.edit}
          /\ DoneStack' = Append(DoneStack, handler')
          /\ UndoneStack = Append(UndoneStack', handler')
          /\ Distance' = Distance + 1 /\ ~cut
          /\ Bare = root /\ Bare' = root'
          /\ lpc = "idle" /\ mpc = "idle"
      BY <1>p, <2>5, RedoStacks
    <3> QED
      BY <1>p, <1>t, <2>1, <3>1, OneForward
  <2> QED
    BY <1>9, <2>4, <2>5
<1>2. CASE AppendUndoHandler
  <2> DEFINE all == Append(DoneStack, handler)
  <2>1. /\ DoneStack' = all \/ (all # <<>> /\ DoneStack' = Tail(all))
        /\ UndoneStack' = <<>>
        /\ Distance' = Distance + 1 /\ handler \in Handlers
        /\ handler.edit \notin Bare /\ Bare' = Bare \cup {handler.edit}
        /\ ~cut /\ Distance >= 0 /\ mpc = "append"
    BY <1>2, <1>p, AppendStacks
  <2>2. filePath' = filePath /\ exists' = exists /\ disk' = disk
    BY <1>2 DEF AppendUndoHandler, diskVars
  <2>3. Apart(filePath, exists, disk, Bare, DoneStack, UndoneStack, Distance)
    BY <1>p, <1>s, <2>1
  <2>4. Apart(filePath, exists, disk, Bare', all, UndoneStack, Distance + 1)
    BY <1>t, <2>1, <2>3, OneForward
  <2>5. all \in Seq(Handlers) /\ Distance + 1 \in Int
    BY <1>t, <2>1, AppendFacts
  <2> HIDE DEF all
  <2>6. Apart(filePath, exists, disk, Bare', DoneStack', UndoneStack, Distance + 1)
    BY <1>t, <2>1, <2>4, <2>5, ForgetOldest
  <2> QED
    BY <1>t, <2>1, <2>2, <2>6 DEF Apart, HeldBy
<1>3. CASE HandlerFails
  BY <1>3 DEF HandlerFails
<1>4. CASE LoadStart \/ NewRoot
  BY <1>4 DEF LoadStart, NewRoot
<1>5. CASE RemoveOld \/ RenameTmp
  BY <1>5 DEF RemoveOld, RenameTmp
<1>6. CASE Saved
  <2>1. Distance' = 0 /\ root' = root /\ Bare' = root
    BY <1>p, <1>6 DEF Saved, Distance, Bare, SavingInv, treeVars, undoVars, TypeOK
  <2>2. filePath' = target /\ target \in Files /\ target \in exists' /\ disk'[target] = root
    BY <1>p, <1>6 DEF Saved, SavingInv, TypeOK, diskVars
  <2>3. HeldBy(filePath', exists', disk', Bare')
    BY <2>1, <2>2, DocumentAssumption DEF HeldBy
  <2> QED
    BY <1>t, <2>1, <2>3, NotApart
<1>7. CASE LoadDone
  <2>1. Distance' = 0 /\ root' = root /\ Bare' = root
    BY <1>p, <1>7 DEF LoadDone, Distance, Bare, StartingInv, treeVars, mainVars, TypeOK
  <2>2. HeldBy(filePath', exists', disk', Bare')
    BY <1>p, <1>7, <2>1 DEF LoadDone, StartingInv, diskVars, HeldBy
  <2> QED
    BY <1>t, <2>1, <2>2, NotApart
<1>8. CASE Save \/ WriteTmp \/ Leaving \/ Parse \/ UNCHANGED vars
  <2>1. /\ DoneStack' = DoneStack /\ UndoneStack' = UndoneStack /\ Bare' = Bare
        /\ Distance' = Distance /\ cut' = cut
    <3>1. RenameTmp => mpc = "rename" /\ mpc' = "saved"
      BY DEF RenameTmp
    <3> QED
      BY <1>8, <3>1, SameStacks DEF Saving, vars, mainVars
  <2>2. filePath' = filePath /\ exists' = exists /\ disk' = disk
    BY <1>8 DEF Save, WriteTmp, Leaving, CheckFileNeedsSave, StartSession, CancelOpen, Exit,
                Parse, vars, diskVars
  <2>3. lpc \in {"idle", "queued"} /\ mpc \notin {"remove", "rename", "saved"}
    <3>1. CASE Save \/ WriteTmp
      BY <3>1, <1>p DEF Save, WriteTmp, MainFree, StartingInv, loadVars
    <3>2. CASE Leaving
      BY <3>2, <1>p DEF Leaving, CheckFileNeedsSave, StartSession, CancelOpen, Exit, MainFree,
                        loadVars
    <3>3. CASE Parse
      BY <3>3, <1>p DEF Parse, Orderly, StartingInv
    <3>4. CASE UNCHANGED vars
      BY <3>4 DEF vars, mainVars, loadVars
    <3> QED
      BY <1>8, <3>1, <3>2, <3>3, <3>4
  <2> QED
    BY <1>p, <2>1, <2>2, <2>3
<1> QED
  BY <1>1, <1>2, <1>3, <1>4, <1>5, <1>6, <1>7, <1>8, <1>9
  DEF Next, Editing, Saving, Loading, Plainly

\* A command and the start of a session are never under way together, and a
\* session finds its file there and loads what it holds.
LEMMA StartingStep ==
  TypeOK /\ StartingInv /\ Orderly /\ Plainly => StartingInv'
<1> SUFFICES ASSUME TypeOK, StartingInv, Orderly, Plainly PROVE StartingInv'
  OBVIOUS
<1> USE DEF StartingInv, Orderly, Plainly
<1>1. CASE Editing
  BY <1>1 DEF Editing, Do, AppendUndoHandler, CancelDialog, Undo, Undone, Redo, Redone,
              HandlerFails, MainFree, loadVars
<1>2. CASE Saving
  BY <1>2 DEF Saving, Save, WriteTmp, RemoveOld, RenameTmp, Saved, MainFree, loadVars
<1>3. CASE CheckFileNeedsSave \/ CancelOpen \/ Exit
  BY <1>3 DEF CheckFileNeedsSave, CancelOpen, Exit, MainFree, loadVars
<1>4. CASE StartSession
  BY <1>4 DEF StartSession, diskVars
<1>5. CASE LoadStart
  BY <1>5 DEF LoadStart, diskVars, mainVars
<1>6. CASE Parse
  BY <1>6, DocumentAssumption DEF Parse, diskVars, mainVars, undoVars, TypeOK
<1>7. CASE NewRoot
  BY <1>7 DEF NewRoot, diskVars, mainVars, undoVars
<1>8. CASE LoadDone
  BY <1>8 DEF LoadDone, mainVars
<1>9. CASE UNCHANGED vars
  BY <1>9 DEF vars, treeVars, undoVars, diskVars, mainVars, loadVars
<1> QED
  BY <1>1, <1>2, <1>3, <1>4, <1>5, <1>6, <1>7, <1>8, <1>9 DEF Next, Leaving, Loading

\* A save removes the old file, puts the tree in its place and then takes the
\* counter, and nothing comes between.
LEMMA SavingStep ==
  TypeOK /\ StartingInv /\ SavingInv /\ Orderly /\ Plainly => SavingInv'
<1> SUFFICES ASSUME TypeOK, StartingInv, SavingInv, Orderly, Plainly PROVE SavingInv'
  OBVIOUS
<1> USE DEF SavingInv, StartingInv, Orderly, Plainly
<1>1. CASE Editing
  BY <1>1 DEF Editing, Do, AppendUndoHandler, CancelDialog, Undo, Undone, Redo, Redone,
              HandlerFails
<1>2. CASE Save \/ CheckFileNeedsSave
  BY <1>2 DEF Save, CheckFileNeedsSave, BeginSave, BeginSaveAs, MainFree
<1>3. CASE WriteTmp
  BY <1>3 DEF WriteTmp, treeVars
<1>4. CASE RemoveOld
  BY <1>4 DEF RemoveOld, treeVars
<1>5. CASE RenameTmp
  BY <1>5 DEF RenameTmp, treeVars, TypeOK
<1>6. CASE Saved \/ StartSession \/ CancelOpen \/ Exit
  BY <1>6 DEF Saved, StartSession, CancelOpen, Exit
<1>7. CASE Loading
  BY <1>7 DEF Loading, LoadStart, Parse, NewRoot, LoadDone, mainVars
<1>8. CASE UNCHANGED vars
  BY <1>8 DEF vars, treeVars, undoVars, diskVars, mainVars
<1> QED
  BY <1>1, <1>2, <1>3, <1>4, <1>5, <1>6, <1>7, <1>8 DEF Next, Saving, Leaving

\* The flag is taken back only where the counters agree.
LEMMA DirtyStep ==
  TypeOK /\ StartingInv /\ DirtyInv /\ Plainly => DirtyInv'
<1> SUFFICES ASSUME TypeOK, StartingInv, DirtyInv, Plainly PROVE DirtyInv'
  OBVIOUS
<1> USE DEF DirtyInv, Plainly
<1>1. CASE Do \/ AppendUndoHandler \/ CancelDialog \/ Undo \/ Redo \/ HandlerFails
  BY <1>1 DEF Do, AppendUndoHandler, CancelDialog, Undo, Redo, HandlerFails, undoVars
<1>6. CASE Undone
  BY <1>6 DEF Undone
<1>7. CASE Redone
  BY <1>7 DEF Redone
<1>2. CASE Saving
  BY <1>2 DEF Saving, Save, WriteTmp, RemoveOld, RenameTmp, Saved, undoVars
<1>3. CASE Leaving
  BY <1>3 DEF Leaving, CheckFileNeedsSave, StartSession, CancelOpen, Exit, undoVars
<1>4. CASE Loading
  BY <1>4 DEF Loading, LoadStart, Parse, NewRoot, LoadDone, undoVars, StartingInv
<1>5. CASE UNCHANGED vars
  BY <1>5 DEF vars, undoVars
<1> QED
  BY <1>1, <1>2, <1>3, <1>4, <1>5, <1>6, <1>7 DEF Next, Editing

\* The counters and the stacks know the way back to the saved tree, as long as
\* no command ran beside a dialog and no Cancel left a change there.
THEOREM SavedTreeInvariance == Orderly /\ Spec => [](~mixed => SInv)
<1>1. ASSUME Orderly PROVE Spec => [](~mixed => SInv)
  <2> DEFINE Inv == TypeOK /\ TreeInv /\ DialogsInv
             Goal == ~mixed => SInv
  <2>1. Inv /\ Inv' /\ Goal /\ [Next]_vars => Goal'
    <3> SUFFICES ASSUME TypeOK, TypeOK', TreeInv, DialogsInv, Goal, [Next]_vars, ~mixed'
                 PROVE  SInv'
      OBVIOUS
    <3>1. Plainly /\ ~mixed
      BY NotMixed DEF Plainly
    <3>2. SInv
      BY <3>1
    <3> QED
      BY <1>1, <3>1, <3>2, StartingStep, SavingStep, DirtyStep, StacksStep, SavedStep DEF SInv
  <2>2. Init => Goal
    BY InitSInv
  <2>3. Spec => []Inv
    BY DocumentTypes, PTL
  <2> HIDE DEF Inv, Goal
  <2>4. Spec => []Goal
    BY <2>1, <2>2, <2>3, PTL DEF Spec
  <2> QED
    BY <2>4 DEF Goal
<1> QED
  BY <1>1

\* CleanIsSavedUnlessCut holds for every size of the stacks: a document that is
\* not dirty is its file, but for what an open dialog put into the tree, and
\* Cancel takes just that away.
THEOREM CleanMeansSaved == Orderly /\ Spec => []CleanIsSavedUnlessCut
<1>1. TypeOK /\ (~mixed => SInv) => CleanIsSavedUnlessCut
  <2> SUFFICES ASSUME TypeOK, SInv, ~isDirty, ~cut, lpc = "idle",
                      mpc \in {"idle", "append", "leave", "exited"}
               PROVE  Holds(Bare)
    BY DEF CleanIsSavedUnlessCut, Settled, InFile, Bare
  <2>1. Distance = 0
    BY DEF SInv, DirtyInv, Distance, TypeOK
  <2>2. Apart(filePath, exists, disk, Bare, DoneStack, UndoneStack, 0)
    BY <2>1 DEF SInv, SavedInv
  <2>3. HeldBy(filePath, exists, disk, Bare)
    BY <2>2, StackTypes, NotApart
  <2> QED
    BY <2>3 DEF HeldBy, Holds
<1> QED
  BY <1>1, SavedTreeInvariance, DocumentTypes, PTL
=============================================================================
