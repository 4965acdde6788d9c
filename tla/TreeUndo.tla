------------------------------ MODULE TreeUndo ------------------------------
(***************************************************************************)
(* The tree of eg/Classes/TreeItem.py and ContainerItem.py, the undo       *)
(* handlers of eg/Classes/UndoHandler, which find their items by index     *)
(* paths (TreePosition), and the links of jump actions to macros           *)
(* (TreeLink), which tables keyed by XML id bring back when deleted items  *)
(* are built again from their XML text.                                    *)
(*                                                                         *)
(* Item 0 is the root, an item is its xmlId (unique while the session      *)
(* lasts, and the same again for an item that is restored).  A link whose  *)
(* target is a deleted object of item x has the target -x.  A link that no *)
(* action holds any more is left out: it takes part in nothing but the     *)
(* question AskDelete asks and the ids written to the clipboard.           *)
(*                                                                         *)
(* The dialog of an action is not modal: it is opened, and any commands    *)
(* may run until it is confirmed or cancelled.  Everything else waits for  *)
(* the action thread, so it is one step, and the removal that Cancel only  *)
(* queues is one with it.                                                  *)
(***************************************************************************)
EXTENDS Integers, SequencesExt

CONSTANTS FirstChilds, (* the children of the items there are at first     *)
          FirstLinks,  (* the links of their actions, <<action, macro>>    *)
          MaxId,       (* bound on the items ever built                    *)
          MaxEdits,    (* bound on the commands                            *)
          MaxMixed,    (* a mixed history with more commands is left there *)
          Commands,    (* those used: "delete", "move", "configure",       *)
                       (* "toggle", "new", "paste"                         *)
          MaxDialogs,  (* dialogs open at once                             *)
          MaxPasted    (* items in the clipboard at once                   *)

Ids == 1..MaxId
Nodes == 0..MaxId
Last0 == CHOOSE n \in Ids : /\ \A i \in Ids : FirstChilds[i] # <<>> => i <= n
                            /\ \A i \in Nodes : ToSet(FirstChilds[i]) \subseteq 0..n
                            /\ \E i \in Nodes : n \in ToSet(FirstChilds[i])

VARIABLES
  childs,    (* the children of each item                                   *)
  macros,    (* the items that are macros; the others are actions           *)
  on,        (* the enabled items                                           *)
  links,     (* TreeLink, see Links                                         *)
  lastId,    (* TreeLink.currentXmlId                                       *)
  clip,      (* the clipboard, a sequence of XML texts                      *)
  dialogs,   (* the configuration dialogs that are open, see Dialog         *)
  stockUndo, stockRedo,
  trail,     (* the trees of the handlers in stockUndo, this one, stockRedo *)
  edits,     (* the commands so far                                         *)
  pasted,    (* something was pasted                                        *)
  raised,    (* a handler did not find its item                             *)
  mixed      (* a command ran beside a dialog with a change no handler      *)
             (* knows, or such a change was left behind (history)           *)

vars == <<childs, macros, on, links, lastId, clip, dialogs, stockUndo, stockRedo, trail,
          edits, pasted, raised, mixed>>

\* to: link.target of an action's link (0: None), ref: its xmlId, dep: the
\* links in dependants, or in unresolvedIds while the item is deleted, table:
\* id2target (0: no entry), session: sessionId2target, pending: linkList.
Links == [to : [Ids -> (-MaxId)..MaxId], ref : [Ids -> Nodes],
          dep : [Ids -> SUBSET Ids], table : [Ids -> (-MaxId)..MaxId],
          session : [Ids -> (-MaxId)..MaxId], pending : SUBSET (Ids \X Ids)]

Live(ch) == ToSet(ch[0]) \cup UNION {ToSet(ch[m]) : m \in ToSet(ch[0])}
View(ch, o, L) == [childs |-> ch, on |-> o \cap Live(ch),
                   to |-> [a \in Ids |-> IF a \in Live(ch) THEN L.to[a] ELSE 0]]

TypeOK ==
  /\ childs \in [Nodes -> Seq(Ids)]
  /\ macros \subseteq Ids /\ on \subseteq Ids
  /\ links \in Links
  /\ lastId \in Nodes /\ edits \in 0..MaxEdits
  /\ raised \/ Len(trail) = Len(stockUndo) + Len(stockRedo) + 1
  /\ \A n \in Live(childs) : Cardinality({<<p, i>> \in Nodes \X Ids :
                                i \in DOMAIN childs[p] /\ childs[p][i] = n}) = 1
  /\ \A n \in Ids \ Live(childs) : childs[n] = <<>>
  /\ {d.item : d \in dialogs} \subseteq Live(childs) \cup {0}
  /\ {pasted, raised, mixed} \subseteq BOOLEAN

Init ==
  /\ childs = FirstChilds
  /\ macros = ToSet(FirstChilds[0])
  /\ on = Live(FirstChilds)
  /\ LET aim == [a \in Ids |-> IF \E p \in FirstLinks : p[1] = a
                               THEN (CHOOSE p \in FirstLinks : p[1] = a)[2] ELSE 0]
         aimedAt == [m \in Ids |-> {a \in Ids : aim[a] = m}]
     IN links = [to |-> aim, ref |-> aim, dep |-> aimedAt,
                 table |-> [m \in Ids |-> IF aimedAt[m] = {} THEN 0 ELSE m],
                 session |-> [m \in Ids |-> 0], pending |-> {}]
  /\ lastId = Last0
  /\ clip = <<>> /\ dialogs = {} /\ stockUndo = <<>> /\ stockRedo = <<>>
  /\ trail = <<View(childs, on, links)>>
  /\ edits = 0 /\ pasted = FALSE /\ raised = FALSE /\ mixed = FALSE

-----------------------------------------------------------------------------
(***************************************************************************)
(* The tree.                                                               *)
(***************************************************************************)
ParentOf(n) == CHOOSE p \in Nodes : n \in ToSet(childs[p])
IndexIn(ch, p, n) == CHOOSE i \in DOMAIN ch[p] : ch[p][i] = n

\* GetPath; counted from 1.
PathIn(ch, n) ==
  IF n = 0 THEN <<>>
  ELSE LET p == CHOOSE q \in Nodes : n \in ToSet(ch[q])
       IN IF p = 0 THEN <<IndexIn(ch, 0, n)>> ELSE <<IndexIn(ch, 0, p), IndexIn(ch, p, n)>>

\* GetItem, or -1 where the index is out of range.
ItemAt(ch, path) ==
  FoldLeft(LAMBDA n, i : IF n >= 0 /\ i \in DOMAIN ch[n] THEN ch[n][i] ELSE -1, 0, path)

\* AddChild; -1 and an index past the end append.
AddChild(ch, p, n, pos) ==
  [ch EXCEPT ![p] = IF pos = -1 \/ pos > Len(@) THEN Append(@, n) ELSE InsertAt(@, pos, n)]
RemoveChild(ch, p, n) == [ch EXCEPT ![p] = RemoveAt(@, IndexIn(ch, p, n))]

\* MoveItemTo: pos counts the children before the move.
MoveItemTo(n, q, pos) ==
  LET p == ParentOf(n)
  IN AddChild(RemoveChild(childs, p, n), q, n,
              IF q = p /\ pos > IndexIn(childs, p, n) THEN pos - 1 ELSE pos)

-----------------------------------------------------------------------------
(***************************************************************************)
(* The links.                                                              *)
(***************************************************************************)

\* The links of `actions` are no longer held; nobody depends through them.
Drop(L, actions) == [L EXCEPT !.dep = [m \in Ids |-> @[m] \ actions],
                              !.pending = {p \in @ : p[1] \notin actions}]

IdOf(m) == IF m < 0 THEN -m ELSE m

\* m may be a deleted macro that a dialog still holds.
SetTarget(L, a, m) ==
  [L EXCEPT !.to[a] = m, !.ref[a] = IdOf(m), !.table[IdOf(m)] = m,
            !.dep = [i \in Ids |-> IF i = m THEN @[i] \cup {a}
                                   ELSE IF i = L.to[a] THEN @[i] \ {a} ELSE @[i]]]

\* The links found, pairs of a link and the id it waits for, get their targets.
Point(L, found, value) ==
  LET aim(a) == value[(CHOOSE p \in found : p[1] = a)[2]]
      owners == {p[1] : p \in found}
  IN [L EXCEPT !.to = [a \in Ids |-> IF a \in owners THEN aim(a) ELSE @[a]],
               !.ref = [a \in Ids |-> IF a \in owners
                                      THEN IdOf(aim(a)) ELSE @[a]],
               !.dep = [m \in Ids |-> @[m] \cup {a \in owners : aim(a) = m}],
               !.pending = @ \ found]


\* Links whose id is not found stay in the list.
StopUndo(L) == Point(L, {p \in L.pending : L.table[p[2]] # 0}, L.table)

\* An id is one of the pasted text or of a file first; links without a target
\* are dropped, those a restored item waits with too.
StopLoad(L) ==
  LET value == [x \in Ids |-> IF L.session[x] # 0 THEN L.session[x] ELSE L.table[x]]
      found == {p \in L.pending : value[p[2]] # 0}
      M == Point(L, found, value)
  IN [M EXCEPT !.pending = {},
               !.table = [m \in Ids |-> IF \E p \in found : IdOf(value[p[2]]) = m
                                        THEN value[(CHOOSE p \in found : IdOf(value[p[2]]) = m)[2]]
                                        ELSE @[m]]]

\* Wrong: the links to a deleted item are left alone.
UnlinkKeeping(L, gone) ==
  [Drop(L, gone) EXCEPT
     !.table = [m \in Ids |-> IF m \in gone THEN 0 ELSE @[m]],
     !.session = [k \in Ids |-> IF k \in gone THEN 0 ELSE IF @[k] \in gone THEN -@[k] ELSE @[k]]]

\* Delete of the items `gone`: RemoveDependants, the tables, an action's links.
Unlink(L, gone) ==
  [Drop(L, gone) EXCEPT
     !.to = [a \in Ids |-> IF a \in gone \/ @[a] \in gone THEN 0 ELSE @[a]],
     !.table = [m \in Ids |-> IF m \in gone THEN 0 ELSE @[m]],
     !.session = [k \in Ids |-> IF k \in gone THEN 0 ELSE IF @[k] \in gone THEN -@[k] ELSE @[k]]]

\* The constructors of the items of x in an undo: NewXmlId points the links
\* that wait for an item at it, CreateFromArgument lists those of actions.
Build(L, x) ==
  LET new == DOMAIN x.ref
  IN [L EXCEPT !.table = [m \in Ids |-> IF m \in new THEN m ELSE @[m]],
               !.to = [a \in Ids |-> IF \E m \in new : a \in L.dep[m]
                                     THEN CHOOSE m \in new : a \in L.dep[m] ELSE @[a]],
               !.ref = [a \in Ids |-> IF a \in new THEN x.ref[a] ELSE @[a]],
               !.pending = @ \cup {<<a, x.ref[a]>> : a \in {b \in new : x.ref[b] # 0}}]

-----------------------------------------------------------------------------
(***************************************************************************)
(* What a command or handler does to the state s; `ok` is whether it found *)
(* its items, `paths` and `xmls` are what the handler remembers of them.   *)
(***************************************************************************)
Now == [childs |-> childs, on |-> on, links |-> links, lastId |-> lastId,
        macros |-> macros, ok |-> TRUE, paths |-> <<>>, xmls |-> <<>>]

\* GetXmlString and GetFullXml; the first writes the ids of items that have
\* dependants, the second all ids (RestoreItem).
Xml(s, n) ==
  LET items == {n} \cup ToSet(s.childs[n])
  IN [top |-> n, kids |-> s.childs[n], on |-> s.on \cap items, macro |-> n \in s.macros,
      ref |-> [a \in items |-> s.links.ref[a]],
      ids |-> {m \in items : s.links.dep[m] # {}}]

\* Wrong: the loop runs over the list it takes children from, every other one.
DeleteSkipping(s, n) ==
  LET kept == SelectSeq(s.childs[n], LAMBDA c : IndexIn(s.childs, n, c) % 2 = 0)
      gone == ({n} \cup ToSet(s.childs[n])) \ ToSet(kept)
      p == CHOOSE q \in Nodes : n \in ToSet(s.childs[q])
  IN [s EXCEPT !.childs = [RemoveChild(@, p, n) EXCEPT ![n] = kept],
               !.on = @ \ gone, !.links = Unlink(@, gone)]

Delete(s, n) ==
  LET gone == {n} \cup ToSet(s.childs[n])
      p == CHOOSE q \in Nodes : n \in ToSet(s.childs[q])
  IN [s EXCEPT !.childs = [RemoveChild(@, p, n) EXCEPT ![n] = <<>>],
               !.on = @ \ gone, !.links = Unlink(@, gone)]

\* The items at the paths, one after the other, until one is not there.
DeleteAll(paths) ==
  FoldLeft(LAMBDA s, path :
             LET n == ItemAt(s.childs, path)
             IN IF n > 0 /\ s.ok
                THEN [Delete(s, n) EXCEPT !.paths = Append(@, path),
                                          !.xmls = Append(@, Xml(s, n))]
                ELSE [s EXCEPT !.ok = FALSE], Now, paths)

\* Wrong: a restored item is put behind its parent's other children.
RestoreItemLast(s, path, x) ==
  [s EXCEPT !.childs = [AddChild(@, ItemAt(@, Front(path)), x.top, -1) EXCEPT ![x.top] = x.kids],
            !.on = @ \cup x.on, !.links = StopUndo(Build(@, x))]

RestoreItem(s, path, x) ==
  [s EXCEPT !.childs = [AddChild(@, ItemAt(@, Front(path)), x.top, Last(path))
                          EXCEPT ![x.top] = x.kids],
            !.on = @ \cup x.on, !.links = StopUndo(Build(@, x))]

\* Bound: once a handler deleted another item than its own, the way back would
\* build an item a second time that the tree still has; this is left out.
Fresh(h) == \A x \in ToSet(h.xmls) : DOMAIN x.ref \cap Live(childs) = {}

RestoreAll(h) ==
  FoldLeft(LAMBDA s, i :
             IF ItemAt(s.childs, Front(h.paths[i])) >= 0 /\ s.ok
             THEN RestoreItem(s, h.paths[i], h.xmls[i]) ELSE [s EXCEPT !.ok = FALSE],
           Now, [i \in 1..Len(h.paths) |-> i])

\* PasteXml of one text: new ids for all its items, and a place in the session
\* table for those whose id was written.
PasteText(s, x, p, pos) ==
  LET new == s.lastId + 1
      newId == [m \in DOMAIN x.ref |-> IF m = x.top THEN new
                                       ELSE new + (CHOOSE i \in DOMAIN x.kids : x.kids[i] = m)]
      ch == [AddChild(s.childs, p, new, pos) EXCEPT ![new] = [i \in DOMAIN x.kids |-> new + i]]
  IN [s EXCEPT
        !.childs = ch, !.paths = Append(@, PathIn(ch, new)),
        !.lastId = new + Len(x.kids),
        !.on = @ \cup {newId[m] : m \in x.on},
        !.macros = IF x.macro THEN @ \cup {new} ELSE @,
        !.links.session = [k \in Ids |-> IF k \in x.ids THEN newId[k] ELSE @[k]],
        !.links.ref = [a \in Ids |-> IF \E m \in DOMAIN x.ref : newId[m] = a
                                     THEN x.ref[CHOOSE m \in DOMAIN x.ref : newId[m] = a]
                                     ELSE @[a]],
        !.links.pending = @ \cup {<<newId[m], x.ref[m]>> : m \in {k \in DOMAIN x.ref : x.ref[k] # 0}}]

-----------------------------------------------------------------------------
(***************************************************************************)
(* Commands: each changes the tree and pushes its handler; one that opens  *)
(* a dialog does not push it yet.                                          *)
(***************************************************************************)
\* An open dialog: its action (0 once that is deleted), whether the action is
\* new and has no handler yet, the id its link had, the macros deleted since,
\* and, once something was applied, <<to, dep>> of the link before that.
Dialog(a, first, ref) == [item |-> a, first |-> first, ref |-> ref, lost |-> {}, old |-> <<>>]

\* Dialogs whose change of the tree no handler knows.
Unrecorded(ds) == \E d \in ds : d.first \/ d.old # <<>>

\* The tree and its dialogs after a change of the user or of a handler.
Change(s) ==
  LET gone == Live(childs) \ Live(s.childs)
  IN /\ childs' = s.childs /\ on' = s.on /\ links' = s.links
     /\ dialogs' = {[d EXCEPT !.item = IF @ \in gone THEN 0 ELSE @,
                              !.lost = @ \cup (gone \cap macros)] : d \in dialogs}
     /\ mixed' = (mixed \/ Unrecorded(dialogs))

Push(h) ==
  /\ stockUndo' = Append(stockUndo, h) /\ stockRedo' = <<>>
  /\ trail' = Append(SubSeq(trail, 1, Len(stockUndo) + 1), View(childs', on', links'))

\* Where the bounds and the handlers let the history go on.
GoesOn == ~raised /\ (mixed => edits <= MaxMixed)

\* The user gives a command.
Command(command) ==
  /\ command \in Commands /\ edits < MaxEdits /\ GoesOn
  /\ edits' = edits + 1
  /\ UNCHANGED raised

Commit(command, s, h) ==
  /\ Command(command) /\ Change(s) /\ Push(h)
  /\ lastId' = s.lastId /\ macros' = s.macros

\* Cut and Clear.  Cut puts the item into the clipboard as Copy does.
Cut ==
  \E n \in Live(childs) :
    LET s == Delete(Now, n)
    IN /\ Commit("delete", s, [cmd |-> "delete", paths |-> <<PathIn(childs, n)>>,
                               xmls |-> <<Xml(Now, n)>>])
       /\ clip' \in {clip, <<Xml(Now, n)>>}
       /\ UNCHANGED pasted

MoveHandler(n, p, ch) == [cmd |-> "move", oldPos |-> IndexIn(childs, p, n),
                          oldParentPath |-> PathIn(ch, p), path |-> PathIn(ch, n)]

MoveTo ==
  \E n \in Live(childs), q \in Nodes :
    /\ q \in (IF n \in macros THEN {0} ELSE macros \cap Live(childs))
    /\ \E pos \in {-1} \cup (1..Len(childs[q])) :
         LET ch == MoveItemTo(n, q, pos)
         IN Commit("move", [Now EXCEPT !.childs = ch], MoveHandler(n, ParentOf(n), ch))
    /\ UNCHANGED <<clip, pasted>>

\* The dialog of an action is opened.
Configure ==
  \E a \in Live(childs) \ macros :
    /\ Command("configure") /\ Cardinality(dialogs) < MaxDialogs
    /\ \A d \in dialogs : d.item # a
    /\ dialogs' = dialogs \cup {Dialog(a, FALSE, links.ref[a])}
    /\ UNCHANGED <<childs, on, links, mixed, lastId, macros, clip, pasted, stockUndo, stockRedo,
                   trail>>

\* ToggleEnable, and Rename, which changes another attribute the same way.
ToggleEnable ==
  \E n \in Live(childs) :
    /\ Commit("toggle", [Now EXCEPT !.on = (@ \cup {n}) \ (@ \cap {n})],
              [cmd |-> "toggle", path |-> PathIn(childs, n), state |-> n \notin on])
    /\ UNCHANGED <<clip, pasted>>

\* The places for a new item: last in its container, or at the selected item,
\* which for the last one is behind it.
PlacesIn(p) == {-1} \cup 1..(Len(childs[p]) - 1)

\* The item is there before its dialog is; without one the handler is pushed at
\* once.
NewAction ==
  \E m \in macros \cap Live(childs) :
    /\ lastId < MaxId
    /\ \E pos \in PlacesIn(m) :
         LET n == lastId + 1
             ch == AddChild(childs, m, n, pos)
             s == [Now EXCEPT !.childs = ch, !.on = @ \cup {n}, !.lastId = n]
         IN \/ Commit("new", s, [cmd |-> "new", paths |-> <<PathIn(ch, n)>>, xmls |-> <<>>])
            \/ /\ Command("new") /\ Cardinality(dialogs) < MaxDialogs
               /\ childs' = ch /\ on' = s.on /\ lastId' = n
               /\ dialogs' = dialogs \cup {Dialog(n, TRUE, 0)}
               /\ mixed' = (mixed \/ Unrecorded(dialogs))
               /\ UNCHANGED <<links, macros, stockUndo, stockRedo, trail>>
    /\ UNCHANGED <<clip, pasted>>

\* Copy; a text of several items comes from a file or a web page.
Copy ==
  /\ "paste" \in Commands /\ edits < MaxEdits /\ GoesOn
  /\ edits' = edits + 1
  /\ LET x == [top |-> 1, kids |-> <<>>, on |-> {1}, macro |-> TRUE,
               ref |-> [a \in {1} |-> 0], ids |-> {}]
     IN clip' \in {<<Xml(Now, n)>> : n \in Live(childs)} \cup {[i \in 1..MaxPasted |-> x]}
  /\ UNCHANGED <<childs, macros, on, links, lastId, dialogs, stockUndo, stockRedo, trail, pasted,
                 raised, mixed>>

\* The first item goes to the place selected, the others behind it.
Paste ==
  /\ clip # <<>>
  /\ lastId + FoldLeft(LAMBDA k, x : k + 1 + Len(x.kids), 0, clip) <= MaxId
  /\ \E p \in (IF clip[1].macro THEN {0} ELSE macros \cap Live(childs)), pos \in Nodes \cup {-1} :
       /\ pos \in PlacesIn(p)
       /\ LET first == PasteText(Now, clip[1], p, pos)
              s == FoldLeft(LAMBDA t, x : PasteText(t, x, p, -1), first, Tail(clip))
          IN Commit("paste", [s EXCEPT !.links = StopLoad(@)],
                    [cmd |-> "new", paths |-> s.paths, xmls |-> <<>>])
  /\ pasted' = TRUE
  /\ UNCHANGED clip

-----------------------------------------------------------------------------
(***************************************************************************)
(* The dialogs, whose actions may be gone meanwhile.                       *)
(***************************************************************************)
\* The macros a jump's dialog may hold; deleted ones too.
Held(d) == (macros \cap Live(childs)) \cup {-m : m \in d.lost}

\* SetArguments with a link to m; the link of an action that is gone is left
\* out, but not the table.
Aimed(d, m) == IF m = 0 THEN links
               ELSE IF d.item = 0 THEN [links EXCEPT !.table[IdOf(m)] = m]
               ELSE SetTarget(links, d.item, m)

\* The arguments are not those the dialog was opened with any more.
Stale(d) == d.item = 0 \/ links.ref[d.item] # d.ref

dialogSame == <<lastId, macros, clip, edits, pasted, raised>>

Apply ==
  GoesOn /\ \E d \in dialogs :
    \E m \in Held(d) :
      /\ links' = Aimed(d, m)
      /\ dialogs' = (dialogs \ {d}) \cup
           {IF d.item = 0 \/ d.old # <<>> THEN d
            ELSE [d EXCEPT !.old = <<links.to[d.item], {i \in Ids : d.item \in links.dep[i]}>>]}
      /\ mixed' = (mixed \/ m < 0 \/ Unrecorded(dialogs \ {d}) \/ (d.old = <<>> /\ Stale(d)))
      /\ UNCHANGED <<childs, on, stockUndo, stockRedo, trail, dialogSame>>

\* The handler remembers where its action is now; a new action may have no link.
Confirm ==
  GoesOn /\ \E d \in dialogs :
    \E m \in Held(d) \cup (IF d.first THEN {0} ELSE {}) :
      LET path == IF d.item = 0 THEN <<0>> ELSE PathIn(childs, d.item)
      IN /\ links' = Aimed(d, m) /\ UNCHANGED <<childs, on, dialogSame>>
         /\ dialogs' = dialogs \ {d}
         /\ mixed' = (mixed \/ m < 0 \/ Unrecorded(dialogs \ {d}) \/ d.item = 0
                      \/ (d.old = <<>> /\ Stale(d)))
         /\ IF d.first THEN Push([cmd |-> "new", paths |-> <<path>>, xmls |-> <<>>])
            ELSE IF IdOf(m) # d.ref THEN Push([cmd |-> "configure", path |-> path, ref |-> d.ref])
            ELSE UNCHANGED <<stockUndo, stockRedo, trail>>

\* SetArguments with the arguments the dialog was opened with.
Reverted(d) ==
  LET a == d.item
      to == d.old[1]
  IN [links EXCEPT !.ref[a] = d.ref,
                   !.to[a] = IF to > 0 /\ to \notin Live(childs) THEN 0 ELSE to,
                   !.dep = [i \in Ids |-> IF i \in d.old[2] THEN @[i] \cup {a} ELSE @[i] \ {a}]]

\* A new action is deleted, without a handler.  Others get their arguments back;
\* the link of a jump is the same object in both, and keeps what was applied.
Cancel ==
  GoesOn /\ \E d \in dialogs :
    LET s == IF d.first THEN Delete(Now, d.item) ELSE Now
    IN /\ dialogs' = dialogs \ {d}
       /\ IF d.item = 0 \/ (~d.first /\ d.old = <<>>) THEN UNCHANGED <<childs, on, links>>
          ELSE /\ childs' = s.childs /\ on' = s.on
               /\ links' \in IF d.first THEN {s.links}
                             ELSE {Reverted(d)} \cup (IF d.ref # 0 THEN {links} ELSE {})
       /\ mixed' = (mixed \/ Unrecorded(dialogs \ {d})
                    \/ (~d.first /\ d.item # 0 /\ links'.ref[d.item] # d.ref /\ d.old # <<>>))
       /\ UNCHANGED <<stockUndo, stockRedo, trail, dialogSame>>

-----------------------------------------------------------------------------
(***************************************************************************)
(* Undo and Redo: the state after them, with the handler for the way back. *)
(***************************************************************************)
Back(s, h) == [s |-> s, h |-> h]
NotFound(h) == Back([Now EXCEPT !.ok = FALSE], h)

\* MoveTo.Undo, which is its Redo too.
MoveBack(h) ==
  LET n == ItemAt(childs, h.path)
      p == ItemAt(childs, h.oldParentPath)
      ch == MoveItemTo(n, p, IF ParentOf(n) = p /\ Last(h.path) < h.oldPos
                             THEN h.oldPos + 1 ELSE h.oldPos)
  IN IF n < 0 \/ p < 0 THEN NotFound(h)
     ELSE Back([Now EXCEPT !.childs = ch], MoveHandler(n, ParentOf(n), ch))

\* Configure.Undo and Redo: the argument string is evaluated to a new link.
ConfigureBack(h) ==
  LET a == ItemAt(childs, h.path)
      L == [Drop(links, {a}) EXCEPT !.to[a] = 0, !.ref[a] = h.ref,
              !.pending = IF h.ref = 0 THEN @ ELSE @ \cup {<<a, h.ref>>}]
  IN IF a < 0 THEN NotFound(h)
     ELSE Back([Now EXCEPT !.links = StopUndo(L)], [h EXCEPT !.ref = links.ref[a]])

Enable(h, state) ==
  LET n == ItemAt(childs, h.path)
  IN IF n < 0 THEN NotFound(h)
     ELSE Back([Now EXCEPT !.on = IF state THEN @ \cup {n} ELSE @ \ {n}], h)

RemoveItems(h) ==
  LET s == DeleteAll(h.paths)
  IN Back(s, IF h.cmd = "new" THEN [h EXCEPT !.xmls = s.xmls] ELSE h)

UndoOf(h) == CASE h.cmd = "delete" -> Back(RestoreAll(h), h)
               [] h.cmd = "new" -> RemoveItems(h)
               [] h.cmd = "move" -> MoveBack(h)
               [] h.cmd = "configure" -> ConfigureBack(h)
               [] h.cmd = "toggle" -> Enable(h, ~h.state)

RedoOf(h) == CASE h.cmd = "delete" -> RemoveItems(h)
               [] h.cmd = "new" -> Back(RestoreAll(h), h)
               [] h.cmd = "move" -> MoveBack(h)
               [] h.cmd = "configure" -> ConfigureBack(h)
               [] h.cmd = "toggle" -> Enable(h, h.state)

Become(r) ==
  /\ GoesOn
  /\ Change(r.s)
  /\ raised' = ~r.s.ok
  /\ UNCHANGED <<macros, lastId, clip, trail, edits, pasted>>

\* Document.Undo and Redo: a handler that raises is in neither stack.
Undo ==
  /\ stockUndo # <<>>
  /\ LET r == UndoOf(Last(stockUndo))
     IN /\ Become(r)
        /\ r.h.cmd = "delete" => Fresh(r.h)
        /\ stockRedo' = IF r.s.ok THEN Append(stockRedo, r.h) ELSE stockRedo
  /\ stockUndo' = Front(stockUndo)

Redo ==
  /\ stockRedo # <<>>
  /\ LET r == RedoOf(Last(stockRedo))
     IN /\ Become(r)
        /\ r.h.cmd = "new" => Fresh(r.h)
        /\ stockUndo' = IF r.s.ok THEN Append(stockUndo, r.h) ELSE stockUndo
  /\ stockRedo' = Front(stockRedo)

Next == \/ Cut \/ MoveTo \/ Configure \/ ToggleEnable \/ NewAction
        \/ Copy \/ Paste \/ Apply \/ Confirm \/ Cancel \/ Undo \/ Redo

Spec == Init /\ [][Next]_vars

-----------------------------------------------------------------------------
Recorded == trail[Len(stockUndo) + 1]
Current == View(childs, on, links)

\* Every change of the tree has its handler.
Complete == ~mixed /\ ~Unrecorded(dialogs)

\* TreePosition: an index path finds the item it was made for, whatever other
\* handlers deleted, restored or moved meanwhile: after any commands, undos and
\* redos the items are where they were and as they were at this point of the
\* history (RestoreItem, MoveItemTo, the undo handlers).  A dialog may be open
\* all the while, if nothing was applied in it.
UndoRestoresItems ==
  Complete => ~raised /\ Current.childs = Recorded.childs /\ Current.on = Recorded.on


\* A macro knows the links that lead to it, whichever way they came about, so
\* that deleting it clears them (RemoveDependants): no jump of the tree leads
\* to an item that is gone, as long as nothing is pasted and no dialog confirms
\* a macro that was deleted while it was open.
NoDanglingJumps ==
  \A a \in Live(childs) :
    /\ links.to[a] > 0 => links.to[a] \in Live(childs) /\ a \in links.dep[links.to[a]]
    /\ links.to[a] < 0 => pasted \/ mixed

\* Doc of TreePosition: "Because previous Undo/Redo handlers might have
\* deleted/restored an item or any of its parents, they can't use any direct
\* item reference, but must use an "index path" to find the right object."  A
\* handler finds an object at its path.  It does not hold for one recorded beside
\* the dialog of a new action that is cancelled then (TreeDialog.cfg).
PathsFindItems == ~raised
=============================================================================
