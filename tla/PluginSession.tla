--------------------------- MODULE PluginSession ----------------------------
(***************************************************************************)
(* Sessions and plugins: the main thread's commands, the event thread's    *)
(* StartSession and StopSession, and the action thread, which alone opens, *)
(* starts, stops and closes plugins.  They talk through the two queues; a  *)
(* caller of Func waits for its answer.  Plugins may fail at each step, a  *)
(* tree file may be unreadable, and the macros events run may enable and   *)
(* disable plugins.  The dialog in which a new plugin is set up is not     *)
(* modal: every other command may run beside it.  The only items of the    *)
(* tree kept here are the plugins of the Autostart macro, and all of them  *)
(* are of one class.                                                       *)
(***************************************************************************)
EXTENDS Naturals, SequencesExt

CONSTANTS Files, Contents, (* tree files and the plugin names in each        *)
          Unreadable,      (* the files ElementTree cannot parse             *)
          FirstFile,       (* the file InitGui opens                         *)
          Failures,        (* what may fail: see FailureKinds                *)
          MaxInstances, MaxCommands, MaxEvents (* bounds                     *)

FailureKinds == {"init", "start", "stop", "delete", "fault", "timeout"}

ASSUME SessionAssumption ==
  /\ Unreadable \subseteq Files /\ FirstFile \in Files
  /\ Contents \in [Files -> Seq(Nat \ {0})] (* core plugins have 0 *)
  /\ Failures \subseteq FailureKinds
  /\ MaxInstances \in Nat /\ MaxCommands \in Nat /\ MaxEvents \in Nat

Insts == 1..MaxInstances
NoFile == "none"

VARIABLES
  (* eg.pluginList, eg.plugins and the PluginInstanceInfo objects            *)
  info,       (* started, failed (lastException), initFailed, list, names    *)
  name,       (* the evalName of each instance; core plugins have 0          *)
  core, tree, (* corePluginInfos; the plugins of autostartMacro              *)
  host,       (* the core plugin the actions of the tree belong to           *)
  enabled,    (* isEnabled of the items                                      *)
  detached,   (* items whose Delete has set info to None                     *)
  loaded,     (* "no" tree yet, "yes", or "gone": its plugins are unloaded   *)
  opened,     (* the file of the tree                                        *)
  (* the threads                                                             *)
  aq, posts, done,          (* action thread: queue, appends of its job, answer *)
  eq, epc, ereply,          (* event thread                                  *)
  mpc, mreply, mval, marg,  (* main thread                                   *)
  dialogs,                  (* dialogs of new plugins that another command   *)
                            (* ran beside, as the handlers they may push     *)
  stockUndo, stockRedo,
  commands, events,
  strays,     (* a queued Start does not know that they are disabled or      *)
              (* closed: installed drivers, a Disable in between (history)   *)
  clash,      (* CreateInstance found its name taken (history)               *)
  crossed     (* a command or the end of a session came between, or OnDelete *)
              (* raised (history)                                            *)

pluginVars == <<info, name, core, tree, host, enabled, detached, loaded, opened, strays, clash>>
actionVars == <<aq, posts, done>>
eventVars == <<eq, epc, ereply>>
mainVars == <<mpc, mreply, mval, marg, dialogs, stockUndo, stockRedo>>
vars == <<pluginVars, actionVars, eventVars, mainVars, commands, events, crossed>>

Job(op, arg, by) == [op |-> op, arg |-> arg, by |-> by]
Handler(kind, i, pos, n, on) ==
  [kind |-> kind, item |-> i, pos |-> pos, name |-> n, on |-> on]
NoHandler == Handler("none", 0, 0, 0, TRUE)
NobodyWaits == [by |-> "nobody", ok |-> TRUE, val |-> NoHandler]
PluginOps == {"start", "stop", "close", "execute", "exclusive", "fault", "delete", "setArgs"}
SessionOps == {"startSession", "stopSession"}
HandlerOps == {"undo", "redo"}
Ops == PluginOps \cup SessionOps \cup HandlerOps \cup {"toggle", "create", "macro", "event", "quit"}
Callers == {"main", "event", "nobody"}

Handlers == [kind : {"none", "new", "clear", "toggle", "configure"} \cup Files,
             item : 0..MaxInstances, pos : Nat, name : Nat, on : BOOLEAN]

\* What a job is about: a plugin, a file, a handler, or nothing (0).
IsJob(j) ==
  /\ j.op \in Ops
  /\ j.by \in Callers
  /\ j.op \in PluginOps \cup {"toggle"} => j.arg \in 1..Len(name)
  /\ j.op = "startSession" => j.arg \in Files
  /\ j.op \in HandlerOps => j.arg \in Handlers

TypeOK ==
  /\ name \in Seq(Nat) /\ Len(name) <= MaxInstances
  /\ LET Known == SUBSET (1..Len(name))
     IN /\ info \in [started : Known, failed : Known, initFailed : Known, list : Known,
                     names : SUBSET Nat, closed : Known, again : Known]
        /\ {enabled, detached, strays} \subseteq Known
  /\ core \in Seq(1..Len(name)) /\ host \in 0..Len(name)
  /\ tree \in Seq(1..Len(name)) /\ IsInjective(tree)
  /\ loaded \in {"no", "yes", "gone"} /\ opened \in Files \cup {NoFile}
  /\ \A j \in Range(aq) : IsJob(j) /\ j.op # "event"
  /\ \A j \in Range(posts) : IsJob(j) /\ j.op \in PluginOps
  /\ \A j \in Range(eq) : IsJob(j) /\ j.op \in SessionOps \cup {"event", "quit"}
  /\ done \in [by : Callers, ok : BOOLEAN, val : Handlers]
  /\ mval \in Handlers /\ marg \in Handlers /\ dialogs \subseteq Handlers
  /\ stockUndo \in Seq(Handlers) /\ stockRedo \in Seq(Handlers)
  /\ epc \in {"idle", "stopping", "starting", "ended"}
  /\ mpc \in {"idle", "unload", "create", "setup", "edit", "undo", "redo", "exit", "ended", "stuck"}
  /\ {mreply, ereply} \subseteq {"none", "ok", "raised"}
  /\ ereply # "none" => epc \in {"stopping", "starting"}
  /\ mreply # "none" => mpc \notin {"idle", "ended", "stuck"}
  /\ commands \in Nat /\ events \in Nat /\ clash \in BOOLEAN /\ crossed \in BOOLEAN

\* InitGui: the event thread is told to start the first session.
Init ==
  /\ info = [started |-> {}, failed |-> {}, initFailed |-> {}, list |-> {}, names |-> {},
             closed |-> {}, again |-> {}]
  /\ name = <<>> /\ core = <<>> /\ tree = <<>> /\ host = 0
  /\ enabled = {} /\ detached = {} /\ loaded = "no" /\ opened = NoFile
  /\ aq = <<>> /\ posts = <<>> /\ done = NobodyWaits
  /\ eq = <<Job("startSession", FirstFile, "nobody")>> /\ epc = "idle" /\ ereply = "none"
  /\ mpc = "idle" /\ mreply = "none" /\ mval = NoHandler /\ marg = NoHandler
  /\ dialogs = {} /\ stockUndo = <<>> /\ stockRedo = <<>>
  /\ commands = 0 /\ events = 0
  /\ strays = {} /\ clash = FALSE /\ crossed = FALSE

-----------------------------------------------------------------------------
(***************************************************************************)
(* PluginInstanceInfo, on the action thread.                               *)
(***************************************************************************)
\* The plugins of S that may fail.
BadSet(kind, S) == IF kind \in Failures THEN SUBSET S ELSE {{}}

\* Start, for each of S; `bad` are those whose __start__ raises.
StartOf(w, S, bad) ==
  LET called == S \ w.started
  IN [w EXCEPT !.started = @ \cup (called \ bad),
               !.failed = (@ \ called) \cup (called \cap bad),
               !.again = @ \cup (called \cap w.closed)]

\* Stop: a plugin with an exception, or not started, is left alone.
StopOf(w, S, bad) ==
  LET called == (S \cap w.started) \ w.failed
  IN [w EXCEPT !.started = @ \ called, !.failed = @ \cup (called \cap bad)]

\* Wrong: only a plugin whose __init__ failed is stopped.
CloseUnstopped(w, S, bad) ==
  LET s == StopOf(w, S \cap w.initFailed, bad)
      called == S \ w.initFailed
  IN [s EXCEPT !.closed = @ \cup called, !.again = @ \cup (called \cap w.closed)]

\* Close: Stop, then __close__.
CloseOf(w, S, bad) ==
  LET s == StopOf(w, S, bad)
      called == S \ w.initFailed
  IN [s EXCEPT !.closed = @ \cup called, !.again = @ \cup (called \cap w.closed)]

\* The plugin's name can be deleted from eg.plugins; core plugins keep theirs.
Named(w, i) == name[i] = 0 \/ name[i] \in w.names

\* Wrong: the name stays taken.
RemoveUnnamed(w, S) == [w EXCEPT !.list = @ \ {i \in S : Named(w, i)}]

\* RemovePluginInstance, for each of S: it ends where the name is not there.
RemoveOf(w, S) == [w EXCEPT !.names = @ \ {name[i] : i \in S},
                            !.list = @ \ {i \in S : Named(w, i)}]

\* CreateInstance, when the names N are free; `bad` are those whose __init__
\* raises.
CreateOf(w, S, N, bad) ==
  [w EXCEPT !.list = @ \cup S, !.names = @ \cup N, !.initFailed = @ \cup bad]

\* The name CreateInstance finds for a plugin that has none.
FirstFree(n) == n \notin info.names /\ \A k \in 1..n - 1 : k \in info.names

New == Len(name) + 1 (* the next instance *)

\* UnloadPlugins: the plugins of the tree are closed and removed one after the
\* other, up to the first that cannot be removed.
Goes(k) == /\ tree[k] \in info.list /\ Named(info, tree[k])
           /\ \A j \in 1..k - 1 : name[tree[j]] # name[tree[k]]

Unload(bad) ==
  LET reached == {tree[k] : k \in {k \in DOMAIN tree : \A j \in 1..k - 1 : Goes(j)}}
  IN RemoveOf(CloseOf(info, reached, bad), reached)

-----------------------------------------------------------------------------
(***************************************************************************)
(* The jobs of the action thread.                                          *)
(***************************************************************************)
Take(op) == /\ posts = <<>> /\ done = NobodyWaits
            /\ aq # <<>> /\ Head(aq).op = op
            /\ aq' = Tail(aq)
            /\ UNCHANGED <<eventVars, mpc, mreply, mval, marg, dialogs, commands, events>>

Answered(ok, val) ==
  done' = IF Head(aq).by = "nobody" THEN done
          ELSE [by |-> Head(aq).by, ok |-> ok, val |-> val]

\* What only sessions change, and what only jobs on items change.
aroundVars == <<core, host, loaded, opened, stockUndo, stockRedo, crossed>>
itemVars == <<info, name, tree, enabled, detached, strays, clash>>

Nothing == posts' = <<>> /\ Answered(TRUE, NoHandler)
It == Head(aq).arg

\* PluginInstanceInfo.Start, on behalf of SetArguments, RestoreState or WinUsb.
StartJob ==
  /\ Take("start") /\ Nothing
  /\ \E bad \in BadSet("start", {It}) : info' = StartOf(info, {It}, bad)
  /\ UNCHANGED <<name, tree, enabled, detached, strays, clash, aroundVars>>

StopJob ==
  /\ Take("stop") /\ Nothing
  /\ \E bad \in BadSet("stop", {It}) : info' = StopOf(info, {It}, bad)
  /\ UNCHANGED <<name, tree, enabled, detached, strays, clash, aroundVars>>

\* PluginItem.Execute.
ExecuteJob ==
  /\ Take("execute") /\ Nothing
  /\ IF It \in enabled \ detached
     THEN \E bad \in BadSet("start", {It}) : info' = StartOf(info, {It}, bad)
     ELSE UNCHANGED info
  /\ UNCHANGED <<name, tree, enabled, detached, strays, clash, aroundVars>>

\* DoIt of PluginItem.Delete: Close, OnDelete, RemovePluginInstance.  Where
\* OnDelete raises, the plugin stays in eg.pluginList and eg.plugins.
CloseJob ==
  /\ Take("close") /\ Nothing
  /\ \E bad \in BadSet("stop", {It}), raises \in BadSet("delete", {It}) :
       LET w == CloseOf(info, {It}, bad)
       IN /\ info' = IF raises = {} THEN RemoveOf(w, {It}) ELSE w
          /\ crossed' = (crossed \/ raises # {})
  /\ UNCHANGED <<name, tree, enabled, detached, strays, clash,
                 core, host, loaded, opened, stockUndo, stockRedo>>

\* HandleAction: an exception of the plugin's own class came out of a function
\* it had called here.
FaultJob ==
  /\ Take("fault") /\ Nothing
  /\ info' = [info EXCEPT !.failed = @ \cup {It}]
  /\ UNCHANGED <<name, tree, enabled, detached, strays, clash, aroundVars>>

\* SetArguments with changed arguments: Stop and Start are left to later jobs.
SetArgs(i) ==
  /\ posts' = IF i \in enabled \ detached
              THEN <<Job("stop", i, "nobody"), Job("start", i, "nobody")>> ELSE <<>>
  /\ UNCHANGED itemVars

\* RemoveChild: the first child that is the item.
Without(i) == IF i \in Range(tree) THEN RemoveAt(tree, CHOOSE k \in DOMAIN tree : tree[k] = i)
                                  ELSE tree

\* Wrong: the plugin stays open.
DeleteItemOnly(i) ==
  /\ posts' = <<>>
  /\ tree' = Without(i)
  /\ detached' = detached \cup {i}
  /\ UNCHANGED <<info, name, enabled, strays, clash>>

\* PluginItem.Delete: the plugin is closed by a later job.  A second Delete
\* raises, and the job it leaves has no plugin to close.
Delete(i) ==
  /\ posts' = IF i \in detached THEN <<>> ELSE <<Job("close", i, "nobody")>>
  /\ tree' = Without(i)
  /\ detached' = detached \cup {i}
  /\ UNCHANGED <<info, name, enabled, strays, clash>>

Queued(i) == \E k \in DOMAIN aq : aq[k].op = "start" /\ aq[k].arg = i

\* Wrong: a disabled plugin goes on.
SetEnableOnly(i, flag) ==
  /\ enabled' = IF flag THEN enabled \cup {i} ELSE enabled \ {i}
  /\ IF i \in detached \/ ~flag THEN UNCHANGED info
     ELSE \E bad \in BadSet("start", {i}) : info' = StartOf(info, {i}, bad)
  /\ strays' = IF ~flag /\ Queued(i) THEN strays \cup {i} ELSE strays
  /\ posts' = <<>>
  /\ UNCHANGED <<name, tree, detached, clash>>

\* PluginItem.SetEnable.
SetEnable(i, flag) ==
  /\ enabled' = IF flag THEN enabled \cup {i} ELSE enabled \ {i}
  /\ IF i \in detached THEN UNCHANGED info
     ELSE IF flag THEN \E bad \in BadSet("start", {i}) : info' = StartOf(info, {i}, bad)
                  ELSE \E bad \in BadSet("stop", {i}) : info' = StopOf(info, {i}, bad)
  /\ strays' = IF ~flag /\ Queued(i) THEN strays \cup {i} ELSE strays
  /\ posts' = <<>>
  /\ UNCHANGED <<name, tree, detached, clash>>

\* A new PluginItem in the tree; the constructor asserts that its name is free.
Open(n, pos, on, starts) ==
  IF n \in info.names
  THEN clash' = TRUE /\ posts' = <<>> /\ UNCHANGED <<info, name, tree, enabled, detached, strays>>
  ELSE /\ New \in Insts
       /\ \E bad \in BadSet("init", {New}) : info' = CreateOf(info, {New}, {n}, bad)
       /\ name' = Append(name, n)
       /\ tree' = IF pos > Len(tree) THEN Append(tree, New) ELSE InsertAt(tree, pos, New)
       /\ enabled' = IF on THEN enabled \cup {New} ELSE enabled
       /\ posts' = IF on /\ starts THEN <<Job("start", New, "nobody")>> ELSE <<>>
       /\ UNCHANGED <<detached, strays, clash>>

CreateJob ==
  /\ Take("create")
  /\ \E n \in 1..MaxInstances + 1 :
       /\ FirstFree(n) /\ Open(n, Len(tree) + 1, TRUE, FALSE)
       /\ Answered(TRUE, Handler("new", New, Len(tree) + 1, n, TRUE))
  /\ UNCHANGED aroundVars

SetArgsJob ==
  /\ Take("setArgs") /\ SetArgs(It) /\ Answered(It \notin detached, NoHandler)
  /\ UNCHANGED aroundVars

DeleteJob ==
  /\ Take("delete") /\ Delete(It) /\ Answered(It \notin detached, NoHandler)
  /\ UNCHANGED aroundVars

\* ToggleEnable.Do.
ToggleJob ==
  /\ Take("toggle") /\ SetEnable(It, It \notin enabled)
  /\ Answered(It \notin detached, [NoHandler EXCEPT !.on = It \notin enabled])
  /\ UNCHANGED aroundVars

\* Undo and Redo of NewPlugin, Clear, ToggleEnable and Configure; the item is
\* found by its place, and a new one taken out leaves its text in the handler.
HandlerJob(op) ==
  LET h == It
      found == h.pos \in DOMAIN tree
      i == tree[h.pos]
      deletes == h.kind = IF op = "undo" THEN "new" ELSE "clear"
      restores == h.kind = IF op = "undo" THEN "clear" ELSE "new"
  IN /\ Take(op)
     /\ \/ /\ restores /\ Open(h.name, h.pos, h.on, TRUE)
           /\ Answered(h.name \notin info.names, h)
        \/ /\ ~restores /\ ~found /\ posts' = <<>> /\ Answered(FALSE, h)
           /\ UNCHANGED itemVars
        \/ /\ deletes /\ found /\ Delete(i)
           /\ Answered(i \notin detached,
                       IF h.kind = "new" THEN [h EXCEPT !.name = name[i], !.on = i \in enabled] ELSE h)
        \/ /\ h.kind = "toggle" /\ found /\ SetEnable(i, IF op = "undo" THEN ~h.on ELSE h.on)
           /\ Answered(TRUE, h)
        \/ /\ h.kind = "configure" /\ found /\ SetArgs(i) /\ Answered(TRUE, h)
     /\ UNCHANGED aroundVars

\* Wrong: the actions of a plugin that was closed still work.
MacroJobAlways ==
  /\ Take("macro") /\ Answered(TRUE, NoHandler)
  /\ \/ posts' = <<>> /\ UNCHANGED itemVars
     \/ \E i \in Range(tree), flag \in BOOLEAN : SetEnable(i, flag)
  /\ UNCHANGED aroundVars

\* An event's macros.  Their actions do nothing while the plugin of the action
\* is not started.
MacroJob ==
  /\ Take("macro") /\ Answered(TRUE, NoHandler)
  /\ \/ posts' = <<>> /\ UNCHANGED itemVars
     \/ /\ host \in info.started
        /\ \E i \in Range(tree) :
             \/ \E flag \in BOOLEAN : SetEnable(i, flag)
             \/ /\ posts' = <<Job("exclusive", i, "nobody")>>
                /\ UNCHANGED itemVars
  /\ UNCHANGED aroundVars

\* DoIt of EnableExclusive: the item is enabled, its siblings are disabled.
ExclusiveJob ==
  LET others == Range(tree) \ {It}
      siblings == IF It \in Range(tree) THEN others ELSE {}
  IN /\ Take("exclusive") /\ Nothing
     /\ enabled' = (enabled \cup {It}) \ siblings
     /\ IF It \in detached THEN UNCHANGED info
        ELSE \E unstarted \in BadSet("start", {It}), bad \in BadSet("stop", siblings) :
               info' = StopOf(StartOf(info, {It}, unstarted), siblings, bad)
     /\ strays' = strays \cup {i \in siblings : Queued(i)}
     /\ UNCHANGED <<name, tree, detached, clash, aroundVars>>

-----------------------------------------------------------------------------
(***************************************************************************)
(* Sessions, on the action thread.                                         *)
(***************************************************************************)
\* StopSession: the plugins of the tree, then the core plugins.
StopSessionJob ==
  /\ Take("stopSession") /\ posts' = <<>>
  /\ crossed' = (crossed \/ \E k \in DOMAIN aq : aq[k].op \in PluginOps)
  /\ IF loaded = "no" THEN Answered(FALSE, NoHandler) /\ UNCHANGED <<info, loaded>>
     ELSE \E bad \in BadSet("stop", Range(tree)) :
            LET ok == \A k \in DOMAIN tree : Goes(k)
                cores == Range(core)
            IN /\ info' = IF ok THEN RemoveOf(CloseOf(Unload(bad), cores, {}), cores)
                               ELSE Unload(bad)
               /\ loaded' = IF ok THEN "gone" ELSE loaded
               /\ Answered(ok, NoHandler)
  /\ UNCHANGED <<name, core, tree, host, enabled, detached, opened, strays, clash,
                 stockUndo, stockRedo>>

\* The core plugin is opened and started; one that fails is forgotten.
CoreOpened(fails) ==
  LET w == CreateOf(info, {New}, {}, {})
  IN IF fails THEN w ELSE [w EXCEPT !.started = @ \cup {New}]

\* The items of the Autostart macro are constructed in the order of the file,
\* up to one whose name is taken.
Fresh(names, k) == names[k] \notin info.names /\ \A j \in 1..k - 1 : names[j] # names[k]

Constructed(f, count) ==
  IF f \in Unreadable THEN count = 0
  ELSE /\ \A k \in 1..count : Fresh(Contents[f], k)
       /\ count < Len(Contents[f]) => ~Fresh(Contents[f], count + 1)

\* StartSession: the core plugins, the tree, and the Autostart macro, which
\* starts the plugins.
StartSessionJob ==
  /\ Take("startSession") /\ posts' = <<>>
  /\ \E count \in 0..Len(Contents[It]), coreFails \in BOOLEAN :
       LET ok == It \notin Unreadable /\ count = Len(Contents[It])
           items == [k \in 1..count |-> New + k]
           first == SubSeq(Contents[It], 1, count)
       IN /\ Constructed(It, count) /\ New + count \in Insts
          /\ coreFails => "start" \in Failures
          /\ name' = name \o <<0>> \o first
          /\ core' = IF coreFails THEN <<>> ELSE <<New>>
          /\ \E bad \in BadSet("init", Range(items)), unstarted \in BadSet("start", Range(items)) :
               LET w == CreateOf(CoreOpened(coreFails), Range(items), Range(first), bad)
               IN info' = IF ok THEN StartOf(w, Range(items), unstarted) ELSE w
          /\ clash' = (clash \/ (It \notin Unreadable /\ ~ok))
          /\ IF ok THEN /\ tree' = items /\ host' = New /\ opened' = It /\ loaded' = "yes"
                        /\ enabled' = enabled \cup Range(items)
                   ELSE UNCHANGED <<tree, host, opened, loaded, enabled>>
          /\ Answered(ok, NoHandler)
  /\ stockUndo' = <<>> /\ stockRedo' = <<>>
  /\ UNCHANGED <<detached, strays, crossed>>

\* The job's own appends, then the answer to the caller that waits for it.
Post ==
  /\ posts # <<>> /\ posts' = Tail(posts)
  /\ aq' = Append(aq, Head(posts))
  /\ UNCHANGED <<pluginVars, done, eventVars, mainVars, commands, events, crossed>>

Answer ==
  /\ posts = <<>> /\ done.by # "nobody" /\ done' = NobodyWaits
  /\ IF done.by = "main"
     THEN mreply' = (IF done.ok THEN "ok" ELSE "raised") /\ mval' = done.val /\ UNCHANGED ereply
     ELSE ereply' = (IF done.ok THEN "ok" ELSE "raised") /\ UNCHANGED <<mreply, mval>>
  /\ UNCHANGED <<pluginVars, aq, posts, eq, epc, mpc, marg, dialogs, stockUndo, stockRedo,
                 commands, events, crossed>>

ActionThread ==
  \/ StartJob \/ StopJob \/ ExecuteJob \/ CloseJob \/ FaultJob
  \/ CreateJob \/ SetArgsJob \/ DeleteJob \/ ToggleJob
  \/ HandlerJob("undo") \/ HandlerJob("redo") \/ MacroJob \/ ExclusiveJob
  \/ StopSessionJob \/ StartSessionJob \/ Post \/ Answer

-----------------------------------------------------------------------------
(***************************************************************************)
(* The event thread.                                                       *)
(***************************************************************************)
eventSame == <<pluginVars, posts, done, mpc, mval, marg, dialogs, stockUndo, stockRedo,
               commands, events, crossed>>

\* StopSession and StartSession wait for the action thread; an event is only
\* handed on.
TakeEvent ==
  LET j == Head(eq)
  IN /\ epc = "idle" /\ eq # <<>> /\ eq' = Tail(eq)
     /\ \/ /\ j.op = "stopSession" /\ epc' = "stopping"
           /\ aq' = Append(aq, Job("stopSession", 0, "event"))
        \/ /\ j.op = "startSession" /\ epc' = "starting"
           /\ aq' = Append(aq, Job("startSession", j.arg, "event"))
        \/ j.op = "event" /\ aq' = Append(aq, Job("macro", 0, "nobody")) /\ UNCHANGED epc
        \/ j.op = "quit" /\ epc' = "ended" /\ UNCHANGED aq
     /\ UNCHANGED <<ereply, mreply, eventSame>>

\* The answer came; the main thread waits for the one of StopSession.
SessionAnswered ==
  /\ ereply # "none" /\ ereply' = "none"
  /\ epc' = "idle"
  /\ mreply' = IF epc = "stopping" THEN ereply ELSE mreply
  /\ UNCHANGED <<aq, eq, eventSame>>

\* The 120 seconds of Func are over: the job stays where it is.
TimeOut ==
  LET Unheard(j) == IF j.by = "event" THEN [j EXCEPT !.by = "nobody"] ELSE j
  IN /\ "timeout" \in Failures
     /\ epc \in {"stopping", "starting"} /\ ereply = "none"
     /\ epc' = "idle"
     /\ aq' = [k \in DOMAIN aq |-> Unheard(aq[k])]
     /\ done' = IF done.by = "event" THEN NobodyWaits ELSE done
     /\ mreply' = IF epc = "stopping" THEN "raised" ELSE mreply
     /\ UNCHANGED <<pluginVars, posts, eq, ereply, mpc, mval, marg, dialogs, stockUndo,
                    stockRedo, commands, events, crossed>>

EventThread == TakeEvent \/ SessionAnswered

-----------------------------------------------------------------------------
(***************************************************************************)
(* The main thread and whatever else posts work.                           *)
(***************************************************************************)
Session(j) == j.op \in SessionOps

\* The dialog of a new plugin is shown; it is not modal.
DialogShown == mpc = "create" /\ mreply = "ok"

\* Nothing is under way that the user's next command does not wait for: a
\* change of sessions, the dialog of a new plugin, or the removal of one whose
\* dialog was cancelled.
Settled ==
  /\ loaded = "yes" /\ epc \notin {"stopping", "starting"}
  /\ ~DialogShown /\ dialogs = {}
  /\ \A k \in DOMAIN eq : ~Session(eq[k])
  /\ \A k \in DOMAIN aq : ~Session(aq[k]) /\ aq[k].op # "delete"
  /\ \A k \in DOMAIN posts : posts[k].op # "close"

mainSame == <<pluginVars, posts, done, epc, ereply, events>>

\* The user gives a command, beside the dialog that is shown.
Commanded ==
  /\ commands < MaxCommands /\ commands' = commands + 1
  /\ \/ mpc = "idle" /\ UNCHANGED <<dialogs, mreply, mval>>
     \/ DialogShown /\ dialogs' = dialogs \cup {mval} /\ mreply' = "none" /\ mval' = NoHandler

\* A command that waits for `job`, then goes on at `pc`.
AskAnyway(job, pc, h) ==
  /\ Commanded
  /\ aq' = Append(aq, job) /\ mpc' = pc /\ marg' = h
  /\ UNCHANGED <<mainSame, eq>>

Ask(job, pc, h) == AskAnyway(job, pc, h) /\ crossed' = (crossed \/ ~Settled)

\* Document.StartSession, for New and Open.
OpenFile(f) ==
  /\ Commanded
  /\ eq' = Append(eq, Job("stopSession", 0, "main")) /\ mpc' = "unload"
  /\ marg' = [NoHandler EXCEPT !.kind = f]
  /\ crossed' = (crossed \/ ~Settled)
  /\ UNCHANGED <<mainSame, aq, stockUndo, stockRedo>>

Got(pc) == /\ mpc = pc /\ mreply # "none" /\ mreply' = "none"
           /\ marg' = NoHandler /\ mval' = NoHandler
           /\ UNCHANGED <<mainSame, dialogs, commands, crossed>>

Unloaded ==
  /\ Got("unload") /\ mpc' = "idle"
  /\ eq' = IF mreply = "ok" THEN Append(eq, Job("startSession", marg.kind, "nobody")) ELSE eq
  /\ UNCHANGED <<aq, stockUndo, stockRedo>>

AddPlugin ==
  Ask(Job("create", 0, "main"), "create", NoHandler) /\ UNCHANGED <<stockUndo, stockRedo>>

Push(h) == stockUndo' = Append(stockUndo, h) /\ stockRedo' = <<>>

\* TreePosition: an item that is not in the tree has no place in it.
Nowhere == MaxInstances + 1
Place(i) == IF i \in Range(tree) THEN CHOOSE k \in DOMAIN tree : tree[k] = i ELSE Nowhere
Store(h) == Push([h EXCEPT !.pos = Place(h.item)])

\* NewPlugin.Do after the item is there: without a dialog, or with one that
\* is confirmed as it is; Apply and OK with changed arguments; Cancel.
Created ==
  /\ mpc = "create" /\ mreply # "none" /\ mreply' = "none"
  /\ UNCHANGED <<mainSame, eq, dialogs, commands, crossed>>
  /\ \/ /\ mreply = "raised" /\ mpc' = "idle" /\ marg' = NoHandler /\ mval' = NoHandler
        /\ UNCHANGED <<aq, stockUndo, stockRedo>>
     \/ /\ mreply = "ok" /\ mpc' = "idle" /\ marg' = NoHandler /\ mval' = NoHandler
        /\ mval.item \notin detached
        /\ aq' = Append(aq, Job("execute", mval.item, "nobody")) /\ Store(mval)
     \/ /\ mreply = "ok" /\ mpc' = "setup" /\ marg' = mval /\ mval' = NoHandler
        /\ aq' = Append(aq, Job("setArgs", mval.item, "main"))
        /\ UNCHANGED <<stockUndo, stockRedo>>
     \/ /\ mreply = "ok" /\ mpc' = "idle" /\ marg' = NoHandler /\ mval' = NoHandler
        /\ aq' = Append(aq, Job("delete", mval.item, "nobody"))
        /\ UNCHANGED <<stockUndo, stockRedo>>

\* SetArguments was called for OK, or for Apply, or to take back what was
\* applied: then the dialog is still shown, or only Cancel is left to do.
SetUp ==
  /\ mpc = "setup" /\ mreply # "none" /\ marg' = NoHandler
  /\ UNCHANGED <<mainSame, eq, dialogs, commands, crossed>>
  /\ \/ /\ mpc' = "idle" /\ mreply' = "none" /\ mval' = NoHandler
        /\ IF mreply = "ok"
           THEN aq' = Append(aq, Job("execute", marg.item, "nobody")) /\ Store(marg)
           ELSE UNCHANGED <<aq, stockUndo, stockRedo>>
     \/ /\ mreply = "ok" /\ mpc' = "create" /\ mreply' = "ok" /\ mval' = marg
        /\ UNCHANGED <<aq, stockUndo, stockRedo>>

\* The user comes back to a dialog that another command ran beside.
DialogAgain ==
  /\ mpc = "idle"
  /\ \E h \in dialogs : dialogs' = dialogs \ {h} /\ mval' = h
  /\ mpc' = "create" /\ mreply' = "ok" /\ crossed' = TRUE
  /\ UNCHANGED <<mainSame, eq, aq, marg, stockUndo, stockRedo, commands>>

\* The plugins whose first dialog is open.
InDialog == {h.item : h \in dialogs} \cup (IF DialogShown THEN {mval.item} ELSE {})

\* Clear.Do, ToggleEnable.Do, and the OK or Apply of Configure.Do, on a plugin
\* of the tree.
Edit(k) ==
  LET i == tree[k]
  IN /\ \/ Ask(Job("delete", i, "main"), "edit", Handler("clear", i, k, name[i], i \in enabled))
        \/ Ask(Job("toggle", i, "main"), "edit", Handler("toggle", i, k, 0, TRUE))
        \/ /\ i \notin InDialog
           /\ Ask(Job("setArgs", i, "main"), "edit", Handler("configure", i, k, 0, TRUE))
     /\ UNCHANGED <<stockUndo, stockRedo>>

\* OK or Apply of Configure.Do on a plugin that left the tree meanwhile.
EditLeft(i) ==
  /\ name[i] # 0 /\ i \in (detached \cup info.closed) \ (Range(tree) \cup InDialog)
  /\ AskAnyway(Job("setArgs", i, "main"), "edit", Handler("configure", i, Nowhere, 0, TRUE))
  /\ crossed' = TRUE
  /\ UNCHANGED <<stockUndo, stockRedo>>

\* Configure.Do pushes no handler for Apply and for arguments that are as they
\* were.
Edited ==
  /\ Got("edit") /\ mpc' = "idle" /\ UNCHANGED <<eq, aq>>
  /\ \/ /\ mreply = "ok"
        /\ Push(IF marg.kind = "toggle" THEN [marg EXCEPT !.on = mval.on] ELSE marg)
     \/ /\ mreply = "raised" \/ marg.kind = "configure"
        /\ UNCHANGED <<stockUndo, stockRedo>>

\* Document.Undo and Redo; a handler that raises is lost.
Undo ==
  /\ stockUndo # <<>> /\ stockUndo' = Front(stockUndo) /\ UNCHANGED stockRedo
  /\ Ask(Job("undo", Last(stockUndo), "main"), "undo", NoHandler)

Undone ==
  /\ Got("undo") /\ mpc' = "idle" /\ UNCHANGED <<eq, aq, stockUndo>>
  /\ stockRedo' = IF mreply = "ok" THEN Append(stockRedo, mval) ELSE stockRedo

Redo ==
  /\ stockRedo # <<>> /\ stockRedo' = Front(stockRedo) /\ UNCHANGED stockUndo
  /\ Ask(Job("redo", Last(stockRedo), "main"), "redo", NoHandler)

Redone ==
  /\ Got("redo") /\ mpc' = "idle" /\ UNCHANGED <<eq, aq, stockRedo>>
  /\ stockUndo' = IF mreply = "ok" THEN Append(stockUndo, mval) ELSE stockUndo

\* DeInit; when StopSession raises, the threads are not stopped.
Exit == Ask(Job("stopSession", 0, "main"), "exit", NoHandler) /\ UNCHANGED <<stockUndo, stockRedo>>

Exited ==
  /\ Got("exit") /\ UNCHANGED <<stockUndo, stockRedo>>
  /\ IF mreply = "ok"
     THEN /\ mpc' = "ended"
          /\ aq' = Append(aq, Job("quit", 0, "nobody"))
          /\ eq' = Append(eq, Job("quit", 0, "nobody"))
     ELSE mpc' = "stuck" /\ UNCHANGED <<aq, eq>>

MainGoesOn == Unloaded \/ Created \/ SetUp \/ DialogAgain \/ Edited \/ Undone \/ Redone \/ Exited

Command == \/ \E f \in Files : OpenFile(f)
           \/ AddPlugin \/ (\E k \in DOMAIN tree : Edit(k)) \/ (\E i \in DOMAIN name : EditLeft(i))
           \/ Undo \/ Redo \/ Exit

\* An event; a function of a plugin of the tree, handed over with Call, that
\* will raise the plugin's exception; the end of a driver installation.
Outside ==
  /\ events < MaxEvents /\ events' = events + 1
  /\ \/ eq' = Append(eq, Job("event", 0, "nobody")) /\ UNCHANGED <<aq, strays>>
     \/ /\ "fault" \in Failures
        /\ \E i \in info.started : name[i] # 0 /\ aq' = Append(aq, Job("fault", i, "nobody"))
        /\ UNCHANGED <<eq, strays>>
     \/ /\ \E i \in info.failed : /\ aq' = Append(aq, Job("start", i, "nobody"))
                                  /\ strays' = strays \cup {i}
        /\ UNCHANGED eq
  /\ UNCHANGED <<info, name, core, tree, host, enabled, detached, loaded, opened, clash, posts,
                 done, epc, ereply, mainVars, commands, crossed>>

Next == ActionThread \/ EventThread \/ TimeOut \/ MainGoesOn \/ Command \/ Outside

Spec == Init /\ [][Next]_vars

-----------------------------------------------------------------------------
Quiet == /\ aq = <<>> /\ posts = <<>> /\ done = NobodyWaits /\ eq = <<>> /\ epc = "idle"
         /\ mpc = "idle" /\ loaded = "yes"

\* The life PluginBase documents: __close__ is called once and __start__ never
\* after it, although Start, Stop and Close are jobs that wait in a queue while
\* macros run and sessions change (PluginInstanceInfo, PluginItem).
ClosedStaysClosed == info.again \subseteq strays \/ crossed

\* When nothing is under way, eg.plugins and eg.pluginList hold the plugins of
\* the tree, under the names the items have, and the core plugins.
ListIsTree ==
  Quiet /\ ~crossed => /\ {i \in info.list : name[i] # 0} = Range(tree)
                       /\ info.names = {name[i] : i \in Range(tree)}
                       /\ Range(core) \subseteq info.list

\* Doc of __start__: "If your plugin is loaded and enabled by the user, this
\* method will be called"; of __stop__: "If the user disables the plugin, this
\* method will be called."  When nothing is under way the enabled plugins of the
\* tree are those that run, except for one whose last call failed or whose
\* exception came out of HandleAction, which Stop leaves alone, and one that a
\* queued Start found disabled.
EnabledIsStarted ==
  Quiet /\ ~crossed =>
    /\ Range(tree) \cap enabled \subseteq info.started \cup info.failed
    /\ (Range(tree) \ enabled) \cap info.started \subseteq info.failed \cup strays

\* The assertion of CreateInstance holds: a plugin that is restored or loaded
\* finds the name it had free again, for the instance that had it was removed
\* in a job queued before.
NamesAreFree == ~clash \/ crossed

\* The same assertion for Undo and Redo alone, whatever dialog was open and
\* whatever OnDelete did: an item that was taken out comes back under its name.
\* It does not hold, for either reason (PluginDialog.cfg, PluginDelete.cfg).
RestoredNameIsFree == [][clash' # clash => Head(aq).op \notin HandlerOps]_vars

\* DeInit: when the action thread has come to its end, every plugin was
\* stopped, except one with an exception and one that a queued Start found.
ExitClosesPlugins ==
  mpc = "ended" /\ (aq # <<>> /\ Head(aq).op = "quit") =>
    info.started \subseteq info.failed \cup strays \/ crossed
=============================================================================
