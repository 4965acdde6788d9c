------------------------------ MODULE EventLog ------------------------------
(***************************************************************************)
(* What the event pipeline promises to the plugins that trigger events and *)
(* to the macros that see them, with threads, queues, program counters and *)
(* the icon left out: a plugin's next event comes when its earlier ones    *)
(* were told to end; the events of all plugins start oldest first, each at *)
(* most once; the up functions of an event are called only after it was    *)
(* told to end.  Events may be refused by a filter or a listener and are   *)
(* lost in a flush; an event that a handler executes in place passes the   *)
(* waiting ones and is never told to end.                                  *)
(***************************************************************************)
EXTENDS Integers

CONSTANTS Plugins, MaxEvents

Events == 1..MaxEvents

VARIABLES created,  (* number of events so far                             *)
          origin,   (* the plugin that triggered each event, or "eg"       *)
          told,     (* the events that were told to end                    *)
          started,  (* the events whose handlers were run                  *)
          dropped,  (* the events whose handlers never run                 *)
          ended     (* the events whose up functions were called           *)

vars == <<created, origin, told, started, dropped, ended>>

Init == /\ created = 0
        /\ origin = [e \in Events |-> "none"]
        /\ told = {} /\ started = {} /\ dropped = {} /\ ended = {}

Waiting == {e \in Events : origin[e] \in Plugins /\ e \notin started \cup dropped}

IsOldest(e) == e \in Waiting /\ \A f \in Waiting : e <= f

New(o) == /\ created < MaxEvents
          /\ created' = created + 1
          /\ origin' = [origin EXCEPT ![created'] = o]

\* A filter refuses the event when it is created.
Trigger(p) == /\ \A e \in Events : origin[e] = p => e \in told
              /\ New(p)
              /\ dropped' \in {dropped, dropped \cup {created'}}
              /\ UNCHANGED <<told, started, ended>>

InPlace == /\ New("eg")
           /\ started' = started \cup {created'}
           /\ UNCHANGED <<told, dropped, ended>>

\* An event without handlers ends with its start if it was told to.
Start(e) == /\ IsOldest(e)
            /\ started' = started \cup {e}
            /\ ended' \in {ended, ended \cup ({e} \cap told)}
            /\ UNCHANGED <<created, origin, told, dropped>>

Refuse(e) == /\ IsOldest(e)
             /\ dropped' = dropped \cup {e}
             /\ UNCHANGED <<created, origin, told, started, ended>>

\* A flush loses every waiting event but one at most.
Discard(S) == /\ \A e, f \in Waiting \ S : e = f
              /\ dropped' = dropped \cup S
              /\ UNCHANGED <<created, origin, told, started, ended>>

Tell(e) == /\ origin[e] \in Plugins
           /\ told' = told \cup {e}
           /\ UNCHANGED <<created, origin, started, dropped, ended>>

End(e) == /\ e \in told
          /\ ended' = ended \cup {e}
          /\ UNCHANGED <<created, origin, told, started, dropped>>

Next == \/ \E p \in Plugins : Trigger(p)
        \/ InPlace
        \/ \E e \in Events : Start(e) \/ Refuse(e) \/ Tell(e) \/ End(e)
        \/ \E S \in SUBSET Waiting : Discard(S)

Spec == Init /\ [][Next]_vars
=============================================================================
