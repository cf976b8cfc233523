------------------------------ MODULE ContextC ------------------------------
(***************************************************************************)
(* A program on the C interface of libcontextprovider (contextc.cpp and    *)
(* listeners.cpp above Property and Group): one service, which it          *)
(* initializes and stops any number of times; listeners for single keys    *)
(* and for groups, with a callback and with or without clearing the values *)
(* for the first subscriber; values; and maps and lists that it builds on  *)
(* the heap and hands over.                                                *)
(*                                                                         *)
(* A signal of a property goes to the listeners one after the other; the   *)
(* callback of each may set a value.  Of the clients of a key only whether *)
(* there are any is kept.  The program keeps to the documentation: it      *)
(* installs listeners before it enters the main loop, hands over maps and  *)
(* lists only while the service exists (context_provider_set_map does not  *)
(* look), and uses no map after the call that frees it.                    *)
(***************************************************************************)
EXTENDS ContextValue, Naturals, Sequences, FiniteSets

CONSTANTS
  ApiKeys,       \* keys the program installs
  Handles,       \* addresses of maps and lists
  Silence,       \* a callback that sets nothing; an address nothing is at
  MaxListeners   \* bound: listeners of one service

ASSUME ContextCAssumption ==
  /\ Silence \notin Values \cup {NoValue}
  /\ \A vs \in SUBSET Values : Silence # vs
  /\ \A k \in ApiKeys, v \in Values : Silence # <<k, v>>
  /\ IsFiniteSet(ApiKeys)
  /\ MaxListeners \in Nat

VARIABLES
  cService,   \* does the service exist?
  listeners,  \* in the order of installation: [keys, group, clears, count, told]
  looping,    \* has the program returned to its main loop since context_provider_init?
  made,       \* keys that have a PropertyPrivate, kept until the program ends
  provided,   \* [ApiKeys -> PropertyPrivate::value]
  attached,   \* keys that some client is subscribed to, PropertyPrivate::subscribed
  emission,   \* the signal being emitted: [at, key, on, fired, said]
  trees,      \* [Handles -> the values in the map or list, or Silence], the heap
  owned       \* handles the program may use, by the documentation

contextcVars == <<cService, listeners, looping, made, provided, attached, emission, trees, owned>>

-----------------------------------------------------------------------------
NoEmission == [at |-> 0, on |-> FALSE, key |-> {}, fired |-> {}, said |-> Silence]
Emitting == emission.at # 0
EmissionOf(k, on) == [at |-> 1, on |-> on, key |-> {k}, fired |-> {}, said |-> Silence]

ContextCInit ==
  /\ cService = FALSE /\ listeners = <<>> /\ looping = FALSE
  /\ made = {} /\ provided = [k \in ApiKeys |-> NoValue] /\ attached = {}
  /\ emission = NoEmission
  /\ trees = [h \in Handles |-> Silence] /\ owned = {}

HeapUnchanged == UNCHANGED <<trees, owned>>

\* context_provider_init; a second call returns 0 and does nothing.
ContextProviderInit ==
  /\ ~cService
  /\ cService' = TRUE /\ listeners' = <<>> /\ looping' = FALSE
  /\ UNCHANGED <<made, provided, attached, emission>> /\ HeapUnchanged

\* Mutant: the properties stay subscribed when the service forgets its clients.
StaySubscribed == attached

\* ServiceBackend::stop forgets the clients of all properties.
NoLongerSubscribed == {}

\* context_provider_stop: the listeners go first, so no callback hears of the end;
\* the properties and their values stay.
ContextProviderStop ==
  /\ cService /\ ~Emitting
  /\ cService' = FALSE /\ listeners' = <<>>
  /\ attached' = NoLongerSubscribed
  /\ looping' = FALSE
  /\ UNCHANGED <<made, provided, emission>> /\ HeapUnchanged

\* context_provider_install_key and context_provider_install_group.
Install(keys, group, clears) ==
  /\ cService /\ ~looping /\ Len(listeners) < MaxListeners
  /\ listeners' = Append(listeners, [keys |-> keys, group |-> group, clears |-> clears,
                                     count |-> 0, told |-> FALSE])
  /\ made' = made \cup keys
  /\ UNCHANGED <<cService, looping, provided, attached, emission>> /\ HeapUnchanged

EnterMainLoop ==
  /\ cService /\ ~looping
  /\ looping' = TRUE
  /\ UNCHANGED <<cService, listeners, made, provided, attached, emission>> /\ HeapUnchanged

\* The functions that set a value: ServiceBackend::setValue knows the keys.
ContextProviderSet(k, v) ==
  /\ cService /\ ~Emitting /\ k \in made
  /\ provided' = [provided EXCEPT ![k] = v]
  /\ UNCHANGED <<cService, listeners, looping, made, attached, emission>> /\ HeapUnchanged

-----------------------------------------------------------------------------
(* Clients come and go                                                     *)

\* The first client of a key: setSubscribed, inside the call Subscribe.
FirstClient(k) ==
  /\ looping /\ ~Emitting /\ k \in made \ attached
  /\ attached' = attached \cup {k}
  /\ emission' = EmissionOf(k, TRUE)
  /\ UNCHANGED <<cService, listeners, looping, made, provided>> /\ HeapUnchanged

LastClient(k) ==
  /\ looping /\ ~Emitting /\ k \in attached
  /\ attached' = attached \ {k}
  /\ emission' = EmissionOf(k, FALSE)
  /\ UNCHANGED <<cService, listeners, looping, made, provided>> /\ HeapUnchanged

Counted(l) == IF emission.on THEN l.count + 1 ELSE l.count - 1

\* Group::onFirstSubscriberAppeared, onLastSubscriberDisappeared; a listener of a
\* single key hears every signal.
Fires(l) == l.group => Counted(l) = IF emission.on THEN 1 ELSE 0

\* Mutant: only the key that was subscribed is cleared.
ClearedOne(l) == l.keys \cap emission.key

\* PropertyListener::clear, GroupListener::clear: all keys of the listener.
ClearedAll(l) == l.keys

\* Mutant: the callback runs first.
CallThenClear(l, k, v) ==
  [j \in ApiKeys |-> IF l.clears /\ emission.on /\ j \in ClearedAll(l) THEN NoValue
                     ELSE IF v # Silence /\ j = k THEN v ELSE provided[j]]

\* Listener::onFirstSubscriberAppeared: clear, then the callback, which may set k to v.
ClearThenCall(l, k, v) ==
  [j \in ApiKeys |-> IF v # Silence /\ j = k THEN v
                     ELSE IF l.clears /\ emission.on /\ j \in ClearedAll(l) THEN NoValue
                     ELSE provided[j]]

\* The signal reaches the listener at emission.at.
Emit(k, v) ==
  LET i == emission.at
      l == listeners[i]
  IN  /\ Emitting /\ i <= Len(listeners)
      /\ IF l.keys \cap emission.key # {}
         THEN /\ k \in l.keys
              /\ listeners' = [listeners EXCEPT ![i].count = Counted(l),
                                                ![i].told = IF Fires(l) THEN emission.on ELSE @]
              /\ IF Fires(l)
                 THEN /\ provided' = ClearThenCall(l, k, v)
                      /\ emission' = [emission EXCEPT !.at = i + 1, !.fired = @ \cup {i},
                                                      !.said = IF v = Silence THEN v ELSE <<k, v>>]
                 ELSE /\ v = Silence
                      /\ emission' = [emission EXCEPT !.at = i + 1]
                      /\ UNCHANGED provided
         ELSE /\ v = Silence
              /\ emission' = [emission EXCEPT !.at = i + 1]
              /\ UNCHANGED <<listeners, provided>>
      /\ UNCHANGED <<cService, looping, made, attached>> /\ HeapUnchanged

\* Every listener has heard the signal; Subscribe answers with the value.
EmissionOver == Emitting /\ emission.at > Len(listeners)
EndEmission ==
  /\ EmissionOver
  /\ emission' = NoEmission
  /\ UNCHANGED <<cService, listeners, looping, made, provided, attached>> /\ HeapUnchanged

-----------------------------------------------------------------------------
(* Maps and lists                                                          *)

ServiceUnchanged == UNCHANGED <<cService, listeners, looping, made, attached, emission>>

\* context_provider_map_new, context_provider_list_new
TreeNew(h) ==
  /\ ~Emitting /\ trees[h] = Silence
  /\ trees' = [trees EXCEPT ![h] = {}] /\ owned' = owned \cup {h}
  /\ ServiceUnchanged /\ UNCHANGED provided

\* context_provider_map_free, context_provider_list_free
TreeFree(h) ==
  /\ ~Emitting /\ h \in owned
  /\ trees' = [trees EXCEPT ![h] = Silence] /\ owned' = owned \ {h}
  /\ ServiceUnchanged /\ UNCHANGED provided

\* The functions that put a plain value into a map or a list.
TreeAdd(h, v) ==
  /\ ~Emitting /\ h \in owned
  /\ trees' = [trees EXCEPT ![h] = @ \cup {v}]
  /\ ServiceUnchanged /\ UNCHANGED <<owned, provided>>

\* context_provider_map_set_map, map_set_list, list_add_map, list_add_list: the
\* part is copied and freed, "becomes invalid after this call".
TreeAddTree(h, part) ==
  /\ ~Emitting /\ h \in owned /\ part \in owned \ {h}
  /\ trees' = [trees EXCEPT ![h] = @ \cup trees[part], ![part] = Silence]
  /\ owned' = owned \ {part}
  /\ ServiceUnchanged /\ UNCHANGED provided

\* Mutant: the map is freed only if its key exists.
FreesForKey(k, free) == free /\ k \in made
Frees(k, free) == free

\* context_provider_set_map, context_provider_set_list: a copy becomes the value.
SetTree(k, h, free) ==
  /\ cService /\ ~Emitting /\ h \in owned
  /\ provided' = IF k \in made THEN [provided EXCEPT ![k] = trees[h]] ELSE provided
  /\ trees' = IF Frees(k, free) THEN [trees EXCEPT ![h] = Silence] ELSE trees
  /\ owned' = IF free THEN owned \ {h} ELSE owned
  /\ ServiceUnchanged

-----------------------------------------------------------------------------
ContextCNext ==
  \/ ContextProviderInit \/ ContextProviderStop \/ EnterMainLoop
  \/ \E clears \in BOOLEAN :
       \/ \E k \in ApiKeys : Install({k}, FALSE, clears)
       \/ \E keys \in SUBSET ApiKeys : Install(keys, TRUE, clears)
  \/ \E k \in ApiKeys :
       \/ \E v \in AnyValue : ContextProviderSet(k, v)
       \/ FirstClient(k) \/ LastClient(k)
       \/ \E v \in Values \cup {Silence} : Emit(k, v)
  \/ EndEmission
  \/ \E h \in Handles :
       \/ TreeNew(h) \/ TreeFree(h)
       \/ \E v \in Values : TreeAdd(h, v)
       \/ \E part \in Handles : TreeAddTree(h, part)
       \/ \E k \in ApiKeys, free \in BOOLEAN : SetTree(k, h, free)

ContextCSpec == ContextCInit /\ [][ContextCNext]_contextcVars

-----------------------------------------------------------------------------
(* Properties                                                              *)

Listeners == [keys : SUBSET ApiKeys, group : BOOLEAN, clears : BOOLEAN, count : Nat, told : BOOLEAN]

\* The values of the variables; a group counts between none and all of its keys.
ContextCTypeOK ==
  /\ cService \in BOOLEAN /\ looping \in BOOLEAN
  /\ listeners \in Seq(Listeners) /\ Len(listeners) <= MaxListeners
  /\ \A i \in DOMAIN listeners : listeners[i].count <= Cardinality(listeners[i].keys)
  /\ made \subseteq ApiKeys /\ attached \subseteq made
  /\ provided \in [ApiKeys -> AnyValue \cup SUBSET Values]
  /\ emission.at \in 0..Len(listeners) + 1
  /\ trees \in [Handles -> {Silence} \cup SUBSET Values]
  /\ owned \subseteq Handles

\* What a callback was told last is true: 1 while some key of its listener has clients,
\* 0 otherwise, through listeners that share keys, through services that were stopped
\* with clients and started again, and for keys installed again
\* (Listener::onFirstSubscriberAppeared, Group, context_provider_stop).
CallbacksToldTruth ==
  cService /\ ~Emitting =>
    \A i \in DOMAIN listeners :
      listeners[i].told = (listeners[i].keys \cap attached # {})

\* The answer of the call that wakes a clearing listener is never a value from before:
\* it is null or what a callback said during this signal, and what the last callback
\* said is not cleared after it (Listener::onFirstSubscriberAppeared, GroupListener::clear).
FirstAnswerIsFresh ==
  EmissionOver /\ emission.on =>
    /\ emission.said # Silence => provided[emission.said[1]] = emission.said[2]
    /\ emission.said = Silence =>
         \A i \in emission.fired :
           listeners[i].clears /\ (\A j \in emission.fired : j <= i)
             => \A k \in listeners[i].keys : provided[k] = NoValue

\* Exactly the maps and lists the program may still use are on the heap: nothing leaks,
\* nothing it may use has been freed (context_provider_set_map, map_set_map, list_add_list).
HeapIsOwned == {h \in Handles : trees[h] # Silence} = owned
=============================================================================
