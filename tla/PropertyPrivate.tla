--------------------------- MODULE PropertyPrivate --------------------------
(***************************************************************************)
(* The value of one property that several processes provide, each with its *)
(* own PropertyPrivate (libcontextprovider/src/propertyprivate.cpp), and a *)
(* client that subscribes to each of them.                                 *)
(*                                                                         *)
(* A provider signals its value only when it differs from the one it       *)
(* signalled last, and it listens to the signals of the other providers:   *)
(* when it has heard a different, newer value it signals its own again.    *)
(* The signals of one sender reach each receiver in order, but the         *)
(* receivers and senders are not synchronized with each other.             *)
(*                                                                         *)
(* A provider also hears its own signals; they are never newer than its    *)
(* last emission and are left out.                                         *)
(***************************************************************************)
EXTENDS ContextValue, Naturals, Sequences

CONSTANTS
  Providers,  \* processes that provide the property
  MaxTime     \* bound: calls of setValue, one tick of the clock each

ASSUME PropertyAssumption == MaxTime \in Nat

VARIABLES
  clock,             \* CLOCK_MONOTONIC, the same for all processes
  value,             \* PropertyPrivate::value, the provider's intention
  timestamp,         \* PropertyPrivate::timestamp, when it was set last
  emittedValue,      \* PropertyPrivate::emittedValue
  emittedTimestamp,  \* PropertyPrivate::emittedTimestamp
  overheard,         \* PropertyPrivate::overheard
  subscribed,        \* PropertyPrivate::subscribed: the client is subscribed
  toClient,          \* replies and ValueChanged signals on their way to the client
  toProvider,        \* ValueChanged signals on their way from p to q, at <<p, q>>
  shown              \* what the client received last from each provider

intentionVars == <<value, timestamp>>
emissionVars  == <<emittedValue, emittedTimestamp, overheard>>
propertyVars  == <<clock, intentionVars, emissionVars, subscribed, toClient, toProvider, shown>>

-----------------------------------------------------------------------------
Timed(v, t) == [value |-> v, time |-> t]
Nothing == Timed(NoValue, 0)
Others(p) == {pq \in Providers \X Providers : pq[1] = p /\ pq[2] # p}

\* The constructor; the providers have been up for some time when they hear
\* each other.
Init ==
  /\ clock = 0
  /\ value = [p \in Providers |-> NoValue]
  /\ timestamp = [p \in Providers |-> 0]
  /\ emittedValue = [p \in Providers |-> NoValue]
  /\ emittedTimestamp = [p \in Providers |-> 0]
  /\ overheard = [p \in Providers |-> FALSE]
  /\ subscribed = [p \in Providers |-> FALSE]
  /\ toClient = [p \in Providers |-> <<>>]
  /\ toProvider = [pq \in Providers \X Providers |-> <<>>]
  /\ shown = [p \in Providers |-> Nothing]

\* Mutant: the signal is sent before the time stamp is brought up to date.
StampOfLast(p, t) == emittedTimestamp[p]

\* The time stamp that goes with the signal.
Stamp(p, t) == t

\* Mutant: the bookkeeping is left out while nobody is subscribed.
BooksEmission(p) == subscribed[p]

\* emittedValue and emittedTimestamp are updated in any case.
Books(p) == TRUE

Sent(wires, p, msg) ==
  [pq \in Providers \X Providers |->
     IF pq \in Others(p) THEN Append(wires[pq], msg) ELSE wires[pq]]

\* The early return of emitValue: the intention is what was emitted last.
NothingNew(p, v, t) == emittedTimestamp[p] = t /\ emittedValue[p] = v

\* emitValue, for the intention v of time t; the ValueChanged signal goes out if
\* somebody is subscribed.  `wires` is what is under way already.
EmitValue(p, v, t, wires) ==
  IF NothingNew(p, v, t)
  THEN /\ toProvider' = wires
       /\ UNCHANGED <<emittedValue, emittedTimestamp, toClient>>
  ELSE /\ IF Books(p)
          THEN /\ emittedValue' = [emittedValue EXCEPT ![p] = v]
               /\ emittedTimestamp' = [emittedTimestamp EXCEPT ![p] = t]
          ELSE UNCHANGED <<emittedValue, emittedTimestamp>>
       /\ IF subscribed[p]
          THEN /\ toClient' = [toClient EXCEPT ![p] = Append(@, Timed(v, Stamp(p, t)))]
               /\ toProvider' = Sent(wires, p, Timed(v, Stamp(p, t)))
          ELSE /\ toProvider' = wires
               /\ UNCHANGED toClient

\* Mutant: a change to the null value does not count as a change.
IgnoresNull(p, v) == v # emittedValue[p] /\ v # NoValue

\* The value differs from the one emitted last, or one of the two is null.
Differs(p, v) == v # emittedValue[p]

\* currentTimestamp: the monotonic clock, later with every call.
CurrentTimestamp == clock + 1

\* setValue: the intention is stored; it is emitted if it differs from the last
\* emission, or if a different value has been overheard since.
SetValue(p, v) ==
  /\ clock < MaxTime
  /\ clock' = clock + 1
  /\ value' = [value EXCEPT ![p] = v]
  /\ timestamp' = [timestamp EXCEPT ![p] = CurrentTimestamp]
  /\ IF Differs(p, v) \/ overheard[p]
     THEN /\ EmitValue(p, v, CurrentTimestamp, toProvider)
          /\ overheard' = [overheard EXCEPT ![p] = FALSE]
     ELSE UNCHANGED <<emissionVars, toClient, toProvider>>
  /\ UNCHANGED <<subscribed, shown>>

\* A heard value is newer than the last emission of p and differs from it.
Contradicts(heard, p) == heard.time > emittedTimestamp[p] /\ heard.value # emittedValue[p]

\* updateOverheardValue, in q: a value that contradicts the last emission is
\* recorded, and q emits its own again if it was set since.
UpdateOverheardValue(p, q) ==
  LET wire  == toProvider[<<p, q>>]
      wires == [toProvider EXCEPT ![<<p, q>>] = Tail(@)]
  IN /\ wire # <<>>
     /\ IF Contradicts(Head(wire), q)
        THEN /\ EmitValue(q, value[q], timestamp[q], wires)
             /\ overheard' = [overheard EXCEPT ![q] = NothingNew(q, value[q], timestamp[q])]
        ELSE /\ toProvider' = wires
             /\ UNCHANGED <<emissionVars, toClient>>
     /\ UNCHANGED <<clock, intentionVars, subscribed, shown>>

-----------------------------------------------------------------------------
(* The client                                                              *)

\* Subscribe; the reply has the value of PropertyAdaptor::Get.
ClientSubscribes(p) ==
  /\ ~subscribed[p]
  /\ subscribed' = [subscribed EXCEPT ![p] = TRUE]
  /\ toClient' = [toClient EXCEPT ![p] = Append(@, Timed(value[p], timestamp[p]))]
  /\ UNCHANGED <<clock, intentionVars, emissionVars, toProvider, shown>>

\* Unsubscribe; what is under way is not taken any more.
ClientUnsubscribes(p) ==
  /\ subscribed[p]
  /\ subscribed' = [subscribed EXCEPT ![p] = FALSE]
  /\ toClient' = [toClient EXCEPT ![p] = <<>>]
  /\ UNCHANGED <<clock, intentionVars, emissionVars, toProvider, shown>>

ClientReceives(p) ==
  /\ toClient[p] # <<>>
  /\ toClient' = [toClient EXCEPT ![p] = Tail(@)]
  /\ shown' = [shown EXCEPT ![p] = Head(toClient[p])]
  /\ UNCHANGED <<clock, intentionVars, emissionVars, subscribed, toProvider>>

-----------------------------------------------------------------------------
Next ==
  \E p \in Providers :
    \/ \E v \in AnyValue : SetValue(p, v)
    \/ \E q \in Providers \ {p} : UpdateOverheardValue(p, q)
    \/ ClientSubscribes(p)
    \/ ClientUnsubscribes(p)
    \/ ClientReceives(p)

Spec == Init /\ [][Next]_propertyVars

-----------------------------------------------------------------------------
(* Properties                                                              *)

TimedValues == [value : AnyValue, time : 0 .. clock]

\* The values of the variables; no time stamp lies in the future.
PropertyTypeOK ==
  /\ clock \in 0 .. MaxTime
  /\ value \in [Providers -> AnyValue]
  /\ timestamp \in [Providers -> 0 .. clock]
  /\ emittedValue \in [Providers -> AnyValue]
  /\ emittedTimestamp \in [Providers -> 0 .. clock]
  /\ overheard \in [Providers -> BOOLEAN]
  /\ subscribed \in [Providers -> BOOLEAN]
  /\ toClient \in [Providers -> Seq(TimedValues)]
  /\ toProvider \in [Providers \X Providers -> Seq(TimedValues)]
  /\ shown \in [Providers -> TimedValues]

\* The bookkeeping follows the intention although most calls of setValue emit
\* nothing and nobody may be subscribed: the value emitted last is the value
\* set last, and a contradiction is only remembered by a provider whose last
\* emission was of its latest setValue (setValue, emitValue).
BookkeepingFollows ==
  \A p \in Providers :
    /\ emittedValue[p] = value[p]
    /\ emittedTimestamp[p] <= timestamp[p]
    /\ overheard[p] => emittedTimestamp[p] = timestamp[p]

\* A subscribed client that has received what was sent shows the provider's
\* present value, although equal values are not sent, values set while nobody
\* was subscribed are only in the reply, and other providers make this one
\* signal at any time (setValue, emitValue, PropertyAdaptor::Subscribe).
ClientIsInformed ==
  \A p \in Providers : subscribed[p] /\ toClient[p] = <<>> => shown[p].value = value[p]

\* A client never receives an older time stamp from a provider than it had:
\* subscribers pick the provider with the newest one.
TimesAdvance ==
  [][\A p \in Providers : shown'[p].time >= shown[p].time]_propertyVars
=============================================================================
