----------------------------- MODULE Reconciler -----------------------------
(***************************************************************************)
(* What Provider promises to the layers above and below it, without the    *)
(* schedule, the call queue and the threads: the application changes what  *)
(* it wants at any time; while the plugin is up, one step at a time makes  *)
(* the set of keys the plugin keeps EQUAL to the set that is wanted; a     *)
(* plugin that comes up or goes down keeps nothing.                        *)
(***************************************************************************)
CONSTANTS Providers, Keys

VARIABLES
  wanted,   \* [Providers -> SUBSET Keys]
  kept,     \* [Providers -> SUBSET Keys], what the plugin keeps
  up        \* [Providers -> BOOLEAN]

absVars == <<wanted, kept, up>>

Init ==
  /\ wanted = [p \in Providers |-> {}]
  /\ kept   = [p \in Providers |-> {}]
  /\ up     = [p \in Providers |-> FALSE]

Want(p, k) ==
  /\ wanted' = [wanted EXCEPT ![p] = @ \cup {k}]
  /\ UNCHANGED <<kept, up>>

Unwant(p, k) ==
  /\ wanted' = [wanted EXCEPT ![p] = @ \ {k}]
  /\ UNCHANGED <<kept, up>>

ComeUp(p) ==
  /\ ~up[p]
  /\ up'   = [up EXCEPT ![p] = TRUE]
  /\ kept' = [kept EXCEPT ![p] = {}]
  /\ UNCHANGED wanted

GoDown(p) ==
  /\ up'   = [up EXCEPT ![p] = FALSE]
  /\ kept' = [kept EXCEPT ![p] = {}]
  /\ UNCHANGED wanted

Reconcile(p) ==
  /\ up[p]
  /\ kept' = [kept EXCEPT ![p] = wanted[p]]
  /\ UNCHANGED <<wanted, up>>

Next ==
  \E p \in Providers :
    \/ ComeUp(p)
    \/ GoDown(p)
    \/ Reconcile(p)
    \/ \E k \in Keys : Want(p, k) \/ Unwant(p, k)

Spec == Init /\ [][Next]_absVars

\* A plugin that stays up is reconciled again and again.
FairSpec == Spec /\ \A p \in Providers : WF_absVars(Reconcile(p))
=============================================================================
