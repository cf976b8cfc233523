--------------------------- MODULE RegistryReader ---------------------------
(***************************************************************************)
(* What a reader of the registry may rely on, whatever the backend: each   *)
(* part of what it knows (a declaration file, the database) was, when it   *)
(* was read, the whole content that was published then.  A reader never    *)
(* sees a part half written, and never takes up a part that has been       *)
(* replaced already.                                                       *)
(***************************************************************************)
CONSTANTS
  Parts,     \* the files of the registry
  Nothing,   \* an absent file; a part that the reader does not know
  Torn       \* a file that is not whole

VARIABLES
  stored,    \* [Parts -> contents], the registry
  view       \* [Parts -> contents], what the reader knows of it

readerVars == <<stored, view>>

Init ==
  /\ \A p \in Parts : stored[p] # Torn
  /\ view = [p \in Parts |-> Nothing]

Publish(p) ==
  /\ stored'[p] # Torn
  /\ stored' = [stored EXCEPT ![p] = stored'[p]]
  /\ UNCHANGED view

Read(p) ==
  /\ view' = [view EXCEPT ![p] = stored[p]]
  /\ UNCHANGED stored

Forget ==
  /\ \A p \in Parts : view'[p] \in {view[p], Nothing}
  /\ UNCHANGED stored

Next == (\E p \in Parts : Publish(p) \/ Read(p)) \/ Forget

Spec == Init /\ [][Next]_readerVars
=============================================================================
