---------------------------- MODULE OwnerVersions ----------------------------
(***************************************************************************)
(* What a state-based CRDT with one writer per id promises its users.      *)
(*                                                                         *)
(* Every owner publishes one version of its state after the other.  Every  *)
(* replica knows each owner up to some version, 0 when it has never heard  *)
(* of it.  Replicas learn only versions that have been published, never go *)
(* back, and may skip.  How they learn, from whom and after which losses   *)
(* and delays is left open: that is the business of the data types.        *)
(***************************************************************************)
EXTENDS Naturals

CONSTANTS Replica,  \* the replicas that learn
          Owner     \* those that publish

VARIABLES version,  \* version[r]: how many states r has published
          view      \* view[s][r]: the version of r that s knows

vars == <<version, view>>

Init ==
    /\ version = [r \in Owner |-> 1]
    /\ view = [s \in Replica |-> [r \in Owner |-> 0]]

\* A new state is published; its owner may know it at once or learn it later.
Publish(r) ==
    /\ version' = [version EXCEPT ![r] = @ + 1]
    /\ \/ view' = view
       \/ view' = [view EXCEPT ![r][r] = version[r] + 1]

\* What s may know after it has heard from others.
Newer(s) ==
    {known \in [Owner -> Nat] :
        \A r \in Owner : view[s][r] <= known[r] /\ known[r] <= version[r]}

Learn(s) ==
    /\ view'[s] \in Newer(s)
    /\ view' = [view EXCEPT ![s] = view'[s]]
    /\ version' = version

Next == \/ \E r \in Owner : Publish(r)
        \/ \E s \in Replica : Learn(s)

Spec == Init /\ [][Next]_vars

=============================================================================
