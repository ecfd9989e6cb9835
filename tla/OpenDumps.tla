------------------------------ MODULE OpenDumps ------------------------------
(***************************************************************************)
(* What opening the dumps of a batch promises to the merge: every dump is  *)
(* found to be readable or not, once and for all, and the readers are      *)
(* handed over in the order of the batch, each with the verdict on its own *)
(* dump.  Threads, locks and retries do not show.                          *)
(***************************************************************************)
EXTENDS Integers

CONSTANT N   \* dumps of the batch

Dumps == 1..N

VARIABLES
  outcome,   \* what became of each dump: "pending", "open" or "cant_open"
  told       \* the verdict the merge works with: "none", "open", "cant_open"

vars == <<outcome, told>>

Init ==
  /\ outcome = [d \in Dumps |-> "pending"]
  /\ told = [d \in Dumps |-> "none"]

Resolve(d) ==
  /\ outcome[d] = "pending"
  /\ \E o \in {"open", "cant_open"} : outcome' = [outcome EXCEPT ![d] = o]
  /\ UNCHANGED told

Tell(d) ==
  /\ told[d] = "none"
  /\ \A e \in Dumps : e < d => told[e] # "none"
  /\ outcome[d] # "pending"
  /\ told' = [told EXCEPT ![d] = outcome[d]]
  /\ UNCHANGED outcome

Next == \E d \in Dumps : Resolve(d) \/ Tell(d)

Spec == Init /\ [][Next]_vars

=============================================================================
