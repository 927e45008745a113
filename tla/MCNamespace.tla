---------------------------- MODULE MCNamespace -----------------------------
(***************************************************************************)
(* AFS with create, rename, unlink and truncate, which no bound on written *)
(* contents keeps finite: here a run has at most MaxCalls operations that  *)
(* take more than one step, whoever starts them.                           *)
(***************************************************************************)
EXTENDS AFS, TLC

CONSTANT MaxCalls  \* bound on the operations started in a behaviour
ASSUME MaxCallsAssumption == MaxCalls \in Nat

VARIABLE calls
mcVars == <<vars, calls>>

Started == \E c \in Client : IsIdle(c) /\ op'[c].pc # "idle"

MCInit == Init /\ calls = 0
MCNext == /\ Next
          /\ calls' = IF Started THEN calls + 1 ELSE calls
          /\ calls' <= MaxCalls

MCSpec == MCInit /\ [][MCNext]_mcVars

Namespace == AllOps \ {"disconnect", "getattr"}
Symmetry  == Permutations(Client) \cup Permutations(Path)
=============================================================================
