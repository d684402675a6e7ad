------------------------------ MODULE MCServices ------------------------------
(***************************************************************************)
(* Small instances of services inside the process: the named locks (three  *)
(* processes, two keys) and the way of a scenario document through         *)
(* compiler and simulator (MCScenarioCompile).  They share no state: a     *)
(* behaviour is of one of them, which part names, and the other stays as   *)
(* it began.                                                               *)
(***************************************************************************)
EXTENDS NamedLocks, MCScenarioCompile

CONSTANTS p1, p2, p3, k1, k2, e1, e2, e3

VARIABLE part

Three == {p1, p2, p3}
TwoKeys == {k1, k2}
Heap == {e1, e2, e3}

MCInit ==
    /\ part \in {"locks", "compile"}
    /\ Init
    /\ part # "locks" => key = [p \in Processes |-> k1] /\ mine = [p \in Processes |-> e1]
    /\ IF part = "compile" THEN CompileInit
       ELSE doc = Undone /\ reg = Undone /\ compiled = Undone /\ trial = Undone
MCNext ==
    \/ part = "locks" /\ Next /\ UNCHANGED <<part, compileVars>>
    \/ part = "compile" /\ CompileNext /\ UNCHANGED <<part, vars>>

(* The fairness of the locks: where nobody asked for one nothing is due.     *)
MCFairness ==
    \A p \in Processes : SF_vars(Enter(p)) /\ WF_vars(Unlock(p)) /\ WF_vars(Drop(p))
MCSpec == MCInit /\ [][MCNext]_<<part, vars, compileVars>> /\ MCFairness
=============================================================================
