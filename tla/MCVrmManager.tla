---------------------------- MODULE MCVrmManager ----------------------------
(* taskB of flowV takes data from taskA, over linkAB, and taskC is an exit  *)
(* task beside it; flowW has the one task taskD.  Two ADCs over one AcI.    *)
EXTENDS VrmManager, TLC

CONSTANTS flowV, flowW, taskA, taskB, taskC, taskD, linkAB, aciP, adcM, adcN, ghost

MCWorkflows == <<flowV, flowW>>
MCOf == (taskA :> flowV) @@ (taskB :> flowV) @@ (taskC :> flowV) @@ (taskD :> flowW) @@ (linkAB :> flowV)
MCData == {<<taskA, taskB>>}

\* One that can be built; every one with a child that is missing, or a cycle.
MCHierarchies ==
  {(adcM :> {aciP, adcN}) @@ (adcN :> {aciP})}
    \union {h \in [{adcM, adcN} -> SUBSET {aciP, adcM, adcN, ghost}] :
              \/ ghost \in h[adcM] \union h[adcN]
              \/ \E i \in {adcM, adcN} : i \in h[i]
              \/ adcN \in h[adcM] /\ adcM \in h[adcN]}

\* All tasks are to run; either flowV is, or flowW asks for anything.
MCRequests ==
  {f \in [{flowV, flowW, taskA, taskB, taskC, taskD} -> Proceedings] :
      /\ \/ f[flowV] = "Commit" /\ f[flowW] = "Ignore"
         \/ f[flowV] = "Ignore"
      /\ \A r \in {taskA, taskB, taskC, taskD} : f[r] = "Commit"}
=============================================================================
