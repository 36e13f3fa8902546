-------------------------- MODULE MCWorkflowGraph --------------------------
(* Workflows of four tasks: every choice of a few data dependencies and       *)
(* streams, among them streams from a task that does not exist, streams that  *)
(* close a cycle between co-allocations, a port with two readers, and tasks   *)
(* that take no time.                                                         *)
EXTENDS WorkflowGraph

MCTasks == 1 .. 4
MCDurations == {<<1, 1, 1, 1>>, <<2, 1, 3, 1>>, <<0, 2, 0, 1>>}
MCOuts == {[task |-> 1, port |-> "p", kind |-> "data", size |-> 5],
           [task |-> 2, port |-> "p", kind |-> "sync", size |-> 1]}
MCReaders == {[task |-> 3, from |-> 1, port |-> "p"],
              [task |-> 4, from |-> 1, port |-> "p"],
              [task |-> 4, from |-> 2, port |-> "p"]}
MCWorkflows ==
  {[dur |-> dur, outs |-> MCOuts, ins |-> ins, data |-> d, sync |-> s] :
     dur \in MCDurations,
     ins \in {{}, MCReaders, {[task |-> 4, from |-> 1, port |-> "p"]}},
     d \in SUBSET {<<1, 3>>, <<3, 2>>, <<4, 1>>, <<1, 2>>},
     s \in SUBSET {<<1, 2>>, <<2, 4>>} \cup {{<<0, 3>>, <<1, 2>>}}}
=============================================================================
