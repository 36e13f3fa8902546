------------------------- MODULE MCWorkflowReserve -------------------------
(* Two co-allocations: a and b, joined by a stream, deliver data to c.      *)
EXTENDS WorkflowReserve, TLC

CONSTANTS a, b, c, ab, ac, bc

MCFrom == (ab :> a) @@ (ac :> a) @@ (bc :> b)
MCTo == (ab :> b) @@ (ac :> c) @@ (bc :> c)
MCTransfer == (ab :> 0) @@ (ac :> 0) @@ (bc :> 1)
MCGroups == <<{a, b}, {c}>>
MCFirst == <<a, c>>
MCDuration == (a :> 2) @@ (b :> 1) @@ (c :> 1)
=============================================================================
