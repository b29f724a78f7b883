---------------------------- MODULE MCPlanArena ----------------------------
(***************************************************************************)
(* Values of PlanArena's constants for TLC.                                *)
(***************************************************************************)
EXTENDS PlanArena

Config(threads, lanes, inner, innerThreads, nd) ==
  [threads |-> threads, lanes |-> lanes, inner |-> inner, innerThreads |-> innerThreads, nd |-> nd]

\* Less than the machine has, more than allowed; inner threads, with two outer lanes.
SomeConfigs ==
  {Config(1, 1, FALSE, 0, 0), Config(9, 9, FALSE, 0, 3), Config(1, 2, TRUE, 3, 0)}

Ask(lanes, threads, nd, special) ==
  [lanes |-> lanes, threads |-> threads, nd |-> nd, special |-> special]
Buffer(slot, elements) == [slot |-> slot, elements |-> elements]

\* Wide, large and narrow, with buffers, with a slot that does not exist.
SomeRequests ==
  {Ask(3, 3, 0, <<>>), Ask(1, 1, 6, <<>>), Ask(0, 0, 0, <<Buffer(0, 2), Buffer(1, 5)>>),
   Ask(2, 1, 0, <<Buffer(1, 7), Buffer(8, 1)>>)}
=============================================================================
