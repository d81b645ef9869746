------------------------------ MODULE MCAgentRun ------------------------------
(* Instances of AgentRun for TLC.                                          *)
EXTENDS AgentRun, TLC

CONSTANTS a, b

OneRun == {a}
TwoRuns == {a, b}
NoRuns == {}
=============================================================================
