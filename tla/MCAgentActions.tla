--------------------------- MODULE MCAgentActions ---------------------------
(* Instances of AgentActionsConsumer for TLC. *)
EXTENDS AgentActionsConsumer, TLC

CONSTANTS c1, c2

OneConsumer == {c1}
TwoConsumers == {c1, c2}
SecondIsPoison == {2}
NoPoison == {}

=============================================================================
