----------------------------- MODULE MCPlanningBorg -----------------------------
EXTENDS PlanningBorg, MCPlanValidation, MCAgentRuntime
=================================================================================
