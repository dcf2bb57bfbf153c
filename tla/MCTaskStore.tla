------------------------------ MODULE MCTaskStore ------------------------------
EXTENDS MCExecutionStore, MCRepositorySetup, MCAgentPolicy
=================================================================================
