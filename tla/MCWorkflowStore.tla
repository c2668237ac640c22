-------------------------- MODULE MCWorkflowStore ---------------------------
EXTENDS WorkflowStore, TLC

Interchangeable == Permutations(Clients) \cup Permutations(Values)
=============================================================================
