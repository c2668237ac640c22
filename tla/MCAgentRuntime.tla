---------------------------- MODULE MCAgentRuntime ----------------------------
\* One tool that is registered and allowed, one the agent is denied.
EXTENDS AgentRuntime

MCTool == {"mapper", "approval", "ghost"}
MCRegistered == {"mapper", "approval"}
MCPlans == {{}, {"mapper"}, {"mapper", "approval"}, {"mapper", "ghost"}}
=============================================================================
