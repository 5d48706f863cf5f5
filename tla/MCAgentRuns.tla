---------------------------- MODULE MCAgentRuns ----------------------------
(* A repository with a document and a module on which AgentRuns is checked. *)
EXTENDS AgentRuns

CONSTANTS Doc, Code

ChecksOf == [f \in Files |-> IF f = Code THEN {"pytest", "mypy"} ELSE {}]

\* A step's agent; or a task's, with the full index.
Apart == {Steps, Tasks \cup {Full}}
=============================================================================
