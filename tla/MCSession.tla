---- MODULE MCSession ----
\* The agent's session with model values for the users.
EXTENDS AgentSession

CONSTANTS asha, ben, nobody
====
