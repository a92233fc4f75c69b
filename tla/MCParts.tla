------------------------------- MODULE MCParts -------------------------------
(* Small instances of the client parts. *)
EXTENDS ClientParts, TLC

CONSTANTS capture, worker, agent1, agent2

\* One thread attaches a permitted field, the other a user id under a prefix.
Fields == (capture :> <<"capture", "state">>) @@ (worker :> <<"capture", "user_uid">>)

Agents == Permutations(Client)
==============================================================================
