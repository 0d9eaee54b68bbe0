------------------------------ MODULE MCAgentBus ------------------------------
(* Two runs and one worker, over either transport.                            *)
EXTENDS AgentBus

==============================================================================
