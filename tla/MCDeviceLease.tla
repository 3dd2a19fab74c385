---------------------------- MODULE MCDeviceLease ----------------------------
(* A window that launches the queue, a night job under it and a capture    *)
(* setup under that; beside them an agent's shell, wrapper and command.    *)
EXTENDS DeviceLease

CONSTANTS window, queue, night, setup, shell, agent, command

MCProcs   == {window, queue, night, setup, shell, agent, command}
MCLeasing == MCProcs \ {queue, shell}

MCLauncher ==
  [p \in MCProcs |-> CASE p = queue -> window [] p = night -> queue [] p = setup -> night
                       [] p = agent -> shell [] p = command -> agent [] OTHER -> Host]

MCAncestors ==
  [p \in MCProcs |-> CASE p = queue -> {window} [] p = night -> {window, queue}
                       [] p = setup -> {window, queue, night} [] p = agent -> {shell}
                       [] p = command -> {shell, agent} [] OTHER -> {}]
=============================================================================
