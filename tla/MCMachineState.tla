--------------------------- MODULE MCMachineState ---------------------------
(* An instance of MachineState for TLC: two collectors.                    *)
EXTENDS MachineState

CONSTANTS system, wsl

MCCollectors == {system, wsl}
=============================================================================
