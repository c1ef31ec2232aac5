-------------------------------- MODULE MCSSH --------------------------------
(* Values for the constants of the run ssh_session. *)
EXTENDS SSHProperties

CONSTANTS sbatch, squeue
=============================================================================
