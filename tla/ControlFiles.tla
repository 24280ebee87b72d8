---------------------------- MODULE ControlFiles ----------------------------
(***************************************************************************)
(* The control files through which a Slurm job reports to HPK              *)
(* (compute/endpoint/paths.go): one .ip file per pod and, per container,   *)
(* a .jobid file and an .exitCode file in the pod's control-file           *)
(* directory.  The job (cmd/pause) writes them, the event listener reads   *)
(* them.                                                                   *)
(*                                                                         *)
(* Containers are numbered in the order of the pod specification: the      *)
(* init containers first, then the main ones.  Every file is written with  *)
(* os.WriteFile, which creates the file empty and then fills it, so that a *)
(* reader can meet a file that exists and has no content.                  *)
(***************************************************************************)
EXTENDS Integers

CONSTANTS NInit,   \* len(pod.Spec.InitContainers)
          NMain    \* len(pod.Spec.Containers)

\* Kubernetes admits no pod without a main container.
ASSUME ContainersAssumption ==
    /\ NInit \in Nat
    /\ NMain \in Nat \ {0}

InitContainers == 1 .. NInit
MainContainers == (NInit + 1) .. (NInit + NMain)
Containers     == 1 .. (NInit + NMain)

\* An exit code is told apart only as success or failure.
ExitCodes == {"zero", "nonzero"}

\* Contents of the .ip and .jobid files, and of the .exitCode file.
TextFile == {"absent", "empty", "written"}
CodeFile == {"absent", "empty"} \cup ExitCodes
=============================================================================
