------------------------ MODULE MCDeploymentHistory ------------------------
(***************************************************************************)
(* DeploymentHistory over the instances of MCDeployment.                   *)
(***************************************************************************)
EXTENDS MCDeployment, DeploymentHistory
=============================================================================
