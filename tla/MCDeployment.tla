----------------------------- MODULE MCDeployment -----------------------------
EXTENDS Deployment, TLC

CONSTANTS r1, r2, c1, c2

\* Releases of either kind have names the program never compares.
Symmetry == Permutations({r1, r2}) \cup Permutations({c1, c2})

\* By hand, profiles that pin different code are left to the migration machine,
\* as the saga has them on a first install.
MCInit ==
  /\ DeploymentInit
  /\ at = "by-hand" /\ mode = "first-install" => \A r, f \in Release : codeOf[r] = codeOf[f]

MCSpec == MCInit /\ [][DeploymentNext]_deploymentVars
===============================================================================
