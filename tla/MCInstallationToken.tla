------------------------ MODULE MCInstallationToken ------------------------
(* Model values for model checking InstallationToken.                       *)
EXTENDS InstallationToken

CONSTANTS sweep, a, b
=============================================================================
