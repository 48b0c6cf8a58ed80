-------------------------- MODULE MCHttpTransports --------------------------
(* Model-checking instances of HttpTransports.  One past reset, one short   *)
(* wait and one too long are the waits that the code tells apart.           *)
EXTENDS HttpTransports

CONSTANTS a, b, u, v1, v2

MCWaits == {1, 4}
=============================================================================
