---------------------------- MODULE MCPackageMain ----------------------------
(* Settings in units: 2 is seeded, 1 what it is lowered to, 3 a user's own.  *)
EXTENDS PackageMain

MCChosen == {1, 3}
=============================================================================
