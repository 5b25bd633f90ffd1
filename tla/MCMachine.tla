----------------------------- MODULE MCMachine ------------------------------
(***************************************************************************)
(* Instances, for TLC, of the parts of a machine.                          *)
(***************************************************************************)
EXTENDS Machine

CONSTANTS app, drv, lib

\* The bundle of a PAI, a driver that it lists, a library that the driver needs.
DepsChain == (app :> <<drv>>) @@ (drv :> <<lib>>) @@ (lib :> << >>)
=============================================================================
