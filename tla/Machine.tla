------------------------------ MODULE Machine ------------------------------
(***************************************************************************)
(* What is around the kernel on a machine: the fleet in config.yaml, the   *)
(* drivers, the packages, the releases and the web hub.  Each behavior is  *)
(* one of one part, and the others rest; the parts share no variable.      *)
(***************************************************************************)
EXTENDS Fleet, Drivers, Packages, Releases, Hub

VARIABLE part       \* the part that takes the steps

machineVars == <<part, fleetVars, drvVars, packageVars, relVars, hubVars>>

Parts == {"fleet", "drivers", "packages", "releases", "hub"}

Init ==
    /\ part \in Parts
    /\ FleetInit /\ DriversInit /\ PackagesInit /\ ReleasesInit /\ HubInit

Next ==
    \/ part = "fleet" /\ FleetNext
          /\ UNCHANGED <<part, drvVars, packageVars, relVars, hubVars>>
    \/ part = "drivers" /\ DriversNext
          /\ UNCHANGED <<part, fleetVars, packageVars, relVars, hubVars>>
    \/ part = "packages" /\ PackagesNext
          /\ UNCHANGED <<part, fleetVars, drvVars, relVars, hubVars>>
    \/ part = "releases" /\ ReleasesNext
          /\ UNCHANGED <<part, fleetVars, drvVars, packageVars, hubVars>>
    \/ part = "hub" /\ HubNext
          /\ UNCHANGED <<part, fleetVars, drvVars, packageVars, relVars>>

Spec == Init /\ [][Next]_machineVars

\* The type invariants of the parts.
MachineTypeOK ==
    /\ part \in Parts
    /\ FleetTypeOK /\ DriversTypeOK /\ PackagesTypeOK /\ ReleasesTypeOK /\ HubTypeOK
=============================================================================
