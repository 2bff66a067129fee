-------------------------------- MODULE Bmc --------------------------------
(***************************************************************************)
(* The power of a physical machine as its baseboard management controller  *)
(* changes and reports it, and toPowerState (controller/kube.go), which    *)
(* reads the report.  The BMC is outside the repository: it is modelled by *)
(* what the controllers ask of it.  bmc.power is the state of the machine, *)
(* bmc.heading the state it is on its way to.                              *)
(***************************************************************************)
CONSTANT Transients   \* the transitional states this BMC reports

ASSUME TransientsAssumption == Transients \subseteq {"PoweringOn", "PoweringOff"}

VARIABLE bmc

PowerActions == {"on", "off", "soft", "cycle", "reset", "status"}
ActionKinds  == PowerActions \cup {"boot", "media"}

Powers == [power : {"on", "off"}, heading : {"on", "off"}]

BmcTypeOK == bmc \in Powers
BmcInit   == bmc \in {b \in Powers : b.power = b.heading}

\* The states an accepted action may leave the machine in.  An operating
\* system may ignore a soft power off; a cycle and a reset pass through off.
Effects(kind) ==
  CASE kind = "on"   -> {[bmc EXCEPT !.heading = "on"]}
    [] kind = "off"  -> {[bmc EXCEPT !.heading = "off"]}
    [] kind = "soft" -> {bmc, [bmc EXCEPT !.heading = "off"]}
    [] kind \in {"cycle", "reset"} -> {[power |-> "off", heading |-> "on"]}
    [] OTHER -> {bmc}

BmcSettles ==
  /\ bmc.power # bmc.heading
  /\ bmc' = [bmc EXCEPT !.power = bmc.heading]

\* What GetPowerState may answer.
Reports ==
  IF bmc.power = bmc.heading THEN {bmc.power}
  ELSE {bmc.power, "unknown"} \cup
       (IF bmc.heading = "on" THEN Transients \cap {"PoweringOn"}
                              ELSE Transients \cap {"PoweringOff"})

\* Mutant of ToPowerState: the BMC's answer as it is.
RawPowerState(raw) == raw

\* toPowerState: an answer that contains "on" means on, else one that
\* contains "off" means off.
ToPowerState(raw) ==
  CASE raw \in {"on", "PoweringOn"}   -> "on"
    [] raw \in {"off", "PoweringOff"} -> "off"
    [] OTHER -> "unknown"
=============================================================================
