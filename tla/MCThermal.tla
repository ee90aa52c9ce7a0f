------------------------------ MODULE MCThermal ------------------------------
(* The bounds of the runs of Thermal: one drive whose own chip gives only a *)
(* critical limit, a processor sensor, a shelf element, one fan.            *)
EXTENDS Thermal, TLC

CONSTANTS d1, cpu1, sh1

NoLimits == [warn |-> None, crit |-> None]
OneChip == {[id |-> cpu1, chip |-> "cpu", label |-> "plain", net |-> FALSE, scsi |-> FALSE,
             limits |-> NoLimits]}
OneElement == {[id |-> sh1, status |-> "ok", overall |-> FALSE, limits |-> [warn |-> 50, crit |-> 0]]}
OneFan == {[id |-> "fan1", min |-> 500, flagged |-> FALSE]}
ChipCrit == (d1 :> [warn |-> None, crit |-> 60])
SmartBoth == (d1 :> [warn |-> 50, crit |-> 62])
DriveConfig == [warn |-> 55, crit |-> 70]
DriveTemps == (d1 :> {None, 40, 59, 61}) @@ (cpu1 :> {70}) @@ (sh1 :> {30})
TwoTemps == (d1 :> {40, 61})
Turning == {1000}
Lower == [NoSettings EXCEPT !.components[d1] = [warn |-> 45, crit |-> 80],
                            !.classes["drive"] = [warn |-> 52, crit |-> 90]]
PutLower == {Lower}

Calm == [k \in Trouble |-> 0]
Once(k) == [Calm EXCEPT ![k] = 1]
Saved == [Calm EXCEPT !["restart"] = 1, !["save"] = 1]
Ops == {Once(k) : k \in Trouble \ {"restart", "save"}} \cup {Saved}
Forgets == {Saved}
=============================================================================
