------------------------------ MODULE Hardware ------------------------------
(* The hardware the daemon changes, one part of it in each behaviour: a      *)
(* shelf's indicators and power (Enclosure), its firmware (IomFirmware) or   *)
(* drives' firmware (Firmware).  The others stay as they are at first, where *)
(* none of their fair actions is enabled.                                    *)
EXTENDS Enclosure, Firmware, IomFirmware

VARIABLE part    \* the part that is looked at
hwvars == <<part, evars, fvars, ivars>>

NoEnclosure == budget = CHOOSE b \in Budgets : TRUE
NoFirmware == node = CHOOSE n \in Nodes : TRUE
NoIom == shelf = CHOOSE s \in Shelves : TRUE

HardwareInit ==
    /\ EInit /\ FwInit /\ IomInit
    /\ \/ part = "enclosure" /\ NoFirmware /\ NoIom
       \/ part = "firmware" /\ NoEnclosure /\ NoIom
       \/ part = "shelf firmware" /\ NoEnclosure /\ NoFirmware

HardwareNext ==
    /\ part' = part
    /\ \/ part = "enclosure" /\ ENext /\ UNCHANGED <<fvars, ivars>>
       \/ part = "firmware" /\ FwNext /\ UNCHANGED <<evars, ivars>>
       \/ part = "shelf firmware" /\ IomNext /\ UNCHANGED <<evars, fvars>>

HardwareSpec == HardwareInit /\ [][HardwareNext]_hwvars
                /\ EFairness /\ FwFairness /\ IomFairness

-----------------------------------------------------------------------------
\* No firmware update takes away data: neither the last leg of a placement
\* (a drive's update, firmware.rs) nor the last path of a drive that serves
\* (an IOM's update, iomfw.rs).
UpdatesKeepAccess == FirmwareOK /\ DrivesKeepAPath
\* Every update ends, its lock given back and its drives idle, also one whose
\* IOM never answers again.
EveryUpdateEnds == UpdatesEnd /\ ShelfRunsEnd
=============================================================================
