------------------------------ MODULE Services ------------------------------
(* The state files, the journals, the firmware images, the gate of the API  *)
(* and a call to the engine, one of them in each behaviour.  The others     *)
(* stay as they are at first, where none of their fair actions is enabled.  *)
EXTENDS Store, Journal, Images, Gate, EngineCall

VARIABLE service    \* the service that is looked at

NoStore == file = [f \in Files |-> LET v == Holding("whole", 1, <<>>) IN [now |-> v, may |-> {v}]]
           /\ budget = CHOOSE b \in Budgets : TRUE
NoJournal == chance = CHOOSE c \in Chances : TRUE
NoGate == gate = (CHOOSE g \in Gates : TRUE) /\ may
NoCallMade == scene = (CHOOSE s \in Scenes : TRUE) /\ minted = 2 /\ cached = 2 /\ opened

ServicesInit ==
    /\ SInit /\ JInit /\ ImInit /\ GInit /\ CInit
    /\ \/ service = "state files" /\ NoJournal /\ NoGate /\ NoCallMade
       \/ service = "journals" /\ NoStore /\ NoGate /\ NoCallMade
       \/ service = "images" /\ NoStore /\ NoJournal /\ NoGate /\ NoCallMade
       \/ service = "gate" /\ NoStore /\ NoJournal /\ NoCallMade
       \/ service = "engine call" /\ NoStore /\ NoJournal /\ NoGate

ServicesNext ==
    /\ service' = service
    /\ \/ service = "state files" /\ SNext /\ UNCHANGED <<jvars, imvars, gvars, cvars>>
       \/ service = "journals" /\ JNext /\ UNCHANGED <<svars, imvars, gvars, cvars>>
       \/ service = "images" /\ ImNext /\ UNCHANGED <<svars, jvars, gvars, cvars>>
       \/ service = "gate" /\ GNext /\ UNCHANGED <<svars, jvars, imvars, cvars>>
       \/ service = "engine call" /\ CNext /\ UNCHANGED <<svars, jvars, imvars, gvars>>

ServicesSpec == ServicesInit /\ [][ServicesNext]_<<service, svars, jvars, imvars, gvars, cvars>> /\ SFairness

\* One service by itself.
JournalsSpec == ServicesInit /\ service = "journals" /\ [][ServicesNext]_<<service, svars, jvars, imvars, gvars, cvars>>
ImagesSpec == ServicesInit /\ service = "images" /\ [][ServicesNext]_<<service, svars, jvars, imvars, gvars, cvars>>

-----------------------------------------------------------------------------
\* What is kept stays as it was told: the numbers of events go on over kills
\* (events.rs), no growth of a counter is missed (history.rs), and the
\* firmware image under a name is one whole upload (api/mod.rs).
KeptAsTold == StoreOK /\ JournalOK /\ ImagesOK
\* Nothing that was kept is lost: a failed save or a kill leaves the earlier
\* file (inventory.rs), and pruning only months too old (history.rs).
NothingKeptIsLost == NothingLost /\ EarlierKept
=============================================================================
