\* A whole match under every command, as the engine executes them.
SPECIFICATION Spec
CONSTANTS
 n1 = n1
 n2 = n2
 h1 = h1
 sh = sh
 tb = tb
 NoSlot = NoSlot
 Slots <- MCSlots
 Mod <- MCMod
 FirstBan = "RED"
 FirstPick = "BLUE"
 Window <- MCWindow
 Roster <- MCRoster
 Issued <- Commands
 PlayCells <- MCPlayCells
 CalibrateTo = {0, 1}
 MaxElapsed = 2
 MaxTurn = 16
\* a decided match stops, and so does one whose bounded clock has run
CHECK_DEADLOCK FALSE
SYMMETRY MCAlike
INVARIANTS TypeOK TurnOrder BoardMatchesPool OnlyKnownRefusals EvidenceSupportsOutcome SurfaceIsExact
PROPERTIES ExpiredWindowCanBeClosed RefusalsAreKnown SuspendedIsFrozen TimeComesFromReferee
