\* What a match with a pending tiebreaker request is offered and cannot store.
SPECIFICATION StoredMidGameSpec
CONSTANTS
 p1 = p1
 p2 = p2
 p3 = p3
 p4 = p4
 p5 = p5
 p6 = p6
 p7 = p7
 p8 = p8
 n1 = n1
 n2 = n2
 h1 = h1
 sh = sh
 tb = tb
 NoSlot = NoSlot
 Slots = {p1, p2, p3, p4, p5, p6, p7, p8, n1, n2, h1, sh, tb}
 Mod <- MCMod
 FirstBan = "RED"
 FirstPick = "BLUE"
 Window <- MCWindow
 Roster <- MCRoster
 Issued = {"REQUEST_TB", "RESPOND_TB_REQUEST", "SKIP_CURRENT_ACTION"}
 PlayCells <- MCPlayCells
 CalibrateTo = {0}
 MaxElapsed = 1
 MaxTurn = 16
\* a decided match stops, and so does one whose bounded clock has run
CHECK_DEADLOCK FALSE
INVARIANTS OffersCanBeStored
