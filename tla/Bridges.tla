------------------------------ MODULE Bridges ------------------------------
(***************************************************************************)
(* A 2026 client on 2016 servers: what the three bridge plugins do for it  *)
(* between its version check and the quests it plays.                      *)
(*                                                                         *)
(*   - login_bridge26 at the Login (LoginBridge),                          *)
(*   - wm_bridge26 at the WorldManager (WorldBridge),                      *)
(*   - bridge26 in the zone: its state for a player (ZoneBridge), the      *)
(*     packets and quest data it rewrites (BridgeData), and the client     *)
(*     tables it loads (BridgeTables).                                     *)
(*                                                                         *)
(* The three are processes of their own, which a client joins one after    *)
(* the other; the bridges in them share no state, nor do the zone's tables *)
(* change once it is up.  So each is followed by itself.                   *)
(***************************************************************************)
EXTENDS LoginBridge

CONSTANTS
    kAvatarSlots, Members, Chunk,                           \* WorldBridge
    Players, Quests, kTracked, Items, Handles, Extra, Uncovered, MaxQueue,   \* ZoneBridge
    Classes, Counts, MaxItems, Rows, Slots16, Rewards,      \* BridgeData
    Tables, Companion, ClientRows, kMax, Folds, Sites       \* BridgeTables

VARIABLES
    bridge,    \* "login", "world", "zone", "data" or "tables"
    worldReal, worldMark, st, chars, relist, roster, worldHeard,
    part, zoneReal, client, online, tracked, whole, tracker, ends, announces, pending, script, crossed, down, up, dialog,
    worn, drawn, empties, extra, has, record,
    what, given, made,
    file, found, point, sites, wide, hooked, rows, slot, pc

worldVars == <<worldReal, worldMark, st, chars, relist, roster, worldHeard>>
zoneVars == <<part, zoneReal, client, online, tracked, whole, tracker, ends, announces, pending, script, crossed, down, up, dialog,
              worn, drawn, empties, extra, has, record>>
dataVars == <<what, given, made>>
tableVars == <<file, found, point, sites, wide, hooked, rows, slot, pc>>

World == INSTANCE WorldBridge WITH real <- worldReal, mark <- worldMark, heard <- worldHeard
Zone == INSTANCE ZoneBridge WITH real <- zoneReal
Data == INSTANCE BridgeData
Client == INSTANCE BridgeTables

ASSUME BridgesOK == LoginBridgeOK /\ World!WorldBridgeOK /\ Zone!ZoneBridgeOK /\ Data!BridgeDataOK /\ Client!BridgeTablesOK

\* a part that is not followed rests in one state
BridgesInit ==
    /\ bridge \in {"login", "world", "zone", "data", "tables"}
    /\ Client!Init
    /\ bridge = "tables" \/ (found /\ point /\ \A t \in DOMAIN Tables : Tables[t].kind = "layout" => file[t] = << >>)
    /\ bridge = "tables" \/ \A i \in DOMAIN sites : sites[i] = "stock"
    /\ IF bridge = "data" THEN Data!Init ELSE what = "rewards" /\ given = << << >>, << >> >> /\ made = << >>
    /\ Zone!Init
    /\ bridge = "zone" \/ (part = "quests" /\ ends)
    /\ Init /\ World!Init

BridgesNext ==
    \/ bridge = "login" /\ Next /\ UNCHANGED <<bridge, worldVars, zoneVars, dataVars, tableVars>>
    \/ bridge = "world" /\ World!Next /\ UNCHANGED <<bridge, vars, zoneVars, dataVars, tableVars>>
    \/ bridge = "zone" /\ Zone!Next /\ UNCHANGED <<bridge, vars, worldVars, dataVars, tableVars>>
    \/ bridge = "data" /\ Data!Next /\ UNCHANGED <<bridge, vars, worldVars, zoneVars, tableVars>>
    \/ bridge = "tables" /\ Client!Next /\ UNCHANGED <<bridge, vars, worldVars, zoneVars, dataVars>>

BridgesSpec == BridgesInit /\ [][BridgesNext]_<<bridge, vars, worldVars, zoneVars, dataVars, tableVars>>
-----------------------------------------------------------------------------
\* Every client is spoken to in the forms of its own protocol, whoever had its address before: the Login's replies
\* (LoginBridge) and the lengths of the WorldManager's packets (WorldBridge).
OwnForms ==
    /\ bridge = "login" => SpeaksItsLanguage
    /\ bridge = "world" => World!FormsFit

\* What a 2026 client shows is what the server has: the quests its character tracks, its equipment and the states of who
\* comes into view, no dialog left open (ZoneBridge), a slot for a new character that is free and the whole guild
\* (WorldBridge).
ClientShowsTheZone ==
    /\ bridge = "zone" => Zone!TrackerListRight /\ Zone!EquipDrawn /\ Zone!RecordStates /\ Zone!NoDialogStuck
    /\ bridge = "world" => World!OfferedSlotFree /\ World!RosterWhole

\* What is translated says the same on the other side.  To the client: the zone's packets and boxes as it takes them apart,
\* each kill at the row of its mob and the reward that was chosen (BridgeData).  To the 2016 zone, the client's own tables:
\* the checksums of a login, the order a server's file asks for, values kept or clamped, and UpgradeInfo as wide as the code
\* that reads it (BridgeTables).
TranslationsHold ==
    /\ bridge = "data" => Data!LayoutHolds /\ Data!BoxReadsBack /\ Data!CountersFollow /\ Data!RewardIsTheChosen
    /\ bridge = "tables" => Client!LoginPasses /\ Client!InLockstep /\ Client!NeverWraps /\ Client!WidthAgrees

\* No packet of a legal client, of either year, makes one of the three servers hang up (LoginBridge, WorldBridge, ZoneBridge),
\* but a 2016 client's one-time password at the Login and, in the zone, an unknown opcode whose row was hooked after the cover.
NobodyIsDropped ==
    /\ [](bridge = "login" => LegalClientsStay)
    /\ [](bridge = "zone" => Zone!LegalClientsStay)
    /\ World!LegalClientsStay

\* An echo of a close the bridge sent ends nothing in the zone, if it is back in time, and the player's own closing of a page
\* is never taken for one (ZoneBridge).
EchoesToldApart == Zone!EchoesToldApart
=============================================================================
