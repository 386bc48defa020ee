# Patch recipes for the Fiesta servers and client: the verification project

The repository changes closed-source 32-bit programs in two ways. **Recipes** (JSON files) are
applied to the PE images on disk by `apply.py`, one process per recipe, and `build.py` chains them
into a build. **Plugins** (DLLs) are loaded into the running program by a loader that a recipe adds
to the import table; they detour functions, swap entries of the servers' protocol tables, and some
of them talk to each other across servers. The modules here model the machinery that builds and loads all of
this, the features whose state spans several steps, players or servers - the Void Inventory, extra titles, quests,
gates and instances, the bridges that let a 2026 client play on 2016 servers - and the one client plugin with
threads of its own, the remote control. They are checked with TLC on
small instances, and the most important results are proved with TLAPS for all values of the
constants.

## The system and its parts

| Part | State it keeps | Operations | What is hard | What makes it correct |
|---|---|---|---|---|
| Recipe runner (`apply.py`) | the image: sections, two shared arenas with a mark each, the directory of regions, imports, relocations | reserve, blob, edit, import, relocate, verify, write | a chain of separate processes agrees only through marks in the image; refusals after half the work; a kill during the write | regions never overlap, the directory is current, an image consists of whole recipes |
| Chain builder (`build.py`) | temporary files, the chain | apply each, verify all on the result, copy | later recipes can undo earlier ones | a finished build holds every recipe |
| Loader (`common/loader`) | table of plugins, callbacks, the once-flag | hook the service table, list, resolve `after=`, LoadLibrary, callbacks | a second service thread, cycles, missing and failing plugins, full tables | each plugin once, after what it names; plugins before the program |
| Protocol tables (`hook_core.h`, `hook::proto`) | rows and default row, swaps, originals per thunk | hook opcode or department, cover, uninstall | hooks of several DLLs on one entry, rows shared by default, full list of swaps | a packet meets the callbacks that asked for it, then the server's handler; uninstalling leaves nothing |
| Code detours, arena lookup, config and log (`hook_core.h`) | list of detours | detour, undetour, look up, log | instruction lengths, threads logging | - (not modelled) |
| Void Inventory (`void_bag` in the zone, `char_void` in Character) | one bag per pooled player object, page unlocks, list requests | login, list request, chunked replies, moves, page items | pooled objects reused, replies that name only the character, lists in several parts, lost and refused lists | no two rows in one cell, a usable bag equals the rows, nobody sees another's items |
| Character's packers (`character/include`) | - | pack rows into replies, rules per query | size limits, styles | not modelled beyond bag 18's lists |
| Login bridge (`login_bridge26`) | per session address: kind of client, numbering shift, world | translate, substitute, drop, answer | a cipher stream both ends advance by what they send and parse; addresses reused by clients of another year | both positions agree after every packet, each client hears its own protocol, nobody legal but a client with a one-time password is hung up on |
| World bridge (`wm_bridge26`) | per session address: kind, slots of the last avatar list | widen replies, call the 2016 handler of another opcode, answer, drop | one opcode with two meanings by year, lists in chunks, a slot computed from an earlier list | lengths fit the year, the offered slot is free after erases too, the guild list ends when it is whole |
| Zone bridge (`bridge26`) | per player object: client, tracked quests, a close under way, folded slots; per handle: extra states; the client's tables | translate every packet to and from a 2026 client, convert the client's tables while the zone reads them | reused objects and handles, an echo that looks like the player's own close, tables in step with a server's file, patched instructions | the client shows what the zone has, an echo and the player's own close are told apart, checksums and widths agree |
| Instances (`indun_solo`, `indun_party_scale`, `leave_command`, `instance_dismantle`, `wm_indun_solo`) | the zone's parties and instances, a cached cluster | enter, inherit, warn, buff, reset, ask | joins and leaves in any order over several hooks, in two servers | the buff fits the members on the map, one enters by right only, the owners are asked |
| Gates (`rid_gate`, `quest_gate`; `menu_escape` in the client) | two rings of 64 menu records; the client's left-over reply | build a menu, answer it, escape it | rings shared by all players, menus left open | a button leads where it was drawn for, a gated map wants its quest, Escape enters nothing |
| Quests (`quest_track`, `quest_exp`, `quest_item_enough`, `quest_abandon`, `quest_ext` and others) | tracked bits, counters past the five, give-ups and rewards under way | track, kill, drop, pick up, hand in, give up, reward | answers of a database matched by value, eight plugins around the same stock functions, legal sequences past a limit | tracker and readiness agree with the records, items add up, each reward once, in full and promised |
| Storage (`title_ext`, `guild_storage_ext`, `vault_jobs`) | side tables by object or guild; the vault being opened | read, write, clear; check and refuse | reuse of objects, an answer gathered over several calls | one title set per player, a vault gives nothing to a stranger where its roll shows that he is one |
| Other zone and WorldManager plugins | little or none | one changed decision each | the decision lies in closed code | not modelled |
| Remote control (`client/plugins/remote_control`) | a request slot for windows, one for frames, injected input per device, the login form's handles, the wanted world and character | `wins`, `ctl`, `shot`, `-burst`, `key`, `say`, `move`, `click`, `wheel`, `-stdinlogin`, `-world`, `-char`, `char` | a serve thread, a burst thread and a login thread against the game's thread; waits that run out; devices read in any order and in parts; a focus that moves by itself | a command gets its own answer, an ok means a written file, each input reaches the game once and whole, the password goes to its field, the asked character is entered |
| Other client plugins | window state | one changed call each | - | not modelled but for `menu_escape` |
| Generators (`mk_*.py`, `client_sigs.py`), bindings, recipes' data | - | print headers and recipes | - | not modelled |

How they interact: `build.py` runs `apply.py`; a loader recipe makes the program import the loader;
the loader calls plugins through `LoadLibrary` and callbacks; plugins reach the program through
`hook_core.h` and find the regions of their recipes through the arena directory that `apply.py`
wrote; `void_bag` asks Character for lists over the server link, where `char_void` answers. A 2026 client meets the
three bridges one after the other: Login, WorldManager, zone. `quest_exp` and `quest_abandon` wait for Character's
answers; `indun_solo` and `leave_command` in the zone act on instances that `wm_indun_solo` in the WorldManager counts
down; a gate's button (`rid_gate`) ends in the entry `indun_solo` hooks.
`PROJECT.json` lists every part under `components` with its files, and under `hazards` what is hard
to test, each at its line.

## The modules

| Module | Models | Role |
|---|---|---|
| `PatchImage` | class `Pe` and the steps of `apply.py` as pure operators on an image | algorithms |
| `PatchRun` | runs of `apply.py` and `build.py` over files, with kills | state machine |
| `ItemStorage` | what an item store promises: legal relocations and swaps | abstract specification |
| `VoidBag` | `void_bag` and `char_void` with the messages between them | state machine, fairness, implements `ItemStorage` |
| `TitleSet` | what the zone expects of a title object | abstract specification |
| `TitleExt` | `title_ext` | state machine, implements `TitleSet` |
| `VaultJobs` | `vault_jobs` | state machine |
| `ZoneStorage` | `VoidBag`, `TitleExt`, `VaultJobs` | composition |
| `Loader` | `service_hook.cpp`, `dllmain.cpp`, `plugins.cpp` | state machine, fairness |
| `RemoteCalls` | `wins`, `ctl`, `shot` and `-burst`: calls into the game's thread | state machine, fairness |
| `LoginForm` | `auto_login` on the client's form | state machine, fairness |
| `CharSelect` | `auto_world_tick`, `auto_char_tick`, the `char` command | state machine, fairness |
| `Unattended` | `LoginForm` and `CharSelect`, the two ways the plugin acts on its own | composition |
| `Startup` | `Loader`, `Unattended`, `RemoteCalls` | composition |
| `ProtocolTable` | namespace `hook::proto` with several plugins | state machine |
| `RemoteInput` | injected keyboards and mice, and the commands as programs of steps | state machine |
| `HookPoints` | `ProtocolTable`, `RemoteInput` | composition |
| `QuestBook` | the quest plugins of the zone around one player's records, bag and ground | state machine |
| `QuestReward` | `quest_exp` | state machine |
| `QuestPlay` | `QuestBook`, `QuestReward` | composition |
| `GateMenu` | `rid_gate`, `quest_gate`, `menu_escape` | state machine |
| `Instances` | `indun_solo`, `indun_party_scale`, `leave_command`, `wm_indun_solo` | state machine |
| `Dungeons` | `GateMenu`, `Instances` | composition |
| `LoginBridge` | `login_bridge26` with the Login's parser and both ends' stream positions | state machine |
| `WorldBridge` | `wm_bridge26` | state machine |
| `ZoneBridge` | `bridge26.cpp`: what is kept for a player and what becomes of each packet | state machine |
| `BridgeData` | `bridge26_translate.h`, `bridge26_items.h`, counter and reward rows: bytes and numbers | algorithms against how the client reads them |
| `BridgeTables` | `bridge26_tables.h` | state machine |
| `Bridges` | the five | composition |
| `PatchProofs` | - | theorems about `PatchRun` |
| `StartupProofs`, `HookProofs`, `StorageProofs`, `QuestProofs`, `DungeonProofs`, `BridgeProofs` | - | theorems about a composition and, first, about its components |
| `Induction` | - | induction over the natural numbers as sets, first and last numbers: what the other proofs need of it |
| `MC*` | - | small instances for TLC |

The compositions join parts that share no variable, because they run in different programs or at different times. Each
chooses in its initial state which part is followed (`part`, `bridge`), and the parts that are not rest in one state.
So the state graph is the sum of the parts' graphs and not their product, and nothing is lost by it: no step of one
part enables or disables a step of another. Where parts do interact - the client's form with its thread, the zone with
Character, the plugins in one table, eight quest plugins on one record - they are actions of one module.

A definition of a module that is named `SomethingAnyway`, `...OneMore`, `...Late` and the like, with
a comment that begins "a mistake" or "mutated:", is not part of the specification. It is the form a
plausible bug would give the definition that follows it, and is kept to show that a property notices.

### PatchImage and PatchRun

`PatchImage` keeps of an image what recipes depend on: the value at each edited site and operand,
whether the arenas exist, `usedX`/`usedD` (the marks in the arena header), the virtual and raw size
of the data arena, `dir` (the directory), imports and relocations, plus two histories: `given`, the
regions handed out, and `did`, the recipes applied. Each operator returns the next image or
`Refused`, where the code raises `SystemExit` or `ValueError` before anything is written. Names
follow the code: `Align`, `Ensure` arenas, `Carve` a region, `ArenaRecord`, `AddImport`,
`AddRelocations`, edits checked against `expect`, then the closing checks. Sizes are in an arbitrary
unit: the cfg uses alignments 16/4/2 where the code has 0x1000/0x200/16, so that all roundings
differ from each other as they do in the code. An expression (`@newbase+8`) is one of a few values;
its parser is not modelled.

`PatchRun` has an action for starting `apply.py` by hand or a build, applying the next recipe of a
chain, verifying the next one, opening the output (which truncates it), writing part of it (`WriteSome`), writing the
rest, and being killed between any two. What a kill leaves is one of two things. `Torn` is shorter than the
headers, and `Pe()` refuses it. `Cut` has the headers and lacks its end: `Pe()` looks at `MZ`, `PE` and the magic only, so a later
run takes it for an image. What such a run comes to depends on where the file ends: `Outcomes` lets it
refuse or go on with a file of which nothing is known (`Cut` again), and `Verdicts` lets each check pass or fail; only a
recorded hash, when it is not waived, always refuses it. `made` remembers of each path whether its file was killed,
finished by a run held to its hash, or by one that was not. `AllOrNothing` has two halves: a known image consists of whole recipes, and a cut file is never the
result of a finished run that was held to the hash. The recipes of `MCPatchRun` are chosen to get in each other's way: two names that
agree in 19 characters, two users of one name, edits that undo others, an import, code with
absolute operands, sizes that just fit an arena.

Assumed: a recipe's blobs stay inside its region (`--verify` never reads blobs back and nothing
refuses a longer one; the repository's recipes comply), one blob per recipe, nothing else writes the
files. `make_header_room` is never called by the code and is left out.

### ItemStorage and VoidBag

`ItemStorage` has one variable, where each item is, and two steps: an item goes to a free place of
its character, or two items of one character swap. `VoidBag` has the protocol: `Occupy` and
`Logout` of a pooled player object; `StoreInventory` and the other login part (the hook of
`so_StoreInventoryFromServer`, which resets the bag and asks Character for a list); `PackVoid` and
`Reply` for Character's side, a list in parts of `ChunkItems`; `LoadReply` and the error answer as
`on_void_list` treats them; `Move`, `Exchange` through `void_bag_of`, which refuses while the bag is
not loaded; `UseVoidItem` for pages. `row` is the table tItem. The zone's generic storage code
(`sp_ItemReloc`, `irm_Move`, `irm_Exchange`) is closed source and modelled from how the plugins use
it: it changes memory and row in one step. The object pool, the connection and the moves are marked
external in the map.

The refinement mapping is the identity on `row`: `RowsMoveLegally` says that every step of the
protocol, judged by the zone on its in-memory bag, is a legal step of the rows or leaves them alone.

`Overlap` tells whether one character may log in again while an earlier list is still under way. With
`Overlap = FALSE` everything holds. With `TRUE` the ownership properties still hold, and
`NoSharedSlot` does not: the run `void_bag_relogin` shows it (finding below).

Bounds: two characters, two objects, two items, two simultaneous lists, one cell per page (two in the
bag), one row per reply. Two of each are what the hazards need: an object reused by another
character, a character on two objects, a list in two parts, two lists interleaved, an exchange, a
full bag. Assumed: items never change their character; Character may serve requests in any order and
interleave replies of different lists.

Fairness (`FairSpec`): weak fairness of `PackVoid(k)` and `Reply(k)` for each call, because
Character's workers take up each request and send all replies of a list. Nothing is assumed of
players: they may log out, reconnect or never move. Hence the property speaks of a player who stays.

### Loader

`Enter`, `Claim` and `Return` are the wrapper of a service's main routine with its once-flag;
`ListFolder` reads the folder and the ini files; `NextTop`, `NextDep` and `LoadIt` are the loop of
`load_plugins` and the recursion `load_one`, with an explicit stack so that the module has no
recursive operator; `RunCallback` and `Finished` are `start_plugins`. The instance takes every
`after=` line of a chosen set for three plugins and nine folders of four plugins with chains, a
diamond, cycles and missing names; each plugin may be disabled, fail to load, or register callbacks.
`kMaxDeps`, `kMaxPlugins` and `kMaxCallbacks` are 1 to 4 instead of 8, 64 and 64, so that each limit is met.

`Listed` is the loop of `list_folder` that fills the table: it takes the plugins of the folder in order, leaves out a disabled one and stops at a full table.

`LoadedInOrder` claims the folder's order only where every `after=` line can be kept (`LeftOpen` of no plugin). A comment says that the others
"load last", which the code does not do (see what was observed).

Fairness: a thread inside the loading keeps going, `LoadLibrary` and the callbacks return. The code has no lock
or wait in that path. A service has one routine here; what two would do is told
below, under what was observed, and `OneRoutine` of `Startup` states it as an assumption. The client has two threads that race for its two hooked imports. `ListFolder` is one step: nothing else changes the folder at
start. A plugin that fails to load registers nothing.

### ProtocolTable

Rows per command, the shared default row, and per plugin `swaps` (`g_swaps`) and `originals`
(`HookTable::originals`). `HookOpcode` is `hook_opcode` with `slot` and `set` in it;
`HookDepartment` the loop over the department's registered opcodes, in an order that is chosen (a one-to-one numbering of them); `Store` the server's
registration as `quest_track` calls it; `CoverUnregistered`; `Unload` is `uninstall_all`. A handler is
a tagged value: the server's own, the unknown-opcode handler, a thunk of a plugin or its cover. What
a packet meets is computed by following originals (`Chain`). Histories `asked`, `registered`, `lost`
and `covered` remember what the plugins wanted.

`MayHook` is the order in which plugins reach the table: their detours of `protocolstore` nest and
each first calls the one below, so the plugin loaded first hooks first; DLLs are detached in reverse
order when the process ends, and none is loaded after that. Without this order a plugin could take back an entry under a later
hook and leave a pointer into an unloaded DLL; the code relies on it, and nothing enforces it. As in
every plugin here, an opcode is hooked once per slot `K` and nobody re-registers a hooked opcode.

Assumed: finitely many commands, departments, plugins and slots (each is an index of an array in the code).
Bounds: two plugins with two slots `K`, two commands, two departments, three hooks alive (`MaxHooks`),
room for two swaps (`kMaxSwaps`, 4096 in the code) so that a full list occurs. Three hooks on one
entry give every nesting of two plugins with a repeat. The system ends when all plugins are gone, so
deadlock is not checked there.

### RemoteCalls

The serve thread's commands and the burst worker are program counters (`at`), one action per access to
something shared: `WriteFilter`, `ResetWins`, `PostWins`, `TakeResult` and `GiveUpWins` are the lines of
`wins_on_game_thread`; `AskFrame`, `TakeShot`, `GiveUpShot` those of `d3d_shot`. The game's thread is `Present`
(with `CaptureNow` inside, under its lock), then `wins_tick` in the steps `Look`, `Compute`, `StoreResult`,
`ClearPending`, `SignalWins`. A call is named by its thread and number; an answer, a path or a filter is
the call it belongs to, so the content of windows and pictures does not matter. A wait may run out at any
time (`WinsTimeout`, `ShotTimeout`): the model has no clock, so it covers a game thread that is late by any
amount. A failure of the copy is a choice in `CaptureNow`.

`overdue` remembers that a wait of `wins` or `ctl` has run out. Until then each answer is the asked one
(`AnswersMatch`) and the filter is never read while it is written (`NoTornRead`); afterwards neither holds, and
`remote_stale` shows the first (finding 4). `OkMeansWritten` is stated for runs in which no burst has
started, since the burst shares path, event and result with `shot`; `NoLateFile` and `Answered` hold with it.

Bounds: three commands, one frame of a burst. Two commands are what a late answer needs; the third lets a
good exchange follow a bad one. Fairness: the plugin's own threads run. Nothing is asked of the game's thread, which
"is busy for seconds while it loads a map", nor of the controller.

### RemoteInput

A command is a short program of steps (`KeyStep`, `CursorStep`, `FramesStep`, ...) that its thread works
off; each step is one action (`DiKey`, `DiButton`, `DiCursor`, `DiWheel`, `PostChars`, `WaitFrames`) and the game reads every device
once by state (`KbState`, `MouseState`) and once by its buffered events (`DeviceData`) before it presents a
frame (`Present`). A read may fail, and it may have room for some of the queued events only.
`has` are the devices the game has created, chosen at the start; `slow` tells whether a frame may outlast a
wait. `Sleep(250)` is two frames of a game that is not slow. The client's chat input is external and modelled
from what `say` relies on: an Enter the game has seen go down opens it a frame later.

`short` remembers a read that had no room for all that was queued: what it left behind, a press among it, is read after the cursor has
moved on, so where a click lands (`ClickLandsThere`) is promised without such a read only. With four commands and reads of one
event a click after another one does miss.

Bounds: two devices of one kind (two keyboards or two mice: no command uses both), two commands in all, of
the controller or taps of the login's Tab, one if the game is slow; room for one event or for all. Two devices are what a
shared queue would starve; two commands what an early release would mix. Symmetry between the devices
of a kind. Not covered: the same key pressed by both threads (the login types only Tab, a controller has no reason to before
it is in the game). No fairness: the properties are invariants over what has been read so far.

### LoginForm, CharSelect and Unattended

`LoginForm` has the client's form (external: `Build`, `TabTaken`, `TabDone`: a Tab hands the focus to the render window and a frame
or more later to the next field) and the thread `auto_login` with one action per look at the focus and per
post. `touched` remembers that the player has moved the focus. `CharSelect` has the world list and character
select (external: `ListWorlds`, `PlayerJoins`, `Leave`), the two ticks on the game's thread, split where the
serve thread's `char` command may come in between (`Look`, `Select`, `CountStep`), and that command's two writes
(`CharCommand`, `ResetStep`). `owing` is the slot asked for last and not yet entered.

The two never run together (the login's thread has returned before there is a world list) and share no
variable of the plugin, so `Unattended` takes one or the other by `-stdinlogin` and its state graph is the sum of
the two and not their product. Bounds: the code's four Tabs; three slots on two pages, two commands, three
times at the character select. `Midway = FALSE`: a command comes before a character select and not between two lines of a
tick; what it does there is told below. `-charname` is off (`ByName <- None`).

Fairness: the login's thread runs, the client's form takes its Tabs, the game draws frames, time passes,
the serve thread finishes a command. Players and controllers need do nothing.

### Startup, HookPoints and ZoneStorage

`Startup` follows `Loader`, `Unattended` or `RemoteCalls`: what has to come to an end between the program's start and the
first command. `EveryPartEnds` is the conjunction of their liveness properties, under the fairness of each, for the part
that is followed. `HookPoints` follows `ProtocolTable` or `RemoteInput`: wrappers in tables of functions that must pass on what comes
by once, whole and in order. `ZoneStorage` follows `VoidBag`, `TitleExt` or `VaultJobs`; `FairBagSpec` follows the bag
with the fairness of `VoidBag`. `MCStores` is the instance that follows `ZoneStorage` or `PatchRun`, with the constants of both.

### TitleSet and TitleExt

The zone's title object has one byte per type for 128 types, four two-bit fields each; `title_ext` keeps the bytes of the types above
in a table by object address. `TitleSet` is what the zone's code expects: a status for each object, type and element, none at
the object's begin. `TitleExt` has the bytes: `StatusByte`, `Written`, `ZeroSide`, and the hooks `Begin` (constructor and Clear), `Look`,
`SetTitleStatus`, `Release`. The mapping reads each status out of its byte, so a write that touches a neighbour's bits or a
row left over from the object's last player is no step of `TitleSet`. Assumed: memory before an object's first constructor holds
anything; the instance takes all ones. The count of titles of special type 10 is not modelled. Bounds: two objects, one
type inside the array and one past it, two elements, a value that fits two bits and one that does not; the theorem has no bounds.

### VaultJobs

The zone opens a vault by asking for each row that passed its rate roll whether the player's class may have it, and counts free slots at the end.
`Open`, `Check` and `Finish` are these calls with the plugin's answers. `VaultsByJob` is stated by the vault's rows, as the header has it ("REFUSED as a whole"): to one without a high job and without a row of his own, a vault with
a job's row gives nothing. It is claimed where the roll shows the rows that decide: the code judges by the rows that came up, so a vault whose job rows did not, or from which the player's own row did not, is
opened or refused by the others. `high` may be empty: the table could not be read. Bounds: five classes of two lines, three of them high jobs, up to three rows and three free slots.

### QuestBook

One player's records, bag, drops on the ground and the client's tracker, with the handlers of eight plugins and
the stock code they stand around. `Track`, `Untrack` and `Unpinned` are `quest_track`; `Kill` and `KillExact` the stock loop over
the records with `quest_any_mob` in the comparison, `quest_drop_max` in the roll and the rows `quest_ext` adds past the fixed arrays;
`Rewardable` and `StockUpdate` the readiness both decide; `GiveUp`, `DbAck` and `AckMissed` are `quest_abandon` with Character's answer;
`PickSingle`, `PickStack`, `Split` and `LeftBehind` are `quest_item_enough`; `Limit` is `quest_limit`. The zone runs a handler to its end, so a
handler is one step; between two steps lie Character's answers, the ground and a logout. Assumed: no item is locked in a trade
(a destroy succeeds); a species of mobs is one mob. Not modelled: the END npcs of `quest_ext` (`reply_npc`, `reward_npc`, `is_quest_npc`).
Bounds: three quests (a repeatable one with a row known to the 2026 table only, a timed one with the any-mob row, one with a
counter past the fixed ones), two mobs, one item, two bag cells that hold two, two tracker slots, one End row in the record, one give-up under
way. Each limit is met: slots full, cells full, a stack larger than what is needed, a part that fails.

### QuestReward

`quest_exp`: the list of `{player, low dword}` with room for `kMaxPending`, the fingerprint in the low word of a large reward, the booster
and the forced time of permanent states. `Release` may answer any request under way, `AnswerLost` leaves one in the list for ever, `Restart` forgets it.
Assumed is `RewardsOK`, what the tables promise: a reward of 2^31 or more carries its quest's number. Two rewards may agree in the low dword, and two quests of the instance do: a small reward and a large one. The
list is searched by that dword alone, so an answer may take the entry of the other quest. `RewardsHold` says what is granted then: once, in full and with the booster (`Boosted`), the reward of a quest with that low dword, and not any: one remembered for this player object (`met`), or,
if none is, the answer's own or the one its amount names. The dword is scaled down to 16 and the word to 8; rewards below and above half of it, two player objects, two rewards
under way, a list of two so that the oldest is dropped.

### GateMenu

`Click` builds a gate's menu, recording each option in the ring (`Put`). `Menu` is the code's: no menu for fewer than two entries, groups when there are more than three buttons;
a gate has fewer links than a menu has rows, as `open_menu` counts them. `Answer` reads the record its button names;
`Escape` is the client's reply byte from `menu_escape`; `Selected` the WorldManager's answer to a level select; `GmLink` a GM's `&linkto`, which shares the function
that is patched. `wanted` remembers what a button was drawn for and whether its record has been overwritten since. A ring of three stands
for 64 and five records are made, so the ring goes round; after that the property says nothing, because an index alone cannot tell. The text of menus is not modelled.

### Instances

The zone's parties (number, slots in join order, objects set later by `pm_HandleSet`) and players' places, the instances that exist and the WorldManager's countdown. The hooks of
`indun_party_scale` are the actions that move or regroup a player (`LoginComplete`, `Revive`, `HandleSet`, `Leave`, `Break`, `Gone`, `Join`); `CanEnter`, `GateAnswer`, `FindInstance` and `WarnSplit`
are `indun_solo`; `Empty`, `Reset` and `Audience` are `wm_indun_solo`. The buff is compared with the members on the map when nobody is on a loading screen and every
object is set. Assumed (`Settled`): the WorldManager sends a member's object right after the join or the arrival, before the zone's next event; a player has
one server menu open; the leader is first in the slots. Raids are not modelled. Bounds: two characters, two parties whose numbers are also the low half of the
solo keys, two instances open, one loading screen at a time.

### LoginBridge

The parser's detour works on encrypted bytes: client and server each keep a position in a table of 499 bytes and advance it by what they send and parse.
`Receive` is `on_parser` with `MarkAfter` (the version check), `Fed` (the 2016 frame the stock parser gets, if any), `Answered` and `Consume`;
`OnSend` the replies. `Stock` is the Login behind it, external: its states, and a closed connection when a packet is unknown or out of turn. An address goes to the next
client with the mark of the last. Bounds: one address whose clients are in turn 2016, German 2026 and a shifted 2026 build; two worlds; eight packets a connection.
A 2016 client may log in with a launcher's one-time password (`OtpLogin`), which the bridge takes for a version check (`TakenFor2026`; finding 5). `LegalClientsStay` names that client as the one exception, and `StockSessionsStayStock` says without any what the source's header says. Left out: the text of names and passwords.

### WorldBridge

A packet is its opcode, its length and one datum. `Says` lists what either client sends, `OnSend` what the stock server's packets become, with each list closed by `Ends`; `Width` are the
lengths either client reads. The stock handlers are external. A client opens a creation whenever it likes. `relist` holds what it has done since its last list: after any erases the slot offered must still be free, and with none be one of the account's if it has one free; after a creation it may be taken (see below). Not modelled:
`register_shop_key`, the 82-byte login of the German build. Bounds: three slots, guilds of 0, 1 and 3 members in chunks of two, an address used by both kinds in turn.

### ZoneBridge

What is known of a player by his object, in four groups of packets that share nothing but the client's kind; `part` chooses one. *quests*: `DoingList` in chunks and the tracker's five. *dialog*: `Open`, `Ack`, `EndOfTrade`, `Click`, `Dismiss`, `Hear`,
`Wait`: packets are under way to the client and back in queues, the zone may begin the next script meanwhile, and the plugin learns from the first QSC_END that its zone announces ends. *equip*: items that the 2026 client
draws at another slot. *states*: abnormal states past the 2016 bitset by handle, and the record of whoever comes into view. `Becomes` has every request of a 2026 client: translated, answered or dropped, and `Unregistered` those the zone has no handler of; an unknown opcode in a command of `Uncovered`, where a plugin loaded later has hooked the table, meets the zone's own handler again, which hangs up (finding 3). The tracker is compared in the order of the list (`FirstAt`, `Rank`): it shows the
first tracked quests, each at its first place in the list. Assumed: two items that the 2026 client draws at one slot are worn on one slot of 2016 (`ZoneBridgeOK`; the fold in `bridge26_tables.h` is by slot); the client echoes only a close that closed something; a handle that is used again announces its states. Not modelled: the text of
a relayed whisper. Bounds: two objects, two kinds of client, three quests of which two are shown, four items on two slots, two handles, two states, three packets under way.

A 0x200B of the client is one packet with three meanings: the echo of the bridge's close, the player closing a page (`Dismiss`), and his Esc in front of a dialog that waits. The bridge knows one flag and one clock. `Wait` lets the clock run out at any time, an echo under way or not, so
an echo may be late. `EchoesToldApart`: an echo that is back in time ends no script, and the close of a page never counts as an echo, so it does end its script. Both, and `NoDialogStuck`, are claimed until a 0x200B has ended a script while a page or an answer of it was under way (`crossed`): the page that
arrives afterwards stays open, and the next close belongs to nobody. The run stops at such a state (the constraint `Uncrossed` of `MCBridges`); the theorems need no constraint, since the properties speak of `crossed`.

### BridgeData and BridgeTables

`BridgeData` has no history: a step translates one input and the properties read the result as the 2026 client does. Layouts are lists of copied and made segments, `Copied` has for each byte of the packet its place in the 2016
one; the client's walk of a box (`Walk`, the place where each record ends) knows an item's width by its class alone, so a wrong insertion anywhere shifts all that follows. `Matched`, `More` and `RewardSlots` pair the client's rows with the zone's five counters and its reward slots; `CountersFollow` covers every counter that counts something, whichever of the five are used, unless the number of an unused one lands on the row of a used one (see below);
`Forwarded` is the number the zone gets for a choice of the player, and `RewardIsTheChosen` says that it is the slot of that reward when the client's row has one. Bounds: an item of each kind of class with 0, 2 or 3 in the byte that counts (`Counts`; the low bit is a flag of an enchanted item), boxes of up to two records, all counters over four kinds and three row lists, all rewards up to four over three values.
Assumed (`BridgeDataOK`): item ids below 65535, counts below 16 (the lots' half of the byte), five counters and at most ten end rows of a quest (the widths of the records).

`BridgeTables`: the zone reads 49 tables, those of the layout file are converted while they are read (`Clamp` and `ReadAs`, the order of a server's own file, folded equipment slots) and their checksums noted in
`CheckSumData`; `Widen` patches the sixteen instructions that read UpgradeInfo, each checked before the first is written, and a write may fail. Three instructions stand for sixteen, each the stock one or another. The order in which
tables are read is free, any file may be unreadable. The order of a server's own file is the code's stable sort, stated by ranks: a row's place is the number of rows before it, by the place of their keys in that file
(`Position`; what it lacks comes last) and then by their own (`Before`, `Rank`). Assumed of the data (`BridgeTablesOK`): each table has its own checksum slot, 24 and 25 are those of the tables of
which the client sends no sum; a key stands in a file once. The bound is `ClientRows`: files of two rows in either order, and one of three rows of which the server's file lacks one, with values that fit, that are negative and that are too large.
`NeverWraps` says of a value its 2016 column has room for, signed or not, that the zone reads it as it was, and of one too large for an unsigned column that it is the largest. What a signed column has no room for may be read as a negative number (see below).

`Bridges` follows one of the five.

## The runs

| Run | Expect | Shows |
|---|---|---|
| `patch_gap` | violation | a data region can lie past the bytes of the file |
| `startup` | pass | `LoadedInOrder`: each plugin once, after what it names, in listing order where every line can be kept; `AnswersMatch`, `NoTornRead`, `OkMeansWritten`, `NoLateFile`: answers are the asked ones while no wait has run out, an ok means a written file; `FormAsMeant`, `PasswordInAField`: account and password reach their fields; `EveryPartEnds`: loading ends, with one routine of a service or two threads of the client, the login ends, the asked character is entered, every command comes back |
| `hook_points` | pass | `OnlyTheHooksAsked`, `OriginalsKept`: a packet meets exactly the callbacks that asked for it and then the server's handler, uninstalling restores the table; `EventsWhole`: each event once per device, a press is seen held, motion is told whole, a click lands where it was given, a line goes to the chat |
| `protocol_cover` | violation | a hook after `cover_unregistered` uncovers the rest of its command |
| `remote_stale` | violation | what a wait that ran out leaves behind answers the next command |
| `stores` | pass | `RegionsNeverOverlap`, `DirectoryTellsTheTruth`, `AllOrNothing` (each image consists of whole recipes, and what a kill left gets past no hash), `BuildHolds` (every recipe of a finished build is still in force) over ten recipes, four deep; `NoSharedSlot`, `LoadedBagIsTheRows`, `ClientShowsTheBag`, `OneBagPerCharacter`, `NoForeignItems` and `RowsMoveLegally` (the moves implement `ItemStorage`) while one character's logins do not overlap; `OneTitleSet` (the titles implement `TitleSet`); `VaultsByJob` |
| `void_bag_live` | pass | `BagEventuallyLoads` under `FairBagSpec`, overlapping logins included, with no errors injected |
| `void_bag_relogin` | violation | overlapping logins put two items in one cell |
| `quests` | pass | `BookIsRight`: the tracker shows pinned quests only, a quest is ready when and only when it is complete; `OnlyReturnsOverfill`; `GivenUpItemsGo`; `PicksAreExact`: nothing lost, made or taken beyond need; `RewardsHold`: every answer grants once and in full a reward that was promised with its low dword |
| `dungeons` | pass | `ButtonMeansWhatItSays`, `GatesHold`: gates; `BuffFits`, `EntersByRight`, `OwnersAreTold`: instances |
| `bridges` | pass | `StreamInStep`: both ends of the Login's stream agree; `OwnForms`: the replies of the Login and the lengths of the WorldManager's packets are those of the client's own protocol; `ClientShowsTheZone`: tracker, equipment, states and dialogs of the zone, the offered slot and the guild list of the WorldManager; `TranslationsHold`: layouts, boxes, counters and rewards as the client reads them, and its tables in the zone; `NobodyIsDropped` by any of the three servers but a client with a one-time password and, in the zone, an unknown opcode whose row was hooked later; `EchoesToldApart` |
| `bridges_stock` | violation | a 2016 client's one-time password makes its session a 2026 one |

Sizes: `startup` 230 000 distinct states, `hook_points` 890 000, `storage` 320 000, `void_bag_live` 520 000, `quests` 340 000, `dungeons`
1 400 000 with the two characters symmetric, `bridges` 220 000. Deadlock is not checked where a part may stop: all plugins gone, the loading or the login over, a number of steps used up.

### Findings

1. `apply.py` says an arena's bytes reach its end; the first data arena is rounded to different alignments and they do not. In the
   trace the relocation directory of the second region lies partly past `SizeOfRawData`.
2. `zone/README.md` says an item can never share a slot with a stored one; a list reply names only the character, so a second login takes the first one's list.
3. `hook_core.h` says `cover_unregistered` covers every unregistered entry and later hooks have their own; a later hook in a
   covered default row brings the dropping handler back for the whole command. `bridge26` covers "LAST" in its own code, but plugins
   loaded after it hook later.
4. `remote_control.cpp` says the Present hook answers the request that was posted; after a wait that ran out, the flag
   `g_ctl_pending` or a late answer reaches the next command.
5. `login_bridge26.cpp` says 2016 sessions stay stock; a 2016 login with a one-time password has the length of a 2026 version check and an opcode in its range, so the session is marked, and
   the Login gets a second version check in place of the login and hangs up.

### Also observed

Seen while modelling and left out of the runs, because each needs a use the repository's own configuration does not have, or
is a smaller form of a finding:

- `apply.py` says it never works in place; `--out` equal to `--exe` is accepted, and the file is truncated before it is written (`OpenOut`).
- `service_hook.h` says plugins cannot run late. With two service routines, `Loader` with two `threads` in service mode reaches a state with one thread in its
  original routine (`pc[t] = "main"`) and `up` still `FALSE`: the flag is set before the set-up runs and nobody waits for it.
- `plugins.cpp:39-40` says a plugin with a missing name or in a cycle of `after=` "still loads, last"; `load_one` loads it in its own place in the folder's order. `LoadedInOrder` does not claim a place for it.
- `README.md:80` and `apply.py:17-18` say there is no half-patched state; a kill inside the write leaves a prefix of the image, which a later run with a waived hash takes for one (`AllOrNothing` without `made`).
- A shot during a burst: the second caller replaces the first one's path, one frame is written, both are told ok (`OkMeansWritten` without `started`).
- A click waits for time and not for frames; in a slow game its press is read after the next command has moved the cursor (`ClickLandsThere` without `slow`).
- After its release `say` waits for one frame, which may have been read before: the Enter of a second line is then no press (`SayGoesToChat` without its second disjunct).
- `auto_login` reads the name field's handle again 300 ms after it saw a field; a player who has left and comes back gets the password in the name field (`FormAsMeant` without `touched`).
- A `char` command between `SelectAvatar` and `g_char_step++` loses one of the two clicks (`OwedIsEntered` with `Midway = TRUE`).
- With `-charname`, each avatar list puts the slot of a `char` command back to the name's (`EntersAsked` with `ByName` set).
- `apply.py:724` writes a blob without comparing its length with its region's, and `--verify` never reads one back; a longer one overwrites the next region.
- `hook_core.h:722`: `hook_opcode` for an opcode that the same slot K has hooked already stores its own thunk as the original, so a packet would go round for ever. The 4097th swap is made and not remembered (`hook_core.h:618`); unloading does not take it back.
- `bridge26_tables.h:223` says "CLAMP, never wrap"; it compares with the unsigned maximum of the column's bytes, so a value past the signed maximum is written as it is into a signed 2016 column and read as a negative one, and one past the unsigned maximum as -1 (`NeverWraps` without `Room`). A write that fails among the sixteen leaves the zone half patched.
- A counter slot of the zone that counts nothing keeps its own row number and may overwrite a counter that was moved to that row (`CountersFollow` without its condition).
- A reward the zone has no slot for is forwarded with the number the client sent (`bridge26.cpp:548-559`), which the zone reads as one of its own slots (`Forwarded`).
- A page, or the player's answer to one, that crosses a 0x200B which ends the script leaves the client's dialog open, or makes an echo end the next script (`NoDialogStuck` and `EchoesToldApart` without `crossed`).
- `wm_bridge26.cpp:26` says the create-open answer carries the first free slot; it is the first of the last avatar list, so after a creation the client is offered a slot that is taken, until it asks for its list again (`OfferedSlotFree` without `relist`).
- `vault_jobs.cpp:22` says a vault with job rows is "REFUSED as a whole" to a stranger; a job's row counts only if it passed its rate roll, so a stranger opens one when none came up, and a player is refused when his own did not (`VaultsByJob` without `shown`).
- Two rewards that agree in the low dword are one to `take_pending`: an answer of either takes what was remembered first (`RewardsHold` allows it).
- Accepting a quest again that was given up while pinned puts it back into the tracker though the slots are full (`OnlyReturnsOverfill` says that nothing else does).
- `quest_ext` rolls min up to max - 1 for its own rows where the stock loop rolls up to max.
- When Character answers a give-up while the player is away, his quest items stay (`AckMissed`; `GivenUpItemsGo` speaks of a player who is there).
- A Yes to "delete?" that comes after somebody has gone back inside closes the instance without asking him (`Instances`).

The number of runs is kept small, so a claim of a comment that fails in a way told here has a run only where it is a finding; each of the others can be seen by taking the named condition out of the property.

## What is proved

Every safety property of the passing runs is a theorem, for every value of the constants that the named `ASSUME`s of the
modules admit. Each proof has the same shape: an inductive invariant, one lemma that it holds at first, one for each action that it is kept, and the property from it. A
part of a composition is proved with the composition's variables: every step of the whole is a step of that part or leaves its variables alone (`StartupIsCalls`, `StorageIsTitles`, `PlayIsBook`, ...).

`PatchProofs`. The invariant is that every image a run reads, holds in memory or writes is `Good`, which has four parts. `Sound`: typed, its marks behind the arena headers, its
regions aligned, inside their arena and below the mark, pairwise apart, its directory current. `Whole`: sites, imports and relocations are those of the recipes in `did`, applied one on top of the other. `BasesFit`: a
recipe's base is the address of its region, if it has one. `Anchored`: an address that was written to a site stays there, because a later recipe of that site would have expected a number. There is one
lemma for each operator of `PatchImage` and one for each action of `PatchRun`. From it: `PatchTypes`, `RegionsDisjoint`, `DirectoryIsCurrent`, `WholeRecipes`, for any recipes in any order and any
alignments. `WholeRecipes` has a part of its own about files that lack their end, `CutInv`: a run that is held to the hash has a known image in memory (`OutcomeKnown`), so what it finishes writing is one, and what a kill leaves in the middle of a write counts as `killed` since the open. `BuildsHold` adds `BuildInv`: while a build runs, the last recipes of its image are those of the chain so far, and those it has verified are verified still; and what was on disk holds as
long as nobody writes there. `Anchored` and `BuildsHold` need `PlainNumbers`: what a recipe expects, and what it writes without `@newbase`, are numbers of the stock program and never an address in an arena, which does not
exist before the first recipe has run. The directory part rests on `LastNumber` of `Induction`.

`StartupProofs`. `PluginsInOrder` has the invariant `LoadInv`: `OneSetUp` (one thread sets up, once; before it the table is empty and after that what `Listed` gives), `Loaded` (a plugin is done when and only
when it was tried; each once; `RootedAt`: a load goes back to a plugin of the table and came after all that lie before this one), and about the thread that loads `Searched`. This is the depth-first search: on the stack each
call waits for the one above it and has its earlier dependencies behind it or further out (`Deep`), and the outer loop has all plugins before its own done (`Wide`). From `Deep` a dependency that is passed over unloaded is
one that waits for its dependent in turn. It is in the folder's order where no line is left open; that comes from `ListsFirst`, an induction over the files. `OneRoutine` is needed: with two routines the claim fails (see above). Of the
calls, for any number of commands and frames: `NoFileLate` is an action property whose invariant `PInv`
says that the path names the call of a thread that is asking, and that a thread that has given up has
taken its path back. `AnswersAreTheirs` and `NoFilterTorn` share `RInv`, which holds until a wait runs out: from the
place of the serve thread it follows what flag, filter, result and event may be (`Forms`), that the tick works on the current call
(`Carried`), and that an answer not yet taken is the current one (`Unread`). `overdue` never becomes false again, so
`OInv == overdue \/ RInv` is inductive. `OkIsWritten` needs that an event that is set, with `g_cap_ok`, stands for a frame
written to the path of the caller that waits (`Shown`), which holds as long as only one thread asks. Of the login form, for any number of Tabs and any moves of the player:
`PasswordStaysInFields`: the thread is at the password only
with a handle that is neither the name's nor the render window's. `SubmittedAsMeant`: until the player touches the form, the focus
stays on the first field until the account is in it, hence the name's handle is that field, hence the other handle is the other field.
Of the character select, `AskedIsEntered`: the slot the clicks go to is the one that is owed (`Wanted`), so the game is entered with no other, for any slots, worlds, commands and returns to the character select, as long as there is no `-charname`, which
would put it back (see above).

`HookProofs`, of the tables: `TableInv` says that unless a swap was forgotten (`lost`) the hooks of every opcode lie on a pile of thunks over a base. The table holds the topmost and each thunk kept the next one below as its
original (`Piled`); the base is the server's handler, or nobody's (`Based`); a plugin loaded later lies further up (`Ordered`); the first swap a plugin remembers is what lies below all its thunks (`Kept`).
`HookOpcode` and `HookDepartment` put thunks on top; `Unload` takes the top part off, because the last plugin loaded goes first, and puts back what lay below it; `Chain` walks down the pile. From it
`PacketsMeetTheirHooks` and `HandlersAreKept`, for finitely many opcodes, plugins and slots. Of the input: `InputInv` joins the types and the forms a command's remaining steps may have (`Shaped`) with `EachEventOnce` and `MotionIsWhole`, which
are inductive with them, and three parts which say what a command still has to do while its effect is not yet seen: `Presses` (while a key is to be released, who has read it; once released, everybody has), `Clicks` (a press that is queued is at the
cursor's place, and the command still waits for it), `Saying` (how far the line is, what the game has read of its Enter, whether the chat is open). From it `InputArrivesWhole`, for any devices, keys, places and commands.

`StorageProofs`, of the bag. `LoginInv` is inductive for any constants, overlapping logins included. It joins the
types with `WhoIsWhere` (which object holds which character, and which bag names whom), `CallsInOrder`
(what an unread, running and finished list request may hold) and `OwnItems` (rows, bags, clients and pending replies hold items of
their own character). From it: `TypeCorrect`, `AtMostOneBag`, `OnlyOwnItems`. For `~Overlap`,
`ListInv` adds `OneListAtATime` and `ListIsTheRows`: what has been filed into a bag that is not yet loaded, together with
what its list still has to deliver, is exactly the character's rows. That is the fact which
`LoadedBagIsTheRows` lacks to be inductive, and `NoSharedSlot` in turn needs the latter, since a move
is judged on the bag. From it: `NeverShared`, `BagMirrorsRows`, and `ImplementsStorage`, the refinement. With `ShownOnceLoaded` (a client shows the zone's bag from the last reply of its list on, and nothing before) it gives `BagIsShown`.
Of the titles: `FieldsOfPacked` and `ByteIsPacked` say that a byte is its four fields, hence
`WrittenIsRead`: a write changes one field and no other. From these `StatusKept`, and `ImplementsTitleSet`: the initial state maps to one of `TitleSet`,
and each step to a begin, a change of one title, a release or a stutter (`BeginSeen`, `ChangeSeen`, `LookSeen`); for any objects, types, elements and values. Of the vaults
`VaultsByJobForAll`, for any jobs, rows and accounts, where the roll shows the rows that decide: `VaultInv` says that the two flags of an opening stand for
the rows asked so far: whether one is a job's, and whether one is this job's (`JobRowPasses`: a job's row passes for that job only). At `Finish` every rolled row has been asked.

`QuestProofs`. `EveryRewardItsOwn`, for any quests whose amounts keep to what the tables promise (`RewardsOK`), any player objects and
any length of the list: `RewardInv` says that every entry holds the low dword of its own quest, and nothing of which answers are still to come, so
entries that were left over, dropped or lost do no harm: what is found under a low dword is the reward of a quest with that low dword, remembered for this object; what is fingerprinted is that of the quest the amount names, and what is neither is the answer's own amount (`Candidates`, `ReleaseGrants`). No two rewards are assumed to differ there.
`ApplyForces` unfolds the permanent flag over the items of a login. Of the quest book the invariant is `PlayInv`. `BookInv` is `TrackerAgrees`
with the types and an empty tracker while the player is away; from it `TrackerFollowsRecords`, `TrackNeverOverfills` (every step but a `Track`
sets no bit: `OtherSteps`) and `GiveUpTakesItems`. `Completed` says of each record that it is ready only with every row counted, and one that asks for kills alone as soon as they are; with it `TheBookIsRight`. `BagTyped` keeps every lot within a
stack. `PicksLoseNothing` is about what one step does to the number of an item in the bag, `CountIn`, a sum over cells: it adds up cell by cell (`Adds`), a change of one cell changes it by that cell's difference (`SetBySet`, `CountMore`, `CountLess`), and
a part put into cells, or a split over several rounds, shares what is wanted between the bag and the rest (`Put`, `Rounds`, `Shared`). Assumption `DataOK`: finitely many quests, a positive count in each kill row, the
cells of the bag numbered from 1.

`DungeonProofs`, of the instances: `PartyInv` says that the list of a party and the numbers in its members' objects agree, that an object is that of a member in this zone (`ListsAgree`), and that a character whose group is ready carries
the state for exactly the members on his map (`StatesFit`). Ready means that every object of the group is set and nobody of it is on a loading screen (`GroupReady`); the run's property speaks of a state in which everybody's is, which is too coarse to be kept by a step. From it
`StatesAreRight`, `EnteredByRight`, `OwnersHear`, for any characters, parties and keys. Of the gates: `DrawnFor` says that every button of an open menu names a record of its ring and that, until the ring has gone round since, the record is
what the button was drawn for (two numbers less than a ring apart have places of their own: `PlacesApart`). From it `ButtonsMeanWhatTheySay` and `GatesAreHeld`, for any size of the rings and any gates with fewer links than a menu has rows.

`BridgeProofs`. The Login, `BridgeInv`: the positions agree and are in range; the mark is the client's own from its version check on (before it, whatever the
address's last client left, which is why the version check is parsed alike for every mark); what was heard belongs to the client's protocol; nobody is hung up on but who has sent a one-time password. For `Receive` there is
one lemma for how the parser reads a legal packet (`PacketParsed`), one for what the stock parser makes of the frame (`StockLetsThrough`) and one for how its reply is translated
(`RepliesUnderstood`). From it `StreamsStayInStep`, `OwnLanguage`, `OnlyOtpIsHungUpOn`, for any sessions and worlds and any shifts up to 400 (`LoginBridgeOK`; the builds
there are have 0 and 21, and command numbers are less than 1024). The WorldManager, `WorldInv`: once a client is in, its mark is its own, with the slots of its last list, of which none is missing that is taken unless it has created a character since (`MarkTrue`); all it
was sent it can read, and a slot it was offered is free (`HeardRight`); the parts of a guild list add up (`ListRight`). The zone, `ZoneInv`: a player is known as what he is (`KnownAs`); `OldDialog` and `NewDialog` list the phases of
a dialog with what may be under way in each - a page is the last packet on its way down, and an echo on its way up is that of the last close - until the two cross, after which nothing is claimed of the dialog; an item is drawn where the fold puts it when and only when it is worn (`EquipRight`); the
list kept for the tracker is the whole list's first tracked quests in order (`TrackerRight`, from `Follows`, by induction over the list a chunk at a time: `FoldIs`, `ListFollows`). `ServersInv` is the three together, from which
`OwnFormsHold`, `ClientShowsIt`, `NobodyIsEverDropped` (with its two exceptions), `EchoesAreToldApart`, for any sessions, quests, items and handles, any chunk of the guild list and any number of tracked quests.

What the bridge translates, `TranslationsAreRight`, has an invariant of two halves. The tables, `TablesInv`: a table that has been read is what `Converted` makes of the client's file as it is, its slot what the login is compared with (`IsRead`), and the
instructions are wide if and only if UpgradeInfo is, which has to survive a read after the widening, a widening that fails and one after a read (`WidthAgrees`). `TablesHold` draws the four claims from it: a value is clamped column by column and read by the column's sign (`NoWrapping`), and a rank is
a place: ranks of n different rows are the numbers 1 to n (`AreRanks`, counted by `Cardinality`), so a row stands behind exactly the rows whose keys the server's file has earlier (`PlacesAgree`, `InStep`). The data, `DataInv`: what came out is the translation of
one of the samples. Four lemmas then say of every sample what the property says of it. `LayoutReads`: a list of segments is built up a segment at a time and at each length carries the bytes so far once and in order (`Covers`; `Copies` and `Skips`), from which each of the eighteen
layouts of either build follows by its shape. `BoxReads`: a record as the bridge makes it is as wide as the client takes its class to be, and taking the made byte out again gives the zone's attributes (`ItemReads`); by induction over the
records the walk stands where the next one starts (`WalkRule`, `Laid`), for boxes of any length. `CountersAtTheirRows`: each counter has a row of its own as long as the client has as many rows of the mob as there are counters of it, since fewer than that are used before (`Enough`), and what
follows for the kills past the five takes rows nobody has. `RewardsChosen`: a slot that was given is one of the same reward that nobody had. The sequences' `FlattenSeq` is a recursive function in the library, known by its rule and unrolled with `UpTo` (`JoinRule`, `Joins`).

`Induction` holds what these proofs use in place of induction over an operator: a nonempty set of natural numbers has a first number, a bounded one a last (`FirstNumber`, `LastNumber`), and a set that contains 0 and is closed under the next number holds every number
up to n (`UpTo`). The step of a recursive function or a fold is proved for a set of the numbers at which it is right.

Only model-checked: `EveryPartEnds` and `BagEventuallyLoads`, since liveness under fairness is out of the prover's reach.
No module of the project declares a recursive operator, so all of them can be proved about.

## What is not modelled

- Instruction decoding, trampolines, expression parsing, JSON and JSON limits, ini text: conversions whose result is an input of the models.
- The bytes of single recipes and the generated bindings: data about closed-source programs.
- Plugins that change one decision inside closed-source code: the model would restate their one line.
- `guild_storage_ext`: its side cells are allocated once for a guild and never change owner; `skillbar_keep` and the other window plugins: one call of the client each.
- The size limits of Character's packers and the rules of `dbhook.h`: arithmetic on constants of the closed program.
- Code detours, instruction lengths and trampolines of `hook_core.h`.
- `packet_guard`: a generated table of lengths; how it hooks is in `ProtocolTable`.
- Single parts of modelled plugins, named in their sections above and in `PROJECT.json`.
- Of `remote_control`: what answers contain (`peek`, `find`, `probe`, the window tree), display modes, the redirected
  connection and the socket's line buffer.

## Plan

Done, in the order of importance: the Void Inventory and the recipe runner with their proofs, loader, protocol tables, remote control,
quests, gates and instances, the three bridges, titles and vaults.

What is left:

1. `CharPack` (`character_symbols.h`, `char_void`): size limits of replies against a reference definition.
2. `Detours`: chains of code detours over one function, as `ProtocolTable` has them for table entries.
3. `DbRules` (`dbhook.h`), `guild_storage_ext`, `skillbar_keep`.

Theorems worth proving next: those of 1 and 2, once there are the modules, and what of `LoadedInOrder` is left with a second service routine.
