------------------------------ MODULE MCStores ------------------------------
(* Two small systems a run takes one of: the recipes on their image files (MCPatchRun) *)
(* and the zone's stores for a player (MCZoneStorage).  The other rests in one state.  *)
EXTENDS MCZoneStorage, MCPatchRun

VARIABLE followed    \* "recipes" or "stores"

\* where the items lie while the recipes are followed
Aside == CHOOSE r \in [Items -> Places] : \A i, j \in Items : r[i].bag # kVoidBagId /\ (r[i] = r[j] => i = j)

StoresInit ==
    /\ followed \in {"recipes", "stores"}
    /\ followed = "stores" \/ (part = "bag" /\ row = Aside)
    /\ StorageInit /\ PatchInit
    /\ followed = "stores" \/ \A c \in Chars : pages[c] = 0
StoresNext ==
    \/ followed = "recipes" /\ PatchNext /\ UNCHANGED <<followed, part, vars, titleVars, vaultVars>>
    \/ followed = "stores" /\ StorageNext /\ UNCHANGED <<followed, patchVars>>
StoresSpec == StoresInit /\ [][StoresNext]_<<followed, part, vars, titleVars, vaultVars, patchVars>>
=============================================================================
