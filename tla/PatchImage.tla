----------------------------- MODULE PatchImage -----------------------------
(***************************************************************************)
(* A PE image as apply.py sees it (class Pe): the sites a recipe edits in  *)
(* place, the shared arenas that recipes carve regions out of, the arena   *)
(* directory, the import descriptors and the base relocations.             *)
(*                                                                         *)
(* Every operator is pure: it takes an image and returns the next image,   *)
(* or Refused where the code raises before anything is written to disk.    *)
(* Sizes are in an arbitrary unit.  Offsets are relative to the arena.     *)
(* No definition here is recursive: PatchProofs reasons about them.        *)
(***************************************************************************)
EXTENDS Integers, Sequences, FiniteSets

CONSTANTS
    Sites,           \* addresses of the stock image that edits name
    Backed,          \* those of them with file bytes behind them
    Key,             \* label -> label[:19], the name the arena directory keeps
    Refused,         \* the outcome of an operation that raises
    SectionAlign,    \* section_alignment, 0x1000
    FileAlign,       \* file_alignment, 0x200
    RegionAlign,     \* 16
    ArenaHeader,     \* ARENA_HEADER, 0x400
    ArenaDirAt,      \* ARENA_DIR_AT, 16: where the exec arena's regions begin
    ArenaDirMax,     \* ARENA_DIR_MAX: entries of the directory
    ArenaExecSize,   \* ARENA_EXEC_SIZE
    HeaderRoom,      \* section headers the stock image has room for
    StockImports,    \* import descriptors of the stock image
    StockRelocs      \* size of the stock base relocation directory

ASSUME AlignmentsOK ==
    /\ SectionAlign \in Nat \ {0} /\ FileAlign \in Nat \ {0} /\ RegionAlign \in Nat \ {0}
    /\ ArenaHeader \in Nat /\ ArenaDirAt \in Nat /\ ArenaDirMax \in Nat
    /\ ArenaExecSize \in Nat /\ ArenaDirAt <= ArenaExecSize /\ HeaderRoom \in Nat
    /\ StockImports \in Nat \ {0} /\ StockRelocs \in Nat
    /\ Backed \subseteq Sites

AlignDown(v, a) == v - (v % a)      \* wrong on purpose
Align(v, a) == v + ((a - (v % a)) % a)
Larger(a, b) == IF a > b THEN a ELSE b

\* what a 4-byte site can hold: a number, the address of a byte of an arena,
\* or a value too wide for the edit's width
Const(n) == [kind |-> "const", at |-> n]
Addr(arena, off) == [kind |-> arena, at |-> off]
TooWide == [kind |-> "wide", at |-> 0]

ImportLabel == "import descriptors"
RelocLabel == "base relocations"
ASSUME LabelsOK == ImportLabel \in DOMAIN Key /\ RelocLabel \in DOMAIN Key

Original == -1          \* a data directory that still points at the stock image

(***************************************************************************)
(* The image.  "given" and "did" are history: every region handed out, in  *)
(* order, and every recipe applied with the address it was given.          *)
(***************************************************************************)
Stock ==
    [sites   |-> [s \in Sites |-> Const(0)],
     arenas  |-> FALSE,          \* .zarenax and .zarena exist
     room    |-> HeaderRoom,
     usedX   |-> 0,              \* high-water marks
     usedD   |-> 0,
     vsizeD  |-> 0,              \* VirtualSize and SizeOfRawData of .zarena
     rawD    |-> 0,
     tail    |-> 0,              \* file bytes after the raw data of .zarena
     dir     |-> << >>,          \* arena directory: [key, exec, off, size]
     imports |-> StockImports,
     importsAt |-> Original,
     relocs  |-> {},             \* addresses added to the base relocations
     relocsAt |-> Original,
     given   |-> << >>,
     did     |-> << >>]

VsizeX == Align(ArenaExecSize, SectionAlign)

Value == [kind : {"const", "data", "exec"}, at : Nat]
RegionT == [label : DOMAIN Key, exec : BOOLEAN, off : Nat, size : Nat]
EntryT == [key : {Key[l] : l \in DOMAIN Key}, exec : BOOLEAN, off : Nat, size : Nat]

\* _ensure_arenas, with append_bss_section and _arena_init
EnsureArenas(img, hint) ==
    IF img.arenas THEN img
    ELSE IF img.room < 2 THEN Refused
    ELSE [img EXCEPT
            !.arenas = TRUE,
            !.room   = @ - 2,
            !.usedX  = ArenaDirAt,
            !.usedD  = ArenaHeader,
            !.vsizeD = Align(hint + ArenaHeader, SectionAlign),
            !.rawD   = Align(hint + ArenaHeader, FileAlign)]

\* _arena_record: a repeated key replaces its entry
Entry(label, exec, off, size) ==
    [key |-> Key[label], exec |-> exec, off |-> off, size |-> size]

SlotsOf(img, label) == {i \in DOMAIN img.dir : img.dir[i].key = Key[label]}

\* wrong on purpose: a repeated key gets a second entry
ArenaRecordAppends(img, label, exec, off, size) ==
    IF Len(img.dir) >= ArenaDirMax THEN Refused
    ELSE [img EXCEPT !.dir = Append(@, Entry(label, exec, off, size))]

ArenaRecord(img, label, exec, off, size) ==
    LET e == Entry(label, exec, off, size)
    IN  IF SlotsOf(img, label) # {}
        THEN [img EXCEPT !.dir = [i \in DOMAIN img.dir |->
                                    IF i \in SlotsOf(img, label) THEN e ELSE img.dir[i]]]
        ELSE IF Len(img.dir) >= ArenaDirMax THEN Refused
        ELSE [img EXCEPT !.dir = Append(@, e)]

\* _grow_data_arena: .zarena is the last section, so only its place in the file matters
GrowDataArena(img, need) ==
    IF need <= img.vsizeD THEN img
    ELSE IF img.tail # 0 THEN Refused
    ELSE [img EXCEPT !.vsizeD = need, !.rawD = Align(need, FileAlign)]

\* what every reserve hands out and records, once there is room for it
Region(label, exec, off, size) ==
    [label |-> label, exec |-> exec, off |-> off, size |-> size]

Carve(img, size, exec, label) ==
    LET off == Align(IF exec THEN img.usedX ELSE img.usedD, RegionAlign)
        used == IF exec THEN [img EXCEPT !.usedX = off + size]
                        ELSE [img EXCEPT !.usedD = off + size]
        kept == [used EXCEPT !.given = Append(@, Region(label, exec, off, size))]
    IN  ArenaRecord(kept, label, exec, off, size)

\* the room a region needs: the exec arena has a fixed size, the data arena grows
MakeRoom(img, size, exec) ==
    IF exec
    THEN IF Align(img.usedX, RegionAlign) + size > VsizeX THEN Refused ELSE img
    ELSE GrowDataArena(img, Align(img.usedD, RegionAlign) + size)

Reserve(img, size, exec, label) ==
    LET made == EnsureArenas(img, IF exec THEN 0 ELSE size)
    IN  IF made = Refused THEN Refused
        ELSE LET roomy == MakeRoom(made, size, exec)
             IN  IF roomy = Refused THEN Refused ELSE Carve(roomy, size, exec, label)

\* the region the last reserve handed out
Latest(img) == img.given[Len(img.given)]

\* offset_of for a byte of an arena: the data arena is backed up to SizeOfRawData
FileBacked(img, exec, off) == exec \/ off < img.rawD

\* a slice assignment into the file image may run past its end and lengthen it
LengthenAlways(img, exec, end) ==      \* wrong on purpose: taken for the end of the file
    IF exec THEN img ELSE [img EXCEPT !.tail = end - img.rawD]

Lengthen(img, exec, end) ==
    IF exec THEN img ELSE [img EXCEPT !.tail = Larger(@, end - img.rawD)]

\* arena_lookup
Lookup(img, label) == {img.dir[i] : i \in SlotsOf(img, label)}

(***************************************************************************)
(* A recipe: [label, size, exec] of its new_section (size 0: none),        *)
(* import (add_import), edits of stock sites [site, expect, write], one    *)
(* code blob of "blob" units at the start of the region with absolute      *)
(* operands at the offsets "abs", and pinned (target.sha256).              *)
(***************************************************************************)
NewBase == [kind |-> "newbase", at |-> 0]     \* the name @newbase in an expression

EditT == [site : Sites, expect : Value, write : Value \union {NewBase, TooWide}]
RecipeT ==
    [label : DOMAIN Key, size : Nat, exec : BOOLEAN, import : BOOLEAN, edits : Seq(EditT),
     blob : Nat, abs : SUBSET Nat, pinned : BOOLEAN]

HasRegion(r) == r.size > 0

Evaluate(v, base) == IF v = NewBase THEN base ELSE v
ArenaOf(exec) == IF exec THEN "exec" ELSE "data"
BaseOf(region) == Addr(ArenaOf(region.exec), region.off)

\* add_import: the copied descriptors, ours and the null one, then the names
AddImport(img) ==
    LET total == img.imports + 3
        got   == Reserve(img, total, FALSE, ImportLabel)
    IN  IF got = Refused THEN Refused
        ELSE LET off == Latest(got).off
             IN  IF \/ ~FileBacked(got, FALSE, off)
                    \/ off + total - 1 > got.rawD + got.tail     \* struct.pack_into past the end
                 THEN Refused
                 ELSE Lengthen([got EXCEPT !.imports = @ + 1, !.importsAt = off],
                               FALSE, off + total)

\* the validation pass, before anything is touched
EditOK(img, e, want, base) ==
    /\ e.site \in Backed
    /\ e.write # TooWide
    /\ img.sites[e.site] = Evaluate(want, base)

Validated(img, r, base) ==
    \A i \in DOMAIN r.edits : EditOK(img, r.edits[i], r.edits[i].expect, base)

\* edits are written in order, so the last one of a site stands
Edited(img, r, base) ==
    [img EXCEPT !.sites =
        [s \in Sites |->
            LET hits == {i \in DOMAIN r.edits : r.edits[i].site = s}
            IN  IF hits = {} THEN img.sites[s]
                ELSE Evaluate(r.edits[CHOOSE i \in hits : \A j \in hits : j <= i].write, base)]]

PlaceBlob(img, r, base) ==
    IF r.blob = 0 THEN img
    ELSE IF ~FileBacked(img, r.exec, base.at) THEN Refused
    ELSE Lengthen(img, r.exec, base.at + r.blob)

AbsSites(r, base) == {Addr(base.kind, base.at + k) : k \in r.abs}

\* wrong on purpose: the old directory is not copied
RelocationsReplaced(img, addrs) ==
    LET new == addrs \ img.relocs
        got == Reserve(img, StockRelocs + Cardinality(new), FALSE, RelocLabel)
    IN  IF new = {} THEN img
        ELSE IF got = Refused THEN Refused
        ELSE [got EXCEPT !.relocs = new, !.relocsAt = Latest(got).off]

\* add_relocations: the directory is copied into a region with the new sites appended
AddRelocations(img, addrs) ==
    LET new   == addrs \ img.relocs
        total == StockRelocs + Cardinality(img.relocs) + Cardinality(new)
        got   == Reserve(img, total, FALSE, RelocLabel)
    IN  IF new = {} THEN img
        ELSE IF got = Refused THEN Refused
        ELSE LET off == Latest(got).off
             IN  IF ~FileBacked(got, FALSE, off) THEN Refused
                 ELSE Lengthen([got EXCEPT !.relocs = @ \union new, !.relocsAt = off],
                               FALSE, off + total)

\* main() from the reserve to the finished in-memory image, one stage after another
Reserved(img, r) == IF HasRegion(r) THEN Reserve(img, r.size, r.exec, r.label) ELSE img

Finish(img, r, base) ==
    IF ~Validated(img, r, base) THEN Refused
    ELSE LET placed == PlaceBlob(Edited(img, r, base), r, base)
         IN  IF placed = Refused THEN Refused
             ELSE LET moved == AddRelocations(placed, AbsSites(r, base))
                  IN  IF moved = Refused THEN Refused
                      ELSE [moved EXCEPT !.did = Append(@, [recipe |-> r, base |-> base])]

Applied(img, r, allowMismatch) ==
    IF r.pinned /\ img # Stock /\ ~allowMismatch THEN Refused
    ELSE LET one == Reserved(img, r)
         IN  IF one = Refused THEN Refused
             ELSE LET base == IF HasRegion(r) THEN BaseOf(Latest(one)) ELSE Const(0)
                      two  == IF r.import THEN AddImport(one) ELSE one
                  IN  IF two = Refused THEN Refused ELSE Finish(two, r, base)

\* --verify: the region from the directory, every site, every absolute operand
HoldsAt(img, r, base) ==
    /\ \A i \in DOMAIN r.edits : EditOK(img, r.edits[i], r.edits[i].write, base)
    /\ AbsSites(r, base) \subseteq img.relocs

Verified(img, r) ==
    IF ~HasRegion(r) THEN HoldsAt(img, r, Const(0))
    ELSE \E e \in Lookup(img, r.label) : e.size >= r.size /\ HoldsAt(img, r, BaseOf(e))
=============================================================================
