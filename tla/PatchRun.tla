------------------------------ MODULE PatchRun ------------------------------
(***************************************************************************)
(* Runs of apply.py and build.py over the image files of a directory.      *)
(*                                                                         *)
(* apply.py is one process: it reads --exe, works on an in-memory copy and *)
(* touches the disk only at its end, where opening --out for writing       *)
(* truncates it and the write follows.  build.py chains apply.py runs      *)
(* through temporary files, verifies EVERY recipe of the chain on the last *)
(* of them and only then copies it to --out, which truncates and writes    *)
(* too.  A process can be killed between any two steps, and inside the     *)
(* write: what is then on disk is a prefix of the image.  Pe() looks at    *)
(* the headers only, so a prefix that has them is taken for an image.      *)
(***************************************************************************)
EXTENDS PatchImage

CONSTANTS
    Paths,          \* image files a user names
    StockPath,      \* the one that holds the stock image to begin with
    Outs,           \* those named as --out
    Recipes,        \* recipe files
    MaxChain,       \* bound: recipes of one build chain
    MaxApplied,     \* bound: recipes applied to one image
    MayOverwrite,   \* may a user name one file as both --exe and --out?
    Absent, Torn,   \* no such file; a file too short for its headers, which Pe() refuses
    Cut             \* a file with its headers that lacks its end, or one made from such a file: nothing is known of it

ASSUME RunConstantsOK ==
    /\ StockPath \in Paths /\ Outs \subseteq Paths
    /\ MaxChain \in Nat /\ MaxApplied \in Nat /\ MayOverwrite \in BOOLEAN
    /\ \A r \in Recipes : r \in RecipeT /\ IsFiniteSet(r.abs)
    /\ Absent # Torn /\ Cut \notin {Absent, Torn, Refused}

\* What a recipe expects and writes, where it does not write @newbase, are numbers of the program it was read out of: it
\* cannot name a byte of an arena, since what an arena holds where depends on the recipes that ran before.
ASSUME PlainNumbers ==
    \A r \in Recipes : \A i \in DOMAIN r.edits :
        /\ r.edits[i].expect.kind = "const"
        /\ r.edits[i].write \in {NewBase, TooWide} \/ r.edits[i].write.kind = "const"

VARIABLES
    files,     \* path -> image, Absent, Torn or Cut
    mode,      \* the run: "none", "apply" (apply.py by hand) or "build"
    pc,        \* "idle", "chain", "verify", "open", "write", "rest"
    exe,       \* --exe of the run
    out,       \* --out of the run
    img,       \* the image in memory, or in the last temporary file of a build
    chain,     \* the recipes of the run
    next,      \* index of the recipe being applied or verified
    bad,       \* recipes that did not verify
    held,      \* the run's first recipe has a hash and --exe had to match it
    sure,      \* history: path -> how many of the last recipes of its image were verified
    made       \* history: path -> how its file came about: "given", "killed" (or still being written), by a finished
               \* run that was held to the hash ("checked") or by one that was not ("waived")

onDisk == <<files, sure, made>>
patchVars == <<mode, pc, exe, out, img, chain, next, bad, held, onDisk>>

Chains == UNION {[1 .. n -> Recipes] : n \in 1 .. MaxChain}

PatchInit ==
    /\ files = [p \in Paths |-> IF p = StockPath THEN Stock ELSE Absent]
    /\ mode = "none" /\ pc = "idle" /\ exe = StockPath /\ out = StockPath
    /\ img = Stock /\ chain = << >> /\ next = 1 /\ bad = 0 /\ held = FALSE
    /\ sure = [p \in Paths |-> 0] /\ made = [p \in Paths |-> "given"]

\* a file Pe() accepts, with room under the bound for n more recipes
Readable(p, n) ==
    /\ files[p] \notin {Absent, Torn}
    /\ files[p] # Cut => Len(files[p].did) + n <= MaxApplied

\* What main() can come to.  Of a cut file the hash is not the recorded one; past the hash it depends on what is missing:
\* a site, a directory or the arena header behind the end raises, and what lies before it is taken as it is.
Outcomes(im, r, allow) ==
    IF im # Cut THEN {Applied(im, r, allow)}
    ELSE IF r.pinned /\ ~allow THEN {Refused} ELSE {Refused, Cut}

\* what --verify can answer
Verdicts(im, r) == IF im = Cut THEN BOOLEAN ELSE {Verified(im, r)}

Named(e, o) == o # e \/ MayOverwrite

Start(m, p, e, o, image, c, pin) ==
    /\ mode' = m /\ pc' = p /\ exe' = e /\ out' = o
    /\ img' = image /\ chain' = c /\ next' = 1 /\ bad' = 0 /\ held' = pin
    /\ UNCHANGED onDisk

\* the process is gone, whatever it held in memory and in temporary files with it
Gone ==
    /\ mode' = "none" /\ pc' = "idle" /\ exe' = StockPath /\ out' = StockPath
    /\ img' = Stock /\ chain' = << >> /\ next' = 1 /\ bad' = 0 /\ held' = FALSE

\* apply.py RECIPE --exe e --out o [--allow-hash-mismatch], up to the open of --out;
\* a run that refuses has touched nothing
StartApply(e, o, r, allow) ==
    /\ pc = "idle" /\ Readable(e, 1) /\ Named(e, o)
    /\ \E res \in Outcomes(files[e], r, allow) \ {Refused} :
         Start("apply", "open", e, o, res, <<r>>, r.pinned /\ ~allow)

\* build.py --exe e --out o
StartBuild(e, o, c) ==
    /\ pc = "idle" /\ Readable(e, Len(c)) /\ Named(e, o)
    /\ Start("build", "chain", e, o, files[e], c, c[1].pinned)

\* apply(): only the first recipe must match the recorded hash
Chained(res) ==
    IF res = Refused THEN Gone
    ELSE /\ img' = res
         /\ IF next < Len(chain) THEN next' = next + 1 /\ pc' = pc
                                 ELSE next' = 1 /\ pc' = "verify"
         /\ UNCHANGED <<mode, exe, out, chain, bad, held>>

\* wrong on purpose: no recipe of a build is held to its hash
ApplyNextUnchecked ==
    /\ pc = "chain"
    /\ \E res \in Outcomes(img, chain[next], TRUE) : Chained(res)
    /\ UNCHANGED onDisk

ApplyNext ==
    /\ pc = "chain"
    /\ \E res \in Outcomes(img, chain[next], next > 1) : Chained(res)
    /\ UNCHANGED onDisk

\* the loop over the chain on the final image, with "now" recipes that did not hold so far; if any, nothing is written
Verifying(now) ==
    IF next = Len(chain) /\ now > 0 THEN Gone
    ELSE /\ bad' = now
         /\ IF next < Len(chain) THEN next' = next + 1 /\ pc' = pc
                                 ELSE next' = next /\ pc' = "open"
         /\ UNCHANGED <<mode, exe, out, img, chain, held>>

\* wrong on purpose: only the last recipe's verdict counts
VerifyNextForgets ==
    /\ pc = "verify"
    /\ \E ok \in Verdicts(img, chain[next]) : Verifying(IF ok THEN 0 ELSE 1)
    /\ UNCHANGED onDisk

VerifyNext ==
    /\ pc = "verify"
    /\ \E ok \in Verdicts(img, chain[next]) : Verifying(bad + (IF ok THEN 0 ELSE 1))
    /\ UNCHANGED onDisk

\* open(out, "wb") in apply.py and inside shutil.copyfile: the file is empty from here on
OpenOut ==
    /\ pc = "open"
    /\ files' = [files EXCEPT ![out] = Torn]
    /\ sure' = [sure EXCEPT ![out] = 0]
    /\ made' = [made EXCEPT ![out] = "killed"]
    /\ pc' = "write"
    /\ UNCHANGED <<mode, exe, out, img, chain, next, bad, held>>

\* the write up to some byte behind the headers
WriteSome ==
    /\ pc = "write"
    /\ files' = [files EXCEPT ![out] = Cut]
    /\ pc' = "rest"
    /\ UNCHANGED <<mode, exe, out, img, chain, next, bad, held, sure, made>>

WriteOut ==
    /\ pc = "rest"
    /\ files' = [files EXCEPT ![out] = img]
    /\ sure' = [sure EXCEPT ![out] = IF mode = "build" THEN Len(chain) ELSE 0]
    /\ made' = [made EXCEPT ![out] = IF held THEN "checked" ELSE "waived"]
    /\ Gone

Kill == pc # "idle" /\ Gone /\ UNCHANGED onDisk

PatchNext ==
    \/ \E e \in Paths, o \in Outs, r \in Recipes, allow \in BOOLEAN : StartApply(e, o, r, allow)
    \/ \E e \in Paths, o \in Outs, c \in Chains : StartBuild(e, o, c)
    \/ ApplyNext \/ VerifyNext \/ OpenOut \/ WriteSome \/ WriteOut \/ Kill

PatchSpec == PatchInit /\ [][PatchNext]_patchVars

-----------------------------------------------------------------------------
(* The images there are that every byte is known of: on disk, and the one a run works on. *)
IsImage(im) == im \notin {Absent, Torn, Cut}
Images == {im \in {files[p] : p \in Paths} \union {img} : IsImage(im)}

Image ==
    [sites : [Sites -> Value], arenas : BOOLEAN, room : Nat,
     usedX : Nat, usedD : Nat, vsizeD : Nat, rawD : Nat, tail : Nat,
     dir : Seq(EntryT),
     imports : Nat, importsAt : Nat \union {Original},
     relocs : SUBSET Value, relocsAt : Nat \union {Original},
     given : Seq(RegionT), did : Seq([recipe : Recipes, base : Value])]

ASSUME NoneIsAnImage == Absent \notin Image /\ Torn \notin Image /\ Cut \notin Image

\* Every image has the declared shape: in particular no mark, size or tail goes negative.
PatchTypeOK ==
    /\ files \in [Paths -> Image \union {Absent, Torn, Cut}]
    /\ mode \in {"none", "apply", "build"}
    /\ pc \in {"idle", "chain", "verify", "open", "write", "rest"}
    /\ exe \in Paths /\ out \in Paths
    /\ img \in Image \union {Cut} /\ held \in BOOLEAN /\ chain \in Seq(Recipes)
    /\ next \in Nat \ {0} /\ bad \in Nat
    /\ sure \in [Paths -> Nat] /\ made \in [Paths -> {"given", "killed", "checked", "waived"}]

End(region) == region.off + region.size

Placed(im, region) ==
    /\ region.off % RegionAlign = 0
    /\ IF region.exec THEN ArenaDirAt <= region.off /\ End(region) <= im.usedX
                      ELSE ArenaHeader <= region.off /\ End(region) <= im.usedD

Apart(a, b) == a.exec # b.exec \/ End(a) <= b.off \/ End(b) <= a.off

\* Regions of one image are aligned, lie behind the arena header, below the high-water mark and
\* inside the section, and no two of them overlap, whatever recipes were stacked in however many runs.
RegionsSound(im) ==
    /\ \A i \in DOMAIN im.given : Placed(im, im.given[i])
    /\ \A i, j \in DOMAIN im.given : i # j => Apart(im.given[i], im.given[j])
    /\ im.usedX <= VsizeX /\ im.usedD <= im.vsizeD

RegionsNeverOverlap == \A im \in Images : RegionsSound(im)

\* What the arena directory says of a name is the region last handed out under it: the address
\* the plugins look up at run time and --verify resolves @newbase with.
DirectoryCurrent(im) ==
    \A i \in DOMAIN im.given :
        (\A j \in DOMAIN im.given : j > i => Key[im.given[j].label] # Key[im.given[i].label])
        => Lookup(im, im.given[i].label) =
             {Entry(im.given[i].label, im.given[i].exec, im.given[i].off, im.given[i].size)}

DirectoryTellsTheTruth == \A im \in Images : DirectoryCurrent(im)

\* A whole image: each edited site holds the write of the last recipe that edits it, every import and every absolute
\* operand of every recipe is there, and nothing else is.
EditsOf(d, s) == {i \in DOMAIN d.recipe.edits : d.recipe.edits[i].site = s}

LastWrite(d, s) ==
    LET i == CHOOSE k \in EditsOf(d, s) : \A j \in EditsOf(d, s) : j <= k
    IN  Evaluate(d.recipe.edits[i].write, d.base)

Whole(im) ==
    /\ \A s \in Sites :
         LET by == {k \in DOMAIN im.did : EditsOf(im.did[k], s) # {}}
         IN  im.sites[s] = IF by = {} THEN Const(0)
                           ELSE LastWrite(im.did[CHOOSE k \in by : \A j \in by : j <= k], s)
    /\ im.imports = StockImports + Cardinality({k \in DOMAIN im.did : im.did[k].recipe.import})
    /\ im.relocs = UNION {AbsSites(im.did[k].recipe, im.did[k].base) : k \in DOMAIN im.did}

\* "ALL OR NOTHING" (apply.py): every image a run ends up with or finishes writing consists of whole recipes, unless the run
\* read a file that lacks its end; and such a file, which a kill in the middle of a write leaves, gets into the result of a
\* finished run only where --exe was not held to the recorded hash.
AllOrNothing ==
    /\ \A im \in Images : Whole(im)
    /\ \A p \in Paths : made[p] = "checked" => files[p] # Cut

\* A file build.py wrote holds every recipe of its chain, each with the address that recipe was
\* given: no later recipe of the chain took a site, a name or a relocation away from it.
BuildHolds ==
    \A p \in Paths : IsImage(files[p]) =>
        \A k \in DOMAIN files[p].did : k > Len(files[p].did) - sure[p] =>
            HoldsAt(files[p], files[p].did[k].recipe, files[p].did[k].base)

\* _grow_data_arena: "Once an arena carries real bytes it must carry them all the way to its end:
\* a region past SizeOfRawData reads as the loader's zero-fill".
BytesToTheEnd == \A im \in Images : im.usedD <= im.rawD

=============================================================================
