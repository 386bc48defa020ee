----------------------------- MODULE VaultJobs -----------------------------
(***************************************************************************)
(* zone/plugins/vault_jobs: mystery vaults with rows for one job.  The     *)
(* plugin answers two questions the zone asks while it opens a vault, and  *)
(* refuses by reporting no free slot; the zone's walk is as its header     *)
(* describes it.                                                           *)
(***************************************************************************)
EXTENDS Integers, FiniteSets, Sequences

CONSTANTS
    LineOf,    \* class -> its base class
    Jobs,      \* classes MysteryVaultServer has job rows for: g_high
    MaxRows, MaxFree  \* bounds: rows of a vault, free slots

VaultJobsOK == Jobs \subseteq DOMAIN LineOf /\ MaxRows \in Nat /\ MaxFree \in Nat

Classes == DOMAIN LineOf
\* a row of MysteryVaultServer: for everyone, for a class line, or for one job (kJobBase + its class)
Rows == {<<"all", 0>>} \cup {<<"line", LineOf[c]>> : c \in Classes} \cup {<<"job", c>> : c \in Jobs}

NoTable == {}
VARIABLES
    high,    \* g_high as it was read; NoTable when it could not be
    vault,   \* the rows of the vault that is opened
    rolled,  \* rows that passed their rate roll
    asked,   \* rows IsCheckClassType was asked about
    open,    \* t_open: the player's class, or none; job_rows, job_match and refused
    free,    \* free slots of his inventory
    made, err
vars == <<high, vault, rolled, asked, open, free, made, err>>

Closed == [player |-> 0, job_rows |-> FALSE, job_match |-> FALSE, refused |-> FALSE]
-----------------------------------------------------------------------------
\* mutated: a job row passes for its whole line
PassesByLine(row, c) ==
    row[1] = "all" \/ (row[1] = "line" /\ row[2] = LineOf[c]) \/ (row[1] = "job" /\ LineOf[row[2]] = LineOf[c])
\* check_impl; the stock check of the others
Passes(row, c) ==
    row[1] = "all" \/ (row[1] = "line" /\ row[2] = LineOf[c]) \/ (row[1] = "job" /\ row[2] = c)

\* make_impl: the zone begins with a state of its own
Open(c) ==
    /\ open = Closed /\ err = "none"
    /\ open' = [Closed EXCEPT !.player = c]
    /\ UNCHANGED <<high, vault, rolled, asked, free, made, err>>

\* the zone asks for each row that passed its roll
Check(i) ==
    /\ open.player # 0 /\ i \in rolled \ asked /\ (\A j \in rolled \ asked : i =< j) /\ asked' = asked \cup {i}
    /\ LET job == vault[i][1] = "job" IN
       open' = [open EXCEPT !.job_rows = @ \/ job, !.job_match = @ \/ (job /\ Passes(vault[i], open.player))]
    /\ UNCHANGED <<high, vault, rolled, free, made, err>>

\* mutated: who has no rows here is refused whatever his job
RefusesStrangers(o) == o.job_rows /\ ~o.job_match
\* empty_impl
Refuses(o) == o.job_rows /\ ~o.job_match /\ o.player \notin high

\* no row for him; no room, which a refusal pretends; or every row's item
Finish ==
    /\ open.player # 0 /\ asked = rolled
    /\ LET his == {i \in rolled : Passes(vault[i], open.player)}
           room == IF Refuses(open) THEN 0 ELSE free
       IN /\ made' = IF room < Cardinality(his) THEN {} ELSE his
          /\ err' = CASE his = {} -> "nothing" [] his # {} /\ Refuses(open) -> "class"
                      [] OTHER -> IF room < Cardinality(his) THEN "full" ELSE "ok"
    /\ open' = Closed
    /\ UNCHANGED <<high, vault, rolled, asked, free>>

Init ==
    /\ high \in {Jobs, NoTable}
    /\ \E n \in 0 .. MaxRows : vault \in [1 .. n -> Rows] /\ rolled \in SUBSET (1 .. n)
    /\ asked = {} /\ open = Closed /\ free \in 0 .. MaxFree /\ made = {} /\ err = "none"
Next == (\E c \in Classes : Open(c)) \/ (\E i \in rolled : Check(i)) \/ Finish
Spec == Init /\ [][Next]_vars
-----------------------------------------------------------------------------
\* "A vault that has such rows is REFUSED as a whole to a character who has none of the HIGH JOBS" (header): nothing of it is
\* made for him, and nothing is held back from who has one, with rows there or not, nor from anybody at a vault without such
\* rows, but for want of room; he gets the rows of his own.  It is claimed where the roll does not hide the rows that decide:
\* the code judges by the rows that came up, so a vault of which no job's row did, or not the player's own, is opened, or
\* refused, by the others.
VaultsByJob ==
    [][Finish =>
        LET c == open.player
            all == DOMAIN vault
            jobRow(S) == \E i \in S : vault[i][1] = "job"
            own(S) == \E i \in S : vault[i] = <<"job", c>>
            refused == jobRow(all) /\ c \notin high /\ ~own(all)
            shown == (jobRow(all) => jobRow(rolled)) /\ (own(all) => own(rolled))
            his == {i \in rolled : vault[i] \in {<<"all", 0>>, <<"line", LineOf[c]>>, <<"job", c>>}}
            gets == made' = his /\ err' = IF his = {} THEN "nothing" ELSE "ok"
            fails == made' = {} /\ err' # "ok"
        IN  /\ gets \/ fails
            /\ c \in high \/ shown => IF refused \/ Cardinality(his) > free THEN fails ELSE gets]_vars
=============================================================================
