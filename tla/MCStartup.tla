------------------------------ MODULE MCStartup ------------------------------
(* The loader: folders of three and four plugins with the after= lines that matter:    *)
(* none, a chain, a diamond, cycles of one to three, a file that is not there, a name  *)
(* too many, and lines that order against the listing.  The start: the code's four     *)
(* Tabs on a form the player may touch; two characters on the shown page and one on    *)
(* the next.  The calls: a few commands and a burst of one frame.                      *)
EXTENDS Startup, TLC

CONSTANTS dA, dB, dC, dD, missing, t1, t2

None == -1

FourPlugins == <<dA, dB, dC, dD>>
AllNames == {dA, dB, dC, dD, missing}
Lines == {<< >>, <<missing, dA>>, <<dB>>, <<dC>>, <<dC, dB>>}

\* every combination for three plugins
ThreeLines == [{dA, dB, dC} -> Lines]

\* with a fourth plugin behind the three, and chosen ones for four
Four(w, x, y, z) == dA :> w @@ dB :> x @@ dC :> y @@ dD :> z
FourLines ==
    {Four(<< >>, << >>, << >>, << >>),
     Four(<<dC>>, << >>, << >>, <<missing, dA>>),         \* common/test/test_loader.cpp
     Four(<<dB>>, <<dC>>, <<dD>>, << >>),                  \* a chain against the listing
     Four(<<dB, dC>>, <<dD>>, <<dD>>, << >>),               \* a diamond
     Four(<<dB>>, <<dA, dC>>, <<dD>>, <<missing>>),         \* a cycle that leads out
     Four(<<dC, dD>>, << >>, <<dA>>, <<dB>>),
     Four(<<dB>>, <<dC>>, <<dA>>, <<dA>>),                  \* a cycle of three, and one behind it
     Four(<<dB, dC, dD>>, << >>, << >>, << >>),            \* one name more than an entry holds
     Four(<<dA, dD>>, << >>, <<dC>>, <<missing>>)}         \* itself

\* one routine of a service with all of them, and two threads of the client with the chosen ones
ServiceOrClient ==
    {[mode |-> "service", threads |-> {t1}, after |-> a] :
        a \in FourLines \cup {Four(f[dA], f[dB], f[dC], << >>) : f \in ThreeLines}}
    \cup {[mode |-> "client", threads |-> {t1, t2}, after |-> a] : a \in FourLines}
=============================================================================
