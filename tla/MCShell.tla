------------------------------ MODULE MCShell ------------------------------
EXTENDS Shell

Cmd(p, n) == [prog |-> p, units |-> n, amp |-> FALSE, from |-> "pipe", to |-> "pipe"]
Background(s) == [s EXCEPT !.amp = TRUE]
From(s, f) == [s EXCEPT !.from = f]
To(s, f) == [s EXCEPT !.to = f]

Small == Cmd("emit", Capacity)
Large == Cmd("emit", Capacity + 1)
Cat == Cmd("copy", Capacity + 2)
HeadOne == Cmd("copy", 1)

\* With a pipe of one unit: commands alone, in the background and redirected; pipelines of
\* two and three stages that fit, that do not, that end early, and that have a
\* stage in the background, redirected, or not to be found.
MCLines ==
  { <<Cmd("exit", 0)>>, <<Background(Large)>>, <<To(Small, "file")>>, <<From(Cat, "file")>>,
    <<Small, Cat>>, <<Large, Cat>>, <<Background(Large), HeadOne>>,
    <<Cmd("exit", 0), Cat>>, <<Small, From(Cat, "file")>>, <<To(Large, "none"), Cat>>,
    <<Small, From(Cat, "none")>>,
    <<Small, Cat, Cat>>, <<Background(Large), Background(Cat), Cat>>,
    <<Background(Large), HeadOne, Cat>>, <<Small, Cmd("missing", 0), Cat>> }
=============================================================================
