--------------------------- MODULE MCDataLoading ---------------------------
EXTENDS DataLoading
CONSTANTS h1, h2, b1, b2, b3

MCReplicas == (b1 :> {h1, h2}) @@ (b2 :> {h2}) @@ (b3 :> {h1})
MCHostOf == <<h1, h1, h2>>
MCLines == (b1 :> 1) @@ (b2 :> 0) @@ (b3 :> 4)
MCBlank == {<<b3, 2>>}
NoBlank == {}

Scenario(path, fmt, local, iters, walk) ==
  [path |-> path, fmt |-> fmt, local |-> local, iters |-> iters, walk |-> walk]

MCScenarios ==
  {Scenario("direct", f, l, 0, "none") : f \in {"parse", "binary"}, l \in BOOLEAN}
    \cup {Scenario("buffer", "raw", TRUE, 0, "none"), Scenario("buffer", "binary", TRUE, 1, "none"),
          Scenario("buffer", "parse", FALSE, 1, "none")}
    \cup {Scenario("store", "parse", FALSE, i, w) : i \in {0, 1},
            w \in {"iterator", "looper", "balance", "sampler", "batch"}}

BufferScenarios == {Scenario("buffer", "raw", FALSE, 0, "none")}
=============================================================================
