------------------------ MODULE MCInsightsDatabase -------------------------
(* Instances of InsightsDatabase for TLC. *)
EXTENDS InsightsDatabase, TLC

CONSTANTS a, b, box, i1, i2, requests, tokens

\* Two tenants have a box of the same name; one reports a delta and the other a
\* cumulative series.
MCOwner == i1 :> [tenant |-> a, box |-> box] @@ i2 :> [tenant |-> b, box |-> box]
MCInstanceOf == requests :> i1 @@ tokens :> i2

MCLimit == requests :> 1 @@ tokens :> 3

\* The clock of one workspace is ahead; counters also come late, within raw
\* retention and past it.
MCAges == requests :> {-1} @@ tokens :> {0, 2, 6}

\* Readings 1 and 2 of a counter, and a reading after it has restarted.
MCCounters == {<<0, 1>>, <<0, 2>>, <<1, 1>>}

\* Windows of two instants: commits can lie on their ends and outside.
MCRanges == {<<-1, 1>>, <<1, 7>>}

Symmetry == Permutations(Shas)
=============================================================================
