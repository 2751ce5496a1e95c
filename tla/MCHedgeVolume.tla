--------------------------- MODULE MCHedgeVolume ---------------------------
EXTENDS HedgeVolume

\* To 0.06 lots; 0.33, 0.5, 1 and 2 times; contract sizes that are unknown, the
\* same, and three times as large at the Client; steps of 0.01, 0.02 and 0.05 (0 is
\* refused); a minimum the step does not divide too.
Configurations ==
    [master : 0 .. 6, multiplier : {33, 50, 100, 200},
     rounding : {"DOWN", "NEAREST"}, belowMin : {"SKIP", "USE_MIN"},
     min : {1, 2, 5}, max : {8, 20}, step : {0, 1, 2, 5},
     masterSize : {0, 10}, clientSize : {10, 30}]

\* To 0.12 lots, for long series of partial closes of a Client with half or less.
LongSeries ==
    [master : 7 .. 12, multiplier : {33, 50}, rounding : {"DOWN", "NEAREST"},
     belowMin : {"SKIP"}, min : {1}, max : {8}, step : {1, 2},
     masterSize : {10}, clientSize : {10, 30}]

MCCases == Configurations \cup LongSeries

\* No limit, and limits that bind at the volumes above.
MCAccounts ==
    {[perOrder |-> NoLimit, total |-> 0, maxTotal |-> NoLimit, pairs |-> 0, maxPairs |-> NoLimit],
     [perOrder |-> 3, total |-> 2, maxTotal |-> 5, pairs |-> 1, maxPairs |-> 2],
     [perOrder |-> NoLimit, total |-> 4, maxTotal |-> 5, pairs |-> 2, maxPairs |-> 2]}
=============================================================================
