--------------------------- MODULE MCRequireSearch ---------------------------
EXTENDS RequireSearch

CONSTANTS p, q

NoConfig == [paths |-> <<>>, alias |-> None, bad |-> FALSE]
Broken == [NoConfig EXCEPT !.bad = TRUE]
Paths(s) == [NoConfig EXCEPT !.paths = s]
Alias(v) == [NoConfig EXCEPT !.alias = v]

MCConfigs == {NoConfig, Broken, Paths(<<p, q>>), Alias(p),
              [Paths(<<q>>) EXCEPT !.alias = q]}
============================================================================
