--------------------------- MODULE MCRequireChain ---------------------------
EXTENDS RequireChain

MCCwd == <<"u", "p">>

\* "./a", "b", "d//b", "../a", "d/./../b", "../../../../a"
Usual == {Relative(c): c \in {<<".", "a">>, <<"b">>, <<"d", "", "b">>, <<"..", "a">>,
                               <<"d", ".", "..", "b">>, <<"..", "..", "..", "..", "a">>}}
Aliases == {Absolute(<<"lib", "..", "..", "v", ".", "a">>), Absolute(<<"u", "p", "a">>)}
Directories == {Absolute(<<"u", "lib">>)}

\* The conditions of the theorems hold here.
ASSUME ConditionAssumption == PlainDirectories /\ EndsInNames /\ ~Climbs /\ MainDir = Cwd
============================================================================
