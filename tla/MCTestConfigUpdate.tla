------------------------- MODULE MCTestConfigUpdate -------------------------
(* TestConfigUpdate for TLC: one HAL with its four categories.             *)
EXTENDS TestConfigUpdate

C(t, d) == [timeout |-> t, disable |-> d]

\* The kinds of configuration in the repository, the first as most target tests
\* have it, the second as biometrics/face and automotive/evs, the third as most
\* host tests.
SomeConfigures == {C("15m", "true"), C("5m", "false"), C(NoOption, "absent")}
=============================================================================
