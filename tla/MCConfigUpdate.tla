--------------------------- MODULE MCConfigUpdate ---------------------------
(***************************************************************************)
(* Instances of ConfigUpdate for TLC.                                      *)
(***************************************************************************)
EXTENDS ConfigUpdate, TLC

\* An OS store that obeys, refuses or is not there throughout a run; one that
\* may refuse at any time.
SteadyBackends == {{"obeys"}, {"refuses"}, {"absent"}}
FlakyBackends == {{"obeys", "refuses"}}

Symmetry == Permutations(Provider) \cup Permutations(Url) \cup Permutations(Key)
============================================================================
