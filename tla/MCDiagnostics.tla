--------------------------- MODULE MCDiagnostics ---------------------------
\* Values of the constants of Diagnostics.
EXTENDS Diagnostics

\* Texts of one-byte characters, every kind of character, and surrogates without a
\* partner, in places where the conversion replaces them.
SomeTexts == {<<"1", "1", "1", "1", "1">>, <<"3", "3", "2", "1">>, <<"L", "T", "L">>,
              <<"1", "T">>, <<"1", "1", "1">>}

\* The hypotheses of the theorems of DiagnosticsProofs.
ASSUME HypothesesAssumption ==
  /\ 1 \notin FieldRecords /\ 0 \notin Buffers
  /\ \A t \in Texts : NoTwoLeads(t) /\ \A n \in Buffers : 3 * n <= MaxShort \/ 3 * Len(t) < MaxShort
============================================================================
