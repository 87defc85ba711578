--------------------------- MODULE MCReviewPosting ---------------------------
(* Three findings on one line: the first two alike, the second severe, the  *)
(* third without a word to know it by.                                      *)
EXTENDS ReviewPosting

LineOfFinding     == <<"a", "a", "a">>
DomainOfFinding   == <<"quality", "security", "quality">>
SeverityOfFinding == <<1, 3, 2>>
TwinFindings      == {{1}, {2}, {1, 2}}

\* Whatever a synthesis cites, consolidating loses no finding.
ASSUME ConsolidationAssumption == ConsolidateCovers
==============================================================================
