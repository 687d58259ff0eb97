-------------------------- MODULE MCExtractionJobs --------------------------
(* The instances of MCExtraction with the options as jobs of Custody.      *)
EXTENDS MCExtraction, ExtractionJobs

(* Options that are announced, but that no branch compares equal.          *)
MCTwoSkipped == {<<strings, strings>>}
=============================================================================
