----------------------------- MODULE MCEvidence -----------------------------
(***************************************************************************)
(* Calls and browser history.  The views "all calls" and "incoming calls"  *)
(* are on two tabs and share rows; the history of two browsers shares a    *)
(* table and is restricted by bwhere.  Both tables keep the numbers of the *)
(* device.                                                                 *)
(***************************************************************************)
EXTENDS Evidence, TLC

CONSTANTS incoming, missed, chrome, firefox, eventLog, historyTable,
          allCalls, incomingCalls, chromeView

Calls == {incoming, missed}

MCTableOf == [p \in Parts |-> IF p \in Calls THEN eventLog ELSE historyTable]
MCShows == [v \in Views |-> CASE v = allCalls -> Calls \intersect Parts
                              [] v = incomingCalls -> {incoming}
                              [] v = chromeView -> {chrome}]
MCSavesTo == [v \in Views |-> IF v = chromeView THEN historyTable ELSE eventLog]
MCRestricts == [v \in Views |-> IF v = chromeView THEN {chrome} ELSE Parts]
MCGroups == {{allCalls, incomingCalls}, {chromeView}} \intersect SUBSET Views

MCSymmetry == Permutations(Cases) \union Permutations(Ids) \union Permutations(Copies)
=============================================================================
