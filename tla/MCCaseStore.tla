---------------------------- MODULE MCCaseStore ----------------------------
(* Two cases, one of them called like a device directory beside the other. *)
EXTENDS CaseStore, TLC

CONSTANTS amal, nimal, disk1, disk2

MCCaseIds == {1, 12}
MCDeviceIds == {2}
MCUsers == {amal, nimal}
MCOneRoot == {disk1}
MCTwoRoots == {disk1, disk2}

Symmetry == Permutations(MCUsers) \union Permutations(MCTwoRoots)
=============================================================================
