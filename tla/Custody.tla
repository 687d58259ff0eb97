------------------------------ MODULE Custody -------------------------------
(***************************************************************************)
(* What every part of the program that brings evidence into the store of a *)
(* case promises.  A job belongs to the case that was open when it was     *)
(* started and is announced in that case's log, or its log entry was lost. *)
(* What it files goes to its own case, unless the open case was changed    *)
(* under it.  Jobs overwrite each other's evidence; a job that has ended   *)
(* files nothing any more.                                                 *)
(***************************************************************************)
CONSTANTS
  Jobs,        (* pieces of work                                            *)
  Cases,       (* forensic cases                                            *)
  NoCase       (* the case of a job that was not started                    *)

VARIABLES
  home,        (* the case of each job                                      *)
  working,     (* jobs that may file evidence                               *)
  noted,       (* jobs announced in the log of their case                   *)
  unnoted,     (* jobs whose log entry was lost                             *)
  strayed,     (* jobs under which the open case was changed                *)
  store        (* whose evidence is in the store of which case              *)

vars == <<home, working, noted, unnoted, strayed, store>>

Evidence == [by : Jobs, in : Cases]

Init ==
  /\ home = [j \in Jobs |-> NoCase]
  /\ working = {} /\ noted = {} /\ unnoted = {} /\ strayed = {} /\ store = {}

(* A job is started in case c.  Another one may be announced by the same   *)
(* words.                                                                  *)
Begin(j, c) ==
  /\ home[j] = NoCase
  /\ home' = [home EXCEPT ![j] = c]
  /\ working' = working \union {j}
  /\ noted \subseteq noted' /\ unnoted' \in {unnoted, unnoted \union {j}}
  /\ j \in noted' \union unnoted'
  /\ UNCHANGED <<strayed, store>>

(* A log entry without a job.                                              *)
Note ==
  /\ noted \subseteq noted'
  /\ UNCHANGED <<home, working, unnoted, strayed, store>>

(* The user opens another case, or logs out.                               *)
Switch ==
  /\ strayed \subseteq strayed' /\ strayed' \subseteq strayed \union working
  /\ UNCHANGED <<home, working, noted, unnoted, store>>

(* Evidence of j is added to the store of case c, in the place of some     *)
(* that was there, or only takes its place.                                *)
File(j, c) ==
  /\ j \in working
  /\ j \in strayed \/ c = home[j]
  /\ store' \subseteq store \union {[by |-> j, in |-> c]}
  /\ UNCHANGED <<home, working, noted, unnoted, strayed>>

End(j) ==
  /\ j \in working
  /\ working' = working \ {j}
  /\ UNCHANGED <<home, noted, unnoted, strayed, store>>

Next ==
  \/ Note \/ Switch
  \/ \E j \in Jobs : End(j) \/ \E c \in Cases : Begin(j, c) \/ File(j, c)

Spec == Init /\ [][Next]_vars
-----------------------------------------------------------------------------
(* The chain of custody: evidence in a store is of a job of that case,     *)
(* announced there, unless it strayed or its entry was lost.               *)
Kept ==
  \A e \in store :
    /\ e.by \in strayed \/ e.in = home[e.by]
    /\ e.by \in noted \union unnoted
=============================================================================
