--------------------------- MODULE ExtractionJobs ---------------------------
(***************************************************************************)
(* What an extraction promises of the store of a case, as an               *)
(* implementation of Custody.  A job is one option of one Operation: the   *)
(* n-th its loop took.  It begins with its entry in the log                *)
(* (AndrospyLog.Logdata in startExtract), files evidence rows              *)
(* (AndrospyUtility.insertRecords, readWifiData, readBlutoothInfo) and     *)
(* ends when the loop goes on or the thread dies.                          *)
(***************************************************************************)
EXTENDS Extraction

CONSTANTS
  MaxTurns,    (* bound: options one Operation takes                        *)
  NotBegun     (* the case of an option that was not announced yet          *)

ASSUME TurnAssumption ==
  MaxTurns \in Nat /\ NotBegun \notin Cases \union {NoCase}

Jobs == Operations \X (1..MaxTurns)

VARIABLES
  (* History variables: no guard and no variable of Extraction reads them.  *)
  home,        (* the case that was open when an option was announced       *)
  strayed      (* options under which the open case was changed             *)

jobVars == <<vars, home, strayed>>

(* The job an Operation is at, and whether it may file rows there.         *)
Job(op) == <<op, Len(taken[op])>>

Files(at) == at \in {"work", "open", "stmt", "rows"}

Working == {j \in Jobs : j = Job(j[1]) /\ Files(pc[j[1]])}

(* Logdata returns: the option was announced under the case open now, or   *)
(* its entry was lost.                                                     *)
Announces(op) == pc[op] = "log" /\ pc'[op] = "work"

JobInit ==
  /\ Init
  /\ home = [j \in Jobs |-> NotBegun] /\ strayed = {}

JobNext ==
  /\ Next
  /\ \A op \in Operations : Len(taken'[op]) <= MaxTurns
  /\ home' = [j \in Jobs |-> IF Announces(j[1]) /\ j = Job(j[1]) THEN gbId ELSE home[j]]
  /\ strayed' = IF gbId' = gbId THEN strayed ELSE strayed \union Working

JobSpec == JobInit /\ [][JobNext]_jobVars
-----------------------------------------------------------------------------
Noted == {j \in Jobs : [op |-> j[1], n |-> j[2], case |-> home[j]] \in log}
Unnoted == lostLog \intersect Jobs
InStore == {[by |-> <<r.op, r.n>>, in |-> r.to] : r \in records}

(* After a logout there is no case, and what is extracted is filed under   *)
(* that.                                                                   *)
Custodian == INSTANCE Custody WITH
  Cases <- Cases \union {NoCase}, NoCase <- NotBegun,
  working <- Working, noted <- Noted, unnoted <- Unnoted, store <- InStore

(* The Operations keep the chain of custody step by step, option by        *)
(* option: a row is filed by an option that was announced, in the case it  *)
(* was announced in unless that was changed under it, and by none whose    *)
(* turn is over, also when another Operation replaced the connection, a    *)
(* log entry was lost or the investigator logged out (startExtract,        *)
(* Logdata, insertRecords).                                                *)
OptionsKeepCustody == Custodian!Spec
-----------------------------------------------------------------------------
(* What makes the mapping a refinement: an option not announced has no     *)
(* case, and the one being worked on has the case that is open, unless it  *)
(* strayed.                                                                *)
JobInv ==
  /\ home \in [Jobs -> Cases \union {NoCase, NotBegun}] /\ strayed \subseteq Jobs
  /\ \A op \in Operations : Len(taken[op]) <= MaxTurns
  /\ \A j \in Jobs :
       /\ j[2] > Len(taken[j[1]]) => home[j] = NotBegun
       /\ j = Job(j[1]) /\ pc[j[1]] = "log" => home[j] = NotBegun
  /\ \A j \in Working \ strayed : home[j] = gbId
=============================================================================
