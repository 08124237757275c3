-------------------------- MODULE LineageRefinement --------------------------
(***************************************************************************)
(* The walk implements LineageService: the walk's own locals say which      *)
(* answer it has already seen to be true.                                   *)
(***************************************************************************)
EXTENDS LineageWalk

(* A source that relays genuine data, but may fail to answer or to know a    *)
(* spend, keeps the promise for every answer; one that forges solutions (but *)
(* not records) keeps it for every answer but an absence.                    *)
SpendsAreGenuine == "forged_spend" \notin Faults

(* The answer the walk has already seen to be true: what it will return if   *)
(* current's spend is not served.  It has read an unspent record of current  *)
(* and nothing since.                                                        *)
Candidate ==
  IF pc = "hop" /\ ~current_spent
  THEN IF rule = "Launch" THEN Absent ELSE Lineage(current, members)
  ELSE Nothing

Service == INSTANCE LineageService WITH
  Errors <- ErrorKinds,
  TrustsAbsence <- SpendsAreGenuine,
  request <- IF pc \in {"idle", "done"} THEN NoCoin ELSE launcher_id,
  noted <- Candidate,
  reply <- result

(* Every answer of the walk was true of the chain at one instant of the      *)
(* call, however blocks and reorganisations interleave with its reads: the   *)
(* lineage, members and tip together, at the read of the tip's own record,   *)
(* and an absence at the read that showed it (the doc of ChainSource: Ok     *)
(* means the source reliably answered).                                      *)
AnswersWereTrue == Service!ServiceSpec
=============================================================================
