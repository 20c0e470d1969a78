----------------------------- MODULE ChunkedRun -----------------------------
(***************************************************************************)
(* The body of the chunk loop in nightly-windows.yml (859-922) around the  *)
(* call of the test runner: a chunk is taken, its range filter is built,   *)
(* and the runner, which runs what the filter selects among the installed  *)
(* test codeunits, is called.  NightlyRun has the call and what is made of *)
(* its answer, RangeFilter the filter.                                     *)
(***************************************************************************)
EXTENDS NightlyRun, RangeFilter

(* $blockedBase has the test codeunits of the other apps, the other suite's too *)
ASSUME InstalledTests == Tests = Codeunit

chunkedVars == <<vars, filterVars>>

NoChunk == ids = {}

(* Between two calls of the runner there is no chunk and no filter *)
ChunkOK ==
  NoFilter \/ (FilterIInv /\ step = "calls" /\ call < MaxCalls /\ ids \in First(Remaining, size))

ChunkedInit == Init /\ NoFilter

-----------------------------------------------------------------------------
(* Select-Object -First $size of what remains *)
TakeChunk ==
  /\ step = "calls" /\ NoChunk
  /\ Remaining # {} /\ call < MaxCalls
  /\ \E chunk \in First(Remaining, size) : Enter(chunk)
  /\ UNCHANGED vars

BuildFilter == ~NoChunk /\ FilterNext /\ UNCHANGED vars

(* The runner reports some of what the filter selects, or ignores it *)
Call ==
  /\ ~NoChunk /\ closed
  /\ \/ FilterIgnored(ids)
     \/ \E got \in SUBSET Covered : Reported(ids, got)
     \/ RunnerStop(ids)
     \/ Halve(ids)
  /\ Leave

(* Everything that happens between the calls *)
BetweenCalls ==
  /\ NoChunk
  /\ StartSuite \/ Unprepared \/ EndSuite \/ Coverage
  /\ UNCHANGED filterVars

ChunkedNext == TakeChunk \/ BuildFilter \/ Call \/ BetweenCalls

ChunkedSpec == ChunkedInit /\ [][ChunkedNext]_chunkedVars /\ WF_chunkedVars(ChunkedNext)
=============================================================================
