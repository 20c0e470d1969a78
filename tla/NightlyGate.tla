----------------------------- MODULE NightlyGate -----------------------------
(***************************************************************************)
(* When nightly-windows.yml measures a commit of master: the schedule, the *)
(* concurrency group that cancels the night before, the gate job ("Did     *)
(* master move?") and the job that checks out what the schedule event saw. *)
(* GitHub may fire the schedule late, start the gate late, and take its    *)
(* time for the job.  Time is counted in units of some part of an hour.    *)
(***************************************************************************)
EXTENDS Integers, Sequences

CONSTANTS
  Day,        \* 24 hours: the cron is daily
  Window,     \* 25 hours: AGE_HOURS has to be below
  MaxDelay,   \* bound: how late the schedule event is
  MaxWait,    \* bound: from the event to the gate
  MaxRun,     \* bound: from the gate to the end of the job, its queue included
  MaxOld,     \* bound: how old a commit's date is when it reaches master
  MaxTime, MaxCommits   \* bounds of the run

(* The hour the window has beyond a day is for the delays of a night, and a  *)
(* night is over before the next event                                       *)
ASSUME DelaysType == {Day, Window, MaxDelay, MaxWait, MaxRun, MaxOld} \subseteq Nat
ASSUME WindowCovers == Day + MaxDelay + MaxWait + MaxOld < Window
ASSUME NightEnds == MaxDelay + MaxWait + MaxRun < Day
ASSUME WindowShort == Window + MaxDelay + MaxWait <= 2 * Day

VARIABLES
  now,
  commits,   \* master: [pushed, committed] of every commit since the start
  due,       \* the cron time of the next event
  phase,     \* of the night: "none", "gate" (event fired), "job"
  at,        \* since when it is in this phase
  sha,       \* the head of master at the event: what the job checks out
  headSha,   \* head_sha of the gate's summary: the head when it ran
  tried,     \* the newest commit that a job which ended was about
  nights     \* the nights whose job was about the newest commit of them

gateVars == <<now, commits, due, phase, at, sha, headSha, tried, nights>>

GateShape ==
  /\ now \in Nat /\ due \in Nat /\ at \in Nat /\ nights \in Nat
  /\ commits \in Seq([pushed : Nat, committed : Int])
  /\ phase \in {"none", "gate", "job"}
  /\ sha \in 0..Len(commits) /\ tried \in 0..sha /\ headSha \in 0..Len(commits)

GateTypeOK ==
  /\ GateShape
  /\ \A i \in DOMAIN commits : commits[i].pushed \in 0..now
  /\ due <= now + Day /\ at <= now

GateInit ==
  /\ now = 0 /\ due = Day /\ at = 0
  /\ commits = <<>> /\ phase = "none" /\ sha = 0 /\ headSha = 0
  /\ tried = 0 /\ nights = 0

-----------------------------------------------------------------------------
(* Time passes unless something is at its latest *)
Tick ==
  /\ now < MaxTime
  /\ now < due + MaxDelay
  /\ phase = "gate" => now < at + MaxWait
  /\ phase = "job" => now < at + MaxRun
  /\ now' = now + 1
  /\ UNCHANGED <<commits, due, phase, at, sha, headSha, tried, nights>>

(* A merge to master: GitHub dates it, a pushed branch brings its own date *)
Commit ==
  /\ Len(commits) < MaxCommits
  /\ \E old \in 0..MaxOld :
       commits' = Append(commits, [pushed |-> now, committed |-> now - old])
  /\ UNCHANGED <<now, due, phase, at, sha, headSha, tried, nights>>

(* Mutant: an event before its time *)
FireEarly ==
  /\ now + MaxDelay >= due
  /\ phase' = "gate" /\ at' = now /\ due' = due + Day /\ sha' = Len(commits)
  /\ UNCHANGED <<now, commits, headSha, tried, nights>>

(* The schedule event; the night before is cancelled if it still runs *)
Fire ==
  /\ now >= due
  /\ phase' = "gate" /\ at' = now /\ due' = due + Day /\ sha' = Len(commits)
  /\ UNCHANGED <<now, commits, headSha, tried, nights>>

(* Mutants of Moved: a flat day; whatever the age *)
MovedToday(head) == now - head.committed < Day

MovedEver(head) == TRUE

(* AGE_HOURS of the commit at the head of master when the gate runs *)
Moved(head) == now - head.committed < Window

(* Nothing is known of a master that did not move since the start *)
Gate ==
  /\ phase = "gate"
  /\ at' = now /\ headSha' = Len(commits)
  /\ IF commits # <<>> /\ Moved(commits[Len(commits)])
     THEN /\ phase' = "job"
          /\ nights' = IF sha = tried THEN nights + 1 ELSE 1
     ELSE phase' = "none" /\ UNCHANGED nights
  /\ UNCHANGED <<now, commits, due, sha, tried>>

(* The job ends, measured or failed: nothing repeats it *)
End ==
  /\ phase = "job"
  /\ phase' = "none" /\ at' = now
  /\ tried' = sha
  /\ UNCHANGED <<now, commits, due, sha, headSha, nights>>

GateNext == Tick \/ Commit \/ Fire \/ Gate \/ End

GateSpec == GateInit /\ [][GateNext]_gateVars

-----------------------------------------------------------------------------
(***************************************************************************)
(* No commit is dropped: a day and a night's delays after it came to       *)
(* master, a night was about it or a newer one.  The gate looks at a date, *)
(* not at what was measured last, at another moment than the one that      *)
(* fixes the tree of the job; the window's slack has to pay for both.      *)
(***************************************************************************)
EveryCommitHasANight ==
  \A i \in DOMAIN commits :
    now > commits[i].pushed + Day + MaxDelay + MaxWait + MaxRun => tried >= i

(***************************************************************************)
(* A quiet master is not measured night after night: the window is longer  *)
(* than a day, but a third night about one head only happens when a commit *)
(* came between the event and the gate, which then shows a newer head_sha. *)
(***************************************************************************)
AtMostTwoNights == phase = "job" /\ headSha = sha => nights <= 2

(***************************************************************************)
(* Why these hold.  Clock: a night keeps to its delays, so it is over      *)
(* before the next event.  History: master grows at its end.               *)
(***************************************************************************)
LastEvent == due - Day   \* its cron time

Clock ==
  /\ now <= due + MaxDelay /\ due <= now + Day /\ at <= now
  /\ phase = "gate" =>
       LastEvent <= at /\ at <= LastEvent + MaxDelay /\ now <= at + MaxWait
  /\ phase = "job" => at <= LastEvent + MaxDelay + MaxWait /\ now <= at + MaxRun

History ==
  /\ \A i \in DOMAIN commits :
       /\ commits[i].pushed <= now
       /\ commits[i].committed <= commits[i].pushed
       /\ commits[i].pushed <= commits[i].committed + MaxOld
  /\ \A i, j \in DOMAIN commits : i <= j => commits[i].pushed <= commits[j].pushed
  /\ phase = "gate" => \A i \in 1..sha : commits[i].pushed <= at
  /\ phase = "job" => 0 < headSha /\ sha <= headSha

(* A commit had its night, is in the one that runs, or the next event is no  *)
(* more than a day after it                                                  *)
Awaited ==
  \A i \in DOMAIN commits :
    \/ tried >= i
    \/ phase = "gate" /\ i <= sha /\ at <= commits[i].pushed + Day + MaxDelay
    \/ phase = "job" /\ i <= sha /\ at <= commits[i].pushed + Day + MaxDelay + MaxWait
    \/ due <= commits[i].pushed + Day

(* The nights about commit c, the last of them of event e or before, say how *)
(* old c is; a third one found a newer commit at the head                    *)
AgedBy(c, e) ==
  c > 0 =>
    /\ nights >= 1 => commits[c].pushed <= e + MaxDelay
    /\ nights >= 2 => commits[c].pushed + Day <= e + MaxDelay

Aged ==
  /\ phase = "none" => AgedBy(tried, LastEvent)
  /\ phase = "gate" => AgedBy(tried, LastEvent - Day)
  /\ phase = "job" => AgedBy(sha, LastEvent)
  /\ phase = "none" /\ nights > 2 /\ tried > 0 => tried < Len(commits)
  /\ phase = "gate" /\ nights > 2 /\ tried > 0 => tried < sha
  /\ phase = "job" /\ nights > 2 => sha < headSha

GateIInv == GateShape /\ Clock /\ History /\ Awaited /\ Aged
=============================================================================
