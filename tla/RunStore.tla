------------------------------ MODULE RunStore ------------------------------
(***************************************************************************)
(* The files the runs leave on disk: D15's report and results at two fixed *)
(* paths that every command-line run overwrites, and one directory per run *)
(* with its report, its results, its run_meta.json and its approval.json.  *)
(* Each file is written to a temporary file, flushed, and renamed over its *)
(* path; a run writes several of them one after another, and any of those  *)
(* steps may fail or be the last one of its process.  Command-line runs    *)
(* are processes of their own; the HTTP handlers share one event loop and  *)
(* do not await between their writes.                                      *)
(***************************************************************************)
EXTENDS Naturals, Sequences

CONSTANTS CliRuns,     \* runs of `flightagent run` (one process each)
          ApiRuns,     \* runs made by POST /search
          Approvals,   \* requests of POST /runs/{id}/approve
          D15,         \* the owner of the two fixed paths
          Absent,      \* no file at a path
          Idle         \* no handler holds the event loop

Runs == CliRuns \cup ApiRuns
Handlers == ApiRuns \cup Approvals
Jobs == CliRuns \cup Handlers
Names == {"report", "results", "meta", "approval"}
Paths == (Runs \cup {D15}) \X Names

\* What a file holds: whose run it is about, one fact of it (report_available
\* of a run_meta.json, approved of an approval.json) and whether a reader would
\* get all of it.
Contents == [run : Runs, flag : BOOLEAN, whole : BOOLEAN]

ASSUME JobsAreDistinct ==
    /\ CliRuns \cap ApiRuns = {}
    /\ Runs \cap Approvals = {}
    /\ D15 \notin Runs
ASSUME AbsentIsNoContent == Absent \notin Contents
ASSUME IdleIsNoJob == Idle \notin Jobs

VARIABLES file,        \* what each path holds
          job,         \* what each run or request is doing
          loop,        \* the handler that holds the server's event loop
          litter,      \* jobs that left a temporary file behind
          overlapped   \* history: command-line runs that wrote while another did

vars == <<file, job, loop, litter, overlapped>>

Write(p, r, flag) == [path |-> p, holds |-> [run |-> r, flag |-> flag, whole |-> TRUE]]
Writes == [path : Paths, holds : Contents]
Stages == {"waiting", "writing", "done", "refused", "raised", "killed"}

\* "none": the next write has not begun; "open": its temporary file exists;
\* "synced": the temporary file holds everything and is on disk.
Temps == {"none", "open", "synced"}

\* `plan` is what the job means to write, `at` how many of them are in place.
JobStates == [stage : Stages, plan : Seq(Writes), at : Nat, temp : Temps]
Fresh == [stage |-> "waiting", plan |-> <<>>, at |-> 0, temp |-> "none"]

Init ==
    /\ file = [p \in Paths |-> Absent]
    /\ job = [j \in Jobs |-> Fresh]
    /\ loop = Idle
    /\ litter = {}
    /\ overlapped = {}

Exists(p) == file[p] # Absent
Writing(j) == job[j].stage = "writing"

-----------------------------------------------------------------------------
(* What the jobs write.                                                    *)

\* write_report_artifacts, then write_run_artifacts.
CliPlan(r) == << Write(<<D15, "report">>, r, TRUE), Write(<<D15, "results">>, r, TRUE),
                 Write(<<r, "report">>, r, TRUE), Write(<<r, "results">>, r, TRUE) >>

\* Mutant: the run is recorded before its report is written.
MetaFirst(r, found) ==
    IF found THEN << Write(<<r, "meta">>, r, TRUE), Write(<<r, "report">>, r, TRUE),
                     Write(<<r, "results">>, r, TRUE) >>
             ELSE << Write(<<r, "meta">>, r, FALSE) >>

\* Mutant: a run that found nothing is not recorded.
MetaOfReportsOnly(r, found) ==
    IF found THEN << Write(<<r, "report">>, r, TRUE), Write(<<r, "results">>, r, TRUE),
                     Write(<<r, "meta">>, r, TRUE) >>
             ELSE << >>

\* write_run_artifacts if there is a report, then _write_run_meta.
SearchPlan(r, found) ==
    IF found THEN << Write(<<r, "report">>, r, TRUE), Write(<<r, "results">>, r, TRUE),
                     Write(<<r, "meta">>, r, TRUE) >>
             ELSE << Write(<<r, "meta">>, r, FALSE) >>

\* The price is read from the run's results.
ApprovalPlan(r, decision) ==
    << Write(<<r, "approval">>, file[<<r, "results">>].run, decision) >>

\* A job with nothing to write is over.
Begun(plan) == [stage |-> IF plan = <<>> THEN "done" ELSE "writing",
                plan |-> plan, at |-> 0, temp |-> "none"]

-----------------------------------------------------------------------------
(* The jobs begin.                                                         *)

\* _run_all_destinations or _run_single_destination, its pipeline over: it
\* writes only if there is a report.
CliWrites(r) ==
    /\ job[r].stage = "waiting"
    /\ \E found \in BOOLEAN :
         /\ job' = [job EXCEPT ![r] = Begun(IF found THEN CliPlan(r) ELSE <<>>)]
         /\ overlapped' = overlapped \cup
              (LET others == {o \in CliRuns : Writing(o)}
               IN  IF found /\ others # {} THEN {r} \cup others ELSE {})
    /\ UNCHANGED <<file, loop, litter>>

\* The search handler, its pipeline over.
SearchWrites(r) ==
    /\ loop = Idle
    /\ job[r].stage = "waiting"
    /\ \E found \in BOOLEAN :
         /\ job' = [job EXCEPT ![r] = Begun(SearchPlan(r, found))]
         /\ loop' = IF SearchPlan(r, found) = <<>> THEN Idle ELSE r
    /\ UNCHANGED <<file, litter, overlapped>>

\* The pipeline raises: the run is never recorded.
PipelineRaises(r) ==
    /\ job[r].stage = "waiting"
    /\ job' = [job EXCEPT ![r].stage = "raised"]
    /\ UNCHANGED <<file, loop, litter, overlapped>>

\* GET /runs/{id}: a run is known by its run_meta.json.
GetRun(r) == IF Exists(<<r, "meta">>) THEN 200 ELSE 404

\* GET /runs/{id}/report.md.
GetReport(r) == IF Exists(<<r, "report">>) THEN 200 ELSE 404

\* Mutant: approve_run without its first check.
ResultsExist(r) == Exists(<<r, "results">>)

\* The two 404 checks of approve_run.
Approvable(r) == Exists(<<r, "meta">>) /\ Exists(<<r, "results">>)

Approve(a, r) ==
    /\ loop = Idle
    /\ job[a].stage = "waiting"
    /\ Approvable(r)
    /\ \E decision \in BOOLEAN : job' = [job EXCEPT ![a] = Begun(ApprovalPlan(r, decision))]
    /\ loop' = a
    /\ UNCHANGED <<file, litter, overlapped>>

RefuseApproval(a, r) ==
    /\ loop = Idle
    /\ job[a].stage = "waiting"
    /\ ~Approvable(r)
    /\ job' = [job EXCEPT ![a].stage = "refused"]
    /\ UNCHANGED <<file, loop, litter, overlapped>>

-----------------------------------------------------------------------------
(* atomic_write_text, for the next file of the job's plan.                 *)

NextWrite(j) == job[j].plan[job[j].at + 1]

\* Mutant: a handler that ends keeps the loop.
HeldForever(j) == loop

\* A handler that ends gives the event loop back.
Released(j) == IF loop = j THEN Idle ELSE loop

\* Mutant: the target itself is opened for writing.
OpenTarget(j) ==
    /\ Writing(j)
    /\ job[j].temp = "none"
    /\ job' = [job EXCEPT ![j].temp = "open"]
    /\ file' = [file EXCEPT ![NextWrite(j).path] = [NextWrite(j).holds EXCEPT !.whole = FALSE]]
    /\ UNCHANGED <<loop, litter, overlapped>>

MakeTemp(j) ==
    /\ Writing(j)
    /\ job[j].temp = "none"
    /\ job' = [job EXCEPT ![j].temp = "open"]
    /\ UNCHANGED <<file, loop, litter, overlapped>>

Sync(j) ==
    /\ Writing(j)
    /\ job[j].temp = "open"
    /\ job' = [job EXCEPT ![j].temp = "synced"]
    /\ UNCHANGED <<file, loop, litter, overlapped>>

\* Mutant: a rename that leaves an existing file alone.
RenameIfAbsent(j) ==
    /\ Writing(j)
    /\ job[j].temp = "synced"
    /\ LET last == job[j].at + 1 = Len(job[j].plan) IN
         /\ file' = IF Exists(NextWrite(j).path) THEN file
                    ELSE [file EXCEPT ![NextWrite(j).path] = NextWrite(j).holds]
         /\ job' = [job EXCEPT ![j].at = @ + 1, ![j].temp = "none",
                               ![j].stage = IF last THEN "done" ELSE @]
         /\ loop' = IF last THEN Released(j) ELSE loop
    /\ UNCHANGED <<litter, overlapped>>

\* os.replace; after the last file the command exits, or the handler responds.
Replace(j) ==
    /\ Writing(j)
    /\ job[j].temp = "synced"
    /\ LET last == job[j].at + 1 = Len(job[j].plan) IN
         /\ file' = [file EXCEPT ![NextWrite(j).path] = NextWrite(j).holds]
         /\ job' = [job EXCEPT ![j].at = @ + 1, ![j].temp = "none",
                               ![j].stage = IF last THEN "done" ELSE @]
         /\ loop' = IF last THEN Released(j) ELSE loop
    /\ UNCHANGED <<litter, overlapped>>

\* A step of the write fails: the temporary file, if there is one, is removed
\* (or not: an OSError of the removal is suppressed) and the error leaves the
\* run, whose later files are never written.
WriteRaises(j) ==
    /\ Writing(j)
    /\ job' = [job EXCEPT ![j].stage = "raised", ![j].temp = "none"]
    /\ loop' = Released(j)
    /\ \/ UNCHANGED litter
       \/ job[j].temp # "none" /\ litter' = litter \cup {j}
    /\ UNCHANGED <<file, overlapped>>

\* The job's process is killed; the server starts again with an idle loop.
Kill(j) ==
    /\ Writing(j)
    /\ job' = [job EXCEPT ![j].stage = "killed", ![j].temp = "none"]
    /\ loop' = Released(j)
    /\ litter' = IF job[j].temp = "none" THEN litter ELSE litter \cup {j}
    /\ UNCHANGED <<file, overlapped>>

Next ==
    \/ \E r \in CliRuns : CliWrites(r)
    \/ \E r \in ApiRuns : SearchWrites(r)
    \/ \E r \in Runs : PipelineRaises(r)
    \/ \E a \in Approvals, r \in Runs : Approve(a, r) \/ RefuseApproval(a, r)
    \/ \E j \in Jobs : MakeTemp(j) \/ Sync(j) \/ Replace(j) \/ WriteRaises(j) \/ Kill(j)

Spec == Init /\ [][Next]_vars

-----------------------------------------------------------------------------
(* Properties.                                                             *)

\* Every variable keeps its type, and the event loop is held exactly by the
\* handler that is between two of its writes.
TypeOK ==
    /\ file \in [Paths -> Contents \cup {Absent}]
    /\ job \in [Jobs -> JobStates]
    /\ loop \in Handlers \cup {Idle}
    /\ litter \subseteq Jobs
    /\ overlapped \subseteq CliRuns
    /\ \A h \in Handlers : Writing(h) <=> loop = h

\* atomic_write_text: whatever failed or was killed in whichever step, a reader
\* of any path gets nothing or a whole file, and a run's directory only ever
\* holds files of that run.
ReadersGetWholeFiles ==
    \A p \in Paths : Exists(p) => file[p].whole /\ p[1] \in {D15, file[p].run}

\* routes_runs and routes_search: a run that GET /runs/{id} answers for has all
\* the files its report_available announces, and none if it announces none,
\* also after a crash or a failed write.
KnownRunsAreComplete ==
    \A r \in Runs : GetRun(r) = 200 =>
        LET available == file[<<r, "meta">>].flag IN
        /\ available => GetReport(r) = 200 /\ Exists(<<r, "results">>)
        /\ ~available => \A n \in {"report", "results", "approval"} : ~Exists(<<r, n>>)

\* POST /search: once it has responded, the run_id of the response is known.
RespondedRunsAreKnown == \A r \in ApiRuns : job[r].stage = "done" => GetRun(r) = 200

\* The order of the writes of a search serves both: whoever is told of a run,
\* by a response or by the API, finds it and all that it announces.
RunsAreKnownWhole == KnownRunsAreComplete /\ RespondedRunsAreKnown

\* approve_run: a recorded decision is about a known run with a report, and
\* quotes the price in that run's own results.
DecisionsAreGrounded ==
    \A r \in Runs : Exists(<<r, "approval">>) =>
        /\ GetRun(r) = 200
        /\ Exists(<<r, "results">>)
        /\ file[<<r, "approval">>].run = file[<<r, "results">>].run

\* write_report_artifacts makes no transaction of the pair, but a command-line
\* run that no other overlapped leaves, when it ends, both fixed paths and both
\* files of its directory with its own content.
LoneRunOwnsThePair ==
    [][\A r \in CliRuns :
         (Writing(r) /\ job'[r].stage = "done" /\ r \notin overlapped) =>
            \A o \in {D15, r}, n \in {"report", "results"} :
               file'[<<o, n>>] # Absent /\ file'[<<o, n>>].run = r]_vars
=============================================================================
