--------------------------- MODULE RunStoreProofs ---------------------------
(***************************************************************************)
(* Theorems about RunStore, for every set of runs and requests.            *)
(***************************************************************************)
EXTENDS RunStore, TLAPS

Found(r) == SearchPlan(r, TRUE)
NothingFound(r) == SearchPlan(r, FALSE)

\* What a job may mean to write; a decision is only written about a run that was
\* known and had results when it was taken.
PlansSound ==
    /\ \A r \in CliRuns : job[r].plan \in {<<>>, CliPlan(r)}
    /\ \A r \in ApiRuns : job[r].plan \in {<<>>, Found(r), NothingFound(r)}
    /\ \A a \in Approvals : job[a].plan # <<>> =>
         \E r \in Runs, d \in BOOLEAN :
            /\ job[a].plan = <<Write(<<r, "approval">>, r, d)>>
            /\ Exists(<<r, "meta">>)
            /\ Exists(<<r, "results">>)

\* How far each job is in its plan.
StagesSound ==
    \A j \in Jobs :
       /\ job[j].stage = "waiting" => job[j].plan = <<>> /\ job[j].at = 0
       /\ job[j].plan = <<>> => job[j].at = 0 /\ ~Writing(j)
       /\ Writing(j) => job[j].at < Len(job[j].plan)
       /\ job[j].stage = "done" => job[j].at = Len(job[j].plan)

\* The directory of a run made by POST /search shows how far the run is.
SearchesSound ==
    \A r \in ApiRuns :
       /\ Exists(<<r, "report">>) <=> job[r].plan = Found(r) /\ job[r].at >= 1
       /\ Exists(<<r, "results">>) <=> job[r].plan = Found(r) /\ job[r].at >= 2
       /\ Exists(<<r, "meta">>) <=> \/ job[r].plan = Found(r) /\ job[r].at = 3
                                    \/ job[r].plan = NothingFound(r) /\ job[r].at = 1
       /\ Exists(<<r, "meta">>) => file[<<r, "meta">>].flag = IF job[r].plan = Found(r)
                                                              THEN TRUE ELSE FALSE
       /\ job[r].stage = "done" => job[r].plan # <<>>

\* A command-line run has no run_meta.json.
CommandsSound == \A r \in CliRuns : ~Exists(<<r, "meta">>)

DecisionsSound ==
    \A r \in Runs : Exists(<<r, "approval">>) => /\ Exists(<<r, "meta">>)
                                                 /\ Exists(<<r, "results">>)

IInv == /\ TypeOK
        /\ PlansSound
        /\ StagesSound
        /\ ReadersGetWholeFiles
        /\ SearchesSound
        /\ CommandsSound
        /\ DecisionsSound

-----------------------------------------------------------------------------
\* The plans, written out.

LEMMA PlanShapes ==
    ASSUME NEW r
    PROVE  /\ Len(CliPlan(r)) = 4 /\ Len(Found(r)) = 3 /\ Len(NothingFound(r)) = 1
           /\ CliPlan(r)[1] = Write(<<D15, "report">>, r, TRUE)
           /\ CliPlan(r)[2] = Write(<<D15, "results">>, r, TRUE)
           /\ CliPlan(r)[3] = Write(<<r, "report">>, r, TRUE)
           /\ CliPlan(r)[4] = Write(<<r, "results">>, r, TRUE)
           /\ Found(r)[1] = Write(<<r, "report">>, r, TRUE)
           /\ Found(r)[2] = Write(<<r, "results">>, r, TRUE)
           /\ Found(r)[3] = Write(<<r, "meta">>, r, TRUE)
           /\ NothingFound(r)[1] = Write(<<r, "meta">>, r, FALSE)
           /\ CliPlan(r) # <<>> /\ Found(r) # <<>> /\ NothingFound(r) # <<>>
           /\ Found(r) # NothingFound(r)
  BY DEF CliPlan, Found, NothingFound, SearchPlan

\* The fields of a planned write.
LEMMA WriteFields ==
    ASSUME NEW p, NEW r, NEW f
    PROVE  /\ Write(p, r, f).path = p
           /\ Write(p, r, f).holds.run = r
           /\ Write(p, r, f).holds.flag = f
           /\ Write(p, r, f).holds.whole = TRUE
  BY DEF Write

\* A planned write to a known path is well typed.
LEMMA WriteTyped ==
    ASSUME NEW p \in Paths, NEW r \in Runs, NEW f \in BOOLEAN
    PROVE  Write(p, r, f) \in Writes
  BY DEF Write, Writes, Contents

\* Tuples of up to four elements are sequences.
LEMMA ShortSeqs ==
    ASSUME NEW S
    PROVE  /\ \A a \in S : <<a>> \in Seq(S)
           /\ \A a, b, c \in S : <<a, b, c>> \in Seq(S)
           /\ \A a, b, c, d \in S : <<a, b, c, d>> \in Seq(S)
  OBVIOUS

\* The plans of the CLI and of a search are sequences of writes.
LEMMA PlansTyped ==
    /\ \A r \in CliRuns : CliPlan(r) \in Seq(Writes)
    /\ \A r \in ApiRuns, f \in BOOLEAN : SearchPlan(r, f) \in Seq(Writes)
    /\ <<>> \in Seq(Writes)
  <1>1. ASSUME NEW r \in CliRuns
        PROVE  CliPlan(r) \in Seq(Writes)
    <2>1. /\ <<D15, "report">> \in Paths /\ <<D15, "results">> \in Paths
          /\ <<r, "report">> \in Paths /\ <<r, "results">> \in Paths /\ r \in Runs
      BY DEF Paths, Names, Runs
    <2>2. /\ Write(<<D15, "report">>, r, TRUE) \in Writes
          /\ Write(<<D15, "results">>, r, TRUE) \in Writes
          /\ Write(<<r, "report">>, r, TRUE) \in Writes
          /\ Write(<<r, "results">>, r, TRUE) \in Writes
      BY <2>1, WriteTyped
    <2>. QED
      BY <2>2, ShortSeqs DEF CliPlan
  <1>2. ASSUME NEW r \in ApiRuns, NEW f \in BOOLEAN
        PROVE  SearchPlan(r, f) \in Seq(Writes)
    <2>1. /\ <<r, "meta">> \in Paths /\ r \in Runs
          /\ <<r, "report">> \in Paths /\ <<r, "results">> \in Paths
      BY DEF Paths, Names, Runs
    <2>2. /\ Write(<<r, "meta">>, r, TRUE) \in Writes
          /\ Write(<<r, "meta">>, r, FALSE) \in Writes
          /\ Write(<<r, "report">>, r, TRUE) \in Writes
          /\ Write(<<r, "results">>, r, TRUE) \in Writes
      BY <2>1, WriteTyped
    <2>. QED
      BY <2>2, ShortSeqs DEF SearchPlan
  <1>. QED
    BY <1>1, <1>2

\* What the next file of a job is, kind by kind.
NextIsSound(j) ==
    LET w == NextWrite(j)
        k == job[j].at + 1
    IN  /\ w \in Writes
        /\ w.holds.whole = TRUE
        /\ w.path[1] \in {D15, w.holds.run}
        /\ j \in CliRuns => /\ Len(job[j].plan) = 4
                            /\ w.holds.run = j
                            /\ k = 1 => w.path = <<D15, "report">>
                            /\ k = 2 => w.path = <<D15, "results">>
                            /\ k = 3 => w.path = <<j, "report">>
                            /\ k = 4 => w.path = <<j, "results">>
        /\ j \in ApiRuns => w.path[1] = j
        /\ j \in ApiRuns => \/ /\ job[j].plan = Found(j)
                               /\ Len(job[j].plan) = 3
                               /\ w.holds.flag = TRUE
                               /\ k = 1 => w.path = <<j, "report">>
                               /\ k = 2 => w.path = <<j, "results">>
                               /\ k = 3 => w.path = <<j, "meta">>
                            \/ /\ job[j].plan = NothingFound(j)
                               /\ job[j].plan # Found(j)
                               /\ Len(job[j].plan) = 1
                               /\ w.holds.flag = FALSE
                               /\ k = 1 /\ w.path = <<j, "meta">>
        /\ j \in Approvals => \E r \in Runs : /\ w.path = <<r, "approval">>
                                              /\ Exists(<<r, "meta">>)
                                              /\ Exists(<<r, "results">>)

\* The next write of a job that is writing belongs to the files its plan may touch.
LEMMA NextSound ==
    ASSUME IInv, NEW j \in Jobs, Writing(j)
    PROVE  NextIsSound(j)
  <1>1. /\ job[j].plan # <<>> /\ job[j].at \in Nat
        /\ job[j].plan \in Seq(Writes) /\ job[j].at + 1 \in 1..Len(job[j].plan)
    BY DEF IInv, TypeOK, JobStates, StagesSound
  <1>2. NextWrite(j) \in Writes
    BY <1>1 DEF NextWrite
  <1>3. CASE j \in CliRuns
    <2>1. job[j].plan = CliPlan(j)
      BY <1>1, <1>3 DEF IInv, PlansSound
    <2>2. j \notin ApiRuns /\ j \notin Approvals
      BY <1>3, JobsAreDistinct DEF Runs
    <2>3. /\ Len(CliPlan(j)) = 4
          /\ CliPlan(j)[1] = Write(<<D15, "report">>, j, TRUE)
          /\ CliPlan(j)[2] = Write(<<D15, "results">>, j, TRUE)
          /\ CliPlan(j)[3] = Write(<<j, "report">>, j, TRUE)
          /\ CliPlan(j)[4] = Write(<<j, "results">>, j, TRUE)
      BY PlanShapes
    <2>4. Len(job[j].plan) = 4 /\ job[j].at \in 0..3
      BY <1>1, <2>1, <2>3
    <2>5. LET w == NextWrite(j) IN
            /\ w.holds.run = j /\ w.holds.whole = TRUE /\ w.path[1] \in {D15, j}
            /\ job[j].at = 0 => w.path = <<D15, "report">>
            /\ job[j].at = 1 => w.path = <<D15, "results">>
            /\ job[j].at = 2 => w.path = <<j, "report">>
            /\ job[j].at = 3 => w.path = <<j, "results">>
      <3>1. CASE job[j].at = 0
        <4>1. NextWrite(j) = Write(<<D15, "report">>, j, TRUE)
          BY <2>1, <2>3, <3>1 DEF NextWrite, Write
        <4>. QED
          BY <3>1, <4>1 DEF Write
      <3>2. CASE job[j].at = 1
        <4>1. NextWrite(j) = Write(<<D15, "results">>, j, TRUE)
          BY <2>1, <2>3, <3>2 DEF NextWrite, Write
        <4>. QED
          BY <3>2, <4>1 DEF Write
      <3>3. CASE job[j].at = 2
        <4>1. NextWrite(j) = Write(<<j, "report">>, j, TRUE)
          BY <2>1, <2>3, <3>3 DEF NextWrite, Write
        <4>. QED
          BY <3>3, <4>1 DEF Write
      <3>4. CASE job[j].at = 3
        <4>1. NextWrite(j) = Write(<<j, "results">>, j, TRUE)
          BY <2>1, <2>3, <3>4 DEF NextWrite, Write
        <4>. QED
          BY <3>4, <4>1 DEF Write
      <3>5. job[j].at = 0 \/ job[j].at = 1 \/ job[j].at = 2 \/ job[j].at = 3
        BY <2>4
      <3>. QED
        BY <3>1, <3>2, <3>3, <3>4, <3>5, Zenon
    <2>. QED
      BY <1>1, <1>2, <1>3, <2>2, <2>4, <2>5 DEF NextIsSound
  <1>4. CASE j \in ApiRuns
    <2>1. job[j].plan \in {Found(j), NothingFound(j)}
      BY <1>1, <1>4 DEF IInv, PlansSound
    <2>2. j \notin CliRuns /\ j \notin Approvals
      BY <1>4, JobsAreDistinct DEF Runs
    <2>3. CASE job[j].plan = Found(j)
      <3>1. /\ Len(Found(j)) = 3
            /\ Found(j)[1] = Write(<<j, "report">>, j, TRUE)
            /\ Found(j)[2] = Write(<<j, "results">>, j, TRUE)
            /\ Found(j)[3] = Write(<<j, "meta">>, j, TRUE)
        BY PlanShapes
      <3>2. Len(job[j].plan) = 3 /\ job[j].at \in 0..2
        BY <1>1, <2>3, <3>1
      <3>3. LET w == NextWrite(j) IN
              /\ w.holds.run = j /\ w.holds.whole = TRUE /\ w.holds.flag = TRUE
              /\ w.path[1] = j
              /\ job[j].at = 0 => w.path = <<j, "report">>
              /\ job[j].at = 1 => w.path = <<j, "results">>
              /\ job[j].at = 2 => w.path = <<j, "meta">>
        <4>1. CASE job[j].at = 0
          <5>1. NextWrite(j) = Write(<<j, "report">>, j, TRUE)
            BY <2>3, <3>1, <4>1 DEF NextWrite, Write
          <5>. QED
            BY <4>1, <5>1 DEF Write
        <4>2. CASE job[j].at = 1
          <5>1. NextWrite(j) = Write(<<j, "results">>, j, TRUE)
            BY <2>3, <3>1, <4>2 DEF NextWrite, Write
          <5>. QED
            BY <4>2, <5>1 DEF Write
        <4>3. CASE job[j].at = 2
          <5>1. NextWrite(j) = Write(<<j, "meta">>, j, TRUE)
            BY <2>3, <3>1, <4>3 DEF NextWrite, Write
          <5>. QED
            BY <4>3, <5>1 DEF Write
        <4>4. job[j].at = 0 \/ job[j].at = 1 \/ job[j].at = 2
          BY <3>2
        <4>. QED
          BY <4>1, <4>2, <4>3, <4>4, Zenon
      <3>. QED
        BY <1>1, <1>2, <1>4, <2>2, <2>3, <3>2, <3>3 DEF NextIsSound
    <2>4. CASE job[j].plan = NothingFound(j)
      <3>1. /\ Len(NothingFound(j)) = 1 /\ NothingFound(j) # Found(j)
            /\ NothingFound(j)[1] = Write(<<j, "meta">>, j, FALSE)
        BY PlanShapes
      <3>2. Len(job[j].plan) = 1 /\ job[j].at = 0 /\ job[j].plan # Found(j)
        BY <1>1, <2>4, <3>1
      <3>3. NextWrite(j) = Write(<<j, "meta">>, j, FALSE)
        BY <2>4, <3>1, <3>2 DEF NextWrite, Write
      <3>4. LET w == NextWrite(j) IN
              /\ w.holds.run = j /\ w.holds.whole = TRUE /\ w.holds.flag = FALSE
              /\ w.path[1] = j /\ w.path = <<j, "meta">>
        BY <3>3 DEF Write
      <3>. QED
        BY <1>1, <1>2, <1>4, <2>2, <2>4, <3>2, <3>4 DEF NextIsSound
    <2>. QED
      BY <2>1, <2>3, <2>4
  <1>5. CASE j \in Approvals
    <2>1. PICK r \in Runs, d \in BOOLEAN :
            /\ job[j].plan = <<Write(<<r, "approval">>, r, d)>>
            /\ Exists(<<r, "meta">>)
            /\ Exists(<<r, "results">>)
      BY <1>1, <1>5 DEF IInv, PlansSound
    <2>2. job[j].at = 0
      BY <1>1, <2>1
    <2>3. NextWrite(j) = Write(<<r, "approval">>, r, d)
      BY <2>1, <2>2 DEF NextWrite
    <2>4. j \notin CliRuns /\ j \notin ApiRuns
      BY <1>5, JobsAreDistinct DEF Runs
    <2>. QED
      BY <1>2, <2>1, <2>3, <2>4 DEF NextIsSound, Write
  <1>. QED
    BY <1>3, <1>4, <1>5 DEF Jobs, Handlers, Runs

-----------------------------------------------------------------------------
(* What a step does to the files and to the jobs, and that it keeps IInv.  *)

LEMMA JobTyped ==
    ASSUME IInv, NEW j \in Jobs
    PROVE  /\ job[j].plan \in Seq(Writes) /\ Len(job[j].plan) \in Nat
           /\ job[j].at \in Nat /\ job[j].stage \in Stages /\ job[j].temp \in Temps
  BY DEF IInv, TypeOK, JobStates

\* os.replace changes one path, and moves its job one write on.
LEMMA ReplaceEffect ==
    ASSUME IInv, NEW j \in Jobs, Replace(j)
    PROVE  /\ NextWrite(j).path \in Paths /\ NextWrite(j).holds \in Contents
           /\ \A p \in Paths : file'[p] = IF p = NextWrite(j).path
                                            THEN NextWrite(j).holds ELSE file[p]
           /\ \A p \in Paths : Exists(p)' <=> Exists(p) \/ p = NextWrite(j).path
           /\ job'[j].plan = job[j].plan
           /\ job'[j].at = job[j].at + 1
           /\ job'[j].stage = IF job[j].at + 1 = Len(job[j].plan) THEN "done" ELSE "writing"
           /\ job'[j].temp = "none"
           /\ \A i \in Jobs \ {j} : job'[i] = job[i]
           /\ DOMAIN job' = Jobs
           /\ file' \in [Paths -> Contents \cup {Absent}]
  <1>1. NextIsSound(j)
    BY NextSound DEF Replace
  <1>2. NextWrite(j).path \in Paths /\ NextWrite(j).holds \in Contents
    BY <1>1 DEF NextIsSound, Writes
  <1>3. file' = [file EXCEPT ![NextWrite(j).path] = NextWrite(j).holds]
    BY DEF Replace
  <1>4. /\ \A p \in Paths : file'[p] = IF p = NextWrite(j).path
                                        THEN NextWrite(j).holds ELSE file[p]
        /\ file' \in [Paths -> Contents \cup {Absent}]
    BY <1>2, <1>3 DEF IInv, TypeOK
  <1>5. \A p \in Paths : Exists(p)' <=> Exists(p) \/ p = NextWrite(j).path
    BY <1>2, <1>4, AbsentIsNoContent DEF Exists
  <1>6. /\ job'[j].plan = job[j].plan
        /\ job'[j].at = job[j].at + 1
        /\ job'[j].stage = IF job[j].at + 1 = Len(job[j].plan) THEN "done" ELSE "writing"
        /\ job'[j].temp = "none"
        /\ \A i \in Jobs \ {j} : job'[i] = job[i]
        /\ DOMAIN job' = Jobs
    BY DEF Replace, IInv, TypeOK, JobStates, Writing
  <1>. QED
    BY <1>2, <1>4, <1>5, <1>6

\* os.replace keeps every part of the invariant.
LEMMA ReplaceKeeps ==
    ASSUME IInv, NEW j \in Jobs, Replace(j)
    PROVE  IInv'
  <1>. DEFINE w == NextWrite(j)
  <1>1. NextIsSound(j) /\ Writing(j)
    BY NextSound DEF Replace
  <1>2. job[j].at < Len(job[j].plan) /\ job[j].plan # <<>>
    BY <1>1 DEF IInv, StagesSound
  <1>3. TypeOK'
    <2>1. job' \in [Jobs -> JobStates]
      <3>1. job'[j] = [job[j] EXCEPT !.at = @ + 1, !.temp = "none", !.stage = job'[j].stage]
        BY DEF Replace, IInv, TypeOK, JobStates
      <3>2. job'[j].stage \in Stages
        BY ReplaceEffect DEF Stages
      <3>3. job'[j] \in JobStates
        <4>1. job[j] \in JobStates /\ job[j].at + 1 \in Nat /\ "none" \in Temps
          BY JobTyped DEF IInv, TypeOK, Temps
        <4>. DEFINE s == job'[j].stage
        <4>2. s \in Stages
          BY <3>2
        <4>. HIDE DEF s
        <4>3. job'[j] = [job[j] EXCEPT !.at = @ + 1, !.temp = "none", !.stage = s]
          BY <3>1 DEF s
        <4>. QED
          BY <4>1, <4>2, <4>3 DEF JobStates
      <3>4. job' = [job EXCEPT ![j] = job'[j]]
        BY DEF Replace, IInv, TypeOK
      <3>. QED
        BY <3>3, <3>4 DEF IInv, TypeOK
    <2>2. /\ loop' \in Handlers \cup {Idle}
          /\ \A h \in Handlers : Writing(h)' <=> loop' = h
      <3>1. \A i \in Jobs : i # j => (Writing(i)' <=> Writing(i))
        BY ReplaceEffect DEF Writing
      <3>2. Writing(j)' <=> job[j].at + 1 # Len(job[j].plan)
        BY ReplaceEffect DEF Writing
      <3>3. loop' = IF job[j].at + 1 = Len(job[j].plan) THEN Released(j) ELSE loop
        BY DEF Replace
      <3>. QED
        BY <1>1, <3>1, <3>2, <3>3, IdleIsNoJob DEF IInv, TypeOK, Jobs, Released
    <2>. QED
      BY <2>1, <2>2, ReplaceEffect DEF Replace, IInv, TypeOK
  <1>4. \A p \in Paths : Exists(p) => Exists(p)'
    BY ReplaceEffect
  <1>5. PlansSound'
    <2>1. \A i \in Jobs : job'[i].plan = job[i].plan
      BY ReplaceEffect
    <2>2. \A r \in Runs : <<r, "meta">> \in Paths /\ <<r, "results">> \in Paths
      BY DEF Paths, Names
    <2>3. \A r \in CliRuns : job'[r].plan \in {<<>>, CliPlan(r)}
      BY <2>1 DEF IInv, PlansSound, Jobs
    <2>4. \A r \in ApiRuns : job'[r].plan \in {<<>>, Found(r), NothingFound(r)}
      BY <2>1 DEF IInv, PlansSound, Jobs, Handlers
    <2>5. ASSUME NEW a \in Approvals, job'[a].plan # <<>>
          PROVE  \E r \in Runs, d \in BOOLEAN :
                   /\ job'[a].plan = <<Write(<<r, "approval">>, r, d)>>
                   /\ Exists(<<r, "meta">>)'
                   /\ Exists(<<r, "results">>)'
      <3>1. PICK r \in Runs, d \in BOOLEAN :
              /\ job[a].plan = <<Write(<<r, "approval">>, r, d)>>
              /\ Exists(<<r, "meta">>)
              /\ Exists(<<r, "results">>)
        BY <2>1, <2>5 DEF IInv, PlansSound, Jobs, Handlers
      <3>2. job'[a].plan = job[a].plan
        BY <2>1 DEF Jobs, Handlers
      <3>3. Exists(<<r, "meta">>)' /\ Exists(<<r, "results">>)'
        BY <1>4, <2>2, <3>1
      <3>4. job'[a].plan = <<Write(<<r, "approval">>, r, d)>>
        BY <3>1, <3>2
      <3>. QED
        BY <3>3, <3>4
    <2>. QED
      BY <2>3, <2>4, <2>5, Zenon DEF PlansSound
  <1>6. StagesSound'
    <2>1. \A i \in Jobs \ {j} : job'[i] = job[i]
      BY ReplaceEffect
    <2>2. /\ job'[j].stage # "waiting"
          /\ job'[j].plan # <<>>
          /\ job'[j].stage = "writing" => job'[j].at < Len(job'[j].plan)
          /\ job'[j].stage = "done" => job'[j].at = Len(job'[j].plan)
      BY <1>2, ReplaceEffect, JobTyped
    <2>. QED
      BY <2>1, <2>2 DEF IInv, StagesSound, Writing
  <1>7. ReadersGetWholeFiles'
    <2>1. w.holds.whole = TRUE /\ w.path[1] \in {D15, w.holds.run}
      BY <1>1 DEF NextIsSound
    <2>2. ASSUME NEW p \in Paths, Exists(p)'
          PROVE  file'[p].whole /\ p[1] \in {D15, file'[p].run}
      <3>1. CASE p = w.path
        BY <2>1, <3>1, ReplaceEffect
      <3>2. CASE p # w.path
        BY <2>2, <3>2, ReplaceEffect DEF IInv, ReadersGetWholeFiles
      <3>. QED
        BY <3>1, <3>2
    <2>. QED
      BY <2>2 DEF ReadersGetWholeFiles
  <1>8. SearchesSound'
    <2>1. ASSUME NEW r \in ApiRuns, r # j
          PROVE  /\ job'[r] = job[r]
                 /\ \A n \in {"report", "results", "meta"} :
                      /\ <<r, n>> \in Paths /\ <<r, n>> # w.path
                      /\ file'[<<r, n>>] = file[<<r, n>>]
                      /\ Exists(<<r, n>>)' <=> Exists(<<r, n>>)
      <3>1. r \in Jobs /\ r \in Runs /\ r # D15 /\ r \notin CliRuns
        BY JobsAreDistinct DEF Jobs, Handlers, Runs
      <3>2. \A n \in {"report", "results", "meta"} : <<r, n>> \in Paths
        BY <3>1 DEF Paths, Names
      <3>3. \A n \in {"report", "results", "meta"} : <<r, n>> # w.path
        <4>1. CASE j \in CliRuns
          <5>1. w.path[1] \in {D15, j}
            BY <1>1, <4>1 DEF NextIsSound
          <5>. QED
            BY <2>1, <3>1, <5>1
        <4>2. CASE j \in ApiRuns
          <5>1. w.path[1] = j
            BY <1>1, <4>2 DEF NextIsSound
          <5>. QED
            BY <2>1, <5>1
        <4>3. CASE j \in Approvals
          <5>1. PICK q \in Runs : w.path = <<q, "approval">>
            BY <1>1, <4>3, Zenon DEF NextIsSound
          <5>. QED
            BY <5>1
        <4>. QED
          BY <4>1, <4>2, <4>3 DEF Jobs, Handlers, Runs
      <3>. QED
        BY <2>1, <3>1, <3>2, <3>3, ReplaceEffect
    <2>2. ASSUME NEW r \in ApiRuns, r # j
          PROVE  /\ Exists(<<r, "report">>)' <=> job'[r].plan = Found(r) /\ job'[r].at >= 1
                 /\ Exists(<<r, "results">>)' <=> job'[r].plan = Found(r) /\ job'[r].at >= 2
                 /\ Exists(<<r, "meta">>)' <=> \/ job'[r].plan = Found(r) /\ job'[r].at = 3
                                               \/ job'[r].plan = NothingFound(r) /\ job'[r].at = 1
                 /\ Exists(<<r, "meta">>)' =>
                      file'[<<r, "meta">>].flag = IF job'[r].plan = Found(r) THEN TRUE ELSE FALSE
                 /\ job'[r].stage = "done" => job'[r].plan # <<>>
      <3>1. /\ Exists(<<r, "report">>)' <=> Exists(<<r, "report">>)
            /\ Exists(<<r, "results">>)' <=> Exists(<<r, "results">>)
            /\ Exists(<<r, "meta">>)' <=> Exists(<<r, "meta">>)
            /\ file'[<<r, "meta">>] = file[<<r, "meta">>]
            /\ job'[r] = job[r]
        BY <2>1, <2>2
      <3>2. /\ Exists(<<r, "report">>) <=> job[r].plan = Found(r) /\ job[r].at >= 1
            /\ Exists(<<r, "results">>) <=> job[r].plan = Found(r) /\ job[r].at >= 2
            /\ Exists(<<r, "meta">>) <=> \/ job[r].plan = Found(r) /\ job[r].at = 3
                                         \/ job[r].plan = NothingFound(r) /\ job[r].at = 1
            /\ Exists(<<r, "meta">>) =>
                 file[<<r, "meta">>].flag = IF job[r].plan = Found(r) THEN TRUE ELSE FALSE
            /\ job[r].stage = "done" => job[r].plan # <<>>
        BY DEF IInv, SearchesSound
      <3>. QED
        BY <3>1, <3>2, Zenon
    <2>3. ASSUME j \in ApiRuns
          PROVE  /\ Exists(<<j, "report">>)' <=> job'[j].plan = Found(j) /\ job'[j].at >= 1
                 /\ Exists(<<j, "results">>)' <=> job'[j].plan = Found(j) /\ job'[j].at >= 2
                 /\ Exists(<<j, "meta">>)' <=> \/ job'[j].plan = Found(j) /\ job'[j].at = 3
                                               \/ job'[j].plan = NothingFound(j) /\ job'[j].at = 1
                 /\ Exists(<<j, "meta">>)' =>
                      file'[<<j, "meta">>].flag = IF job'[j].plan = Found(j) THEN TRUE ELSE FALSE
                 /\ job'[j].stage = "done" => job'[j].plan # <<>>
      <3>1. /\ <<j, "report">> \in Paths /\ <<j, "results">> \in Paths /\ <<j, "meta">> \in Paths
            /\ job[j].at \in Nat
        BY <2>3, JobTyped DEF Paths, Names, Runs
      <3>2. /\ Exists(<<j, "report">>)' <=> Exists(<<j, "report">>) \/ <<j, "report">> = w.path
            /\ Exists(<<j, "results">>)' <=> Exists(<<j, "results">>) \/ <<j, "results">> = w.path
            /\ Exists(<<j, "meta">>)' <=> Exists(<<j, "meta">>) \/ <<j, "meta">> = w.path
            /\ <<j, "meta">> = w.path => file'[<<j, "meta">>] = w.holds
            /\ job'[j].plan = job[j].plan /\ job'[j].at = job[j].at + 1
        BY <3>1, ReplaceEffect
      <3>3. /\ Exists(<<j, "report">>) <=> job[j].plan = Found(j) /\ job[j].at >= 1
            /\ Exists(<<j, "results">>) <=> job[j].plan = Found(j) /\ job[j].at >= 2
            /\ Exists(<<j, "meta">>) <=> \/ job[j].plan = Found(j) /\ job[j].at = 3
                                         \/ job[j].plan = NothingFound(j) /\ job[j].at = 1
        BY <2>3 DEF IInv, SearchesSound
      <3>4. CASE job[j].plan = Found(j)
        <4>1. /\ Len(job[j].plan) = 3 /\ w.holds.flag = TRUE
              /\ job[j].at = 0 => w.path = <<j, "report">>
              /\ job[j].at = 1 => w.path = <<j, "results">>
              /\ job[j].at = 2 => w.path = <<j, "meta">>
          BY <1>1, <2>3, <3>1, <3>4 DEF NextIsSound
        <4>2. job[j].at \in 0..2
          BY <1>2, <3>1, <4>1
        <4>3. job[j].plan # NothingFound(j)
          BY <3>4, PlanShapes
        <4>4. CASE job[j].at = 0
          <5>1. job'[j].at = 1 /\ job'[j].plan = Found(j) /\ job'[j].plan # <<>>
            BY <1>2, <3>2, <3>4, <4>4
          <5>2. <<j, "report">> = w.path /\ <<j, "results">> # w.path /\ <<j, "meta">> # w.path
            BY <4>1, <4>4
          <5>3. Exists(<<j, "report">>)' /\ ~Exists(<<j, "results">>)' /\ ~Exists(<<j, "meta">>)'
            BY <3>2, <3>3, <3>4, <4>3, <4>4, <5>2
          <5>4. Exists(<<j, "meta">>)' => file'[<<j, "meta">>].flag = TRUE
            BY <3>2, <4>1, <5>2, <5>3
          <5>5. /\ job'[j].at >= 1 /\ ~(job'[j].at >= 2) /\ job'[j].at # 3
                /\ job'[j].plan # NothingFound(j)
            BY <4>3, <5>1, <3>4
          <5>. QED
            BY <5>1, <5>3, <5>4, <5>5, ZenonT(30)
        <4>5. CASE job[j].at = 1
          <5>1. job'[j].at = 2 /\ job'[j].plan = Found(j) /\ job'[j].plan # <<>>
            BY <1>2, <3>2, <3>4, <4>5
          <5>2. <<j, "results">> = w.path /\ <<j, "report">> # w.path /\ <<j, "meta">> # w.path
            BY <4>1, <4>5
          <5>3. Exists(<<j, "report">>)' /\ Exists(<<j, "results">>)' /\ ~Exists(<<j, "meta">>)'
            BY <3>2, <3>3, <3>4, <4>3, <4>5, <5>2
          <5>4. Exists(<<j, "meta">>)' => file'[<<j, "meta">>].flag = TRUE
            BY <3>2, <4>1, <5>2, <5>3
          <5>5. /\ job'[j].at >= 1 /\ job'[j].at >= 2 /\ job'[j].at # 3
                /\ job'[j].plan # NothingFound(j)
            BY <4>3, <5>1, <3>4
          <5>. QED
            BY <5>1, <5>3, <5>4, <5>5, ZenonT(30)
        <4>6. CASE job[j].at = 2
          <5>1. job'[j].at = 3 /\ job'[j].plan = Found(j) /\ job'[j].plan # <<>>
            BY <1>2, <3>2, <3>4, <4>6
          <5>2. <<j, "meta">> = w.path /\ <<j, "report">> # w.path /\ <<j, "results">> # w.path
            BY <4>1, <4>6
          <5>3. Exists(<<j, "report">>)' /\ Exists(<<j, "results">>)' /\ Exists(<<j, "meta">>)'
            BY <3>2, <3>3, <3>4, <4>3, <4>6, <5>2
          <5>4. Exists(<<j, "meta">>)' => file'[<<j, "meta">>].flag = TRUE
            BY <3>2, <4>1, <5>2, <5>3
          <5>5. /\ job'[j].at >= 1 /\ job'[j].at >= 2 /\ job'[j].at = 3
                /\ job'[j].plan # NothingFound(j)
            BY <4>3, <5>1, <3>4
          <5>. QED
            BY <5>1, <5>3, <5>4, <5>5, ZenonT(30)
        <4>7. job[j].at = 0 \/ job[j].at = 1 \/ job[j].at = 2
          BY <4>2
        <4>. QED
          BY <4>4, <4>5, <4>6, <4>7, Zenon
      <3>5. CASE job[j].plan = NothingFound(j)
        <4>1. /\ job[j].plan # Found(j) /\ w.holds.flag = FALSE
              /\ job[j].at = 0 /\ w.path = <<j, "meta">>
          <5>1. Found(j) # NothingFound(j)
            BY PlanShapes
          <5>. QED
            BY <1>1, <2>3, <3>1, <3>5, <5>1 DEF NextIsSound
        <4>2. job'[j].at = 1 /\ job'[j].plan = NothingFound(j) /\ job'[j].plan # <<>>
          BY <1>2, <3>2, <3>5, <4>1
        <4>3. <<j, "meta">> = w.path /\ <<j, "report">> # w.path /\ <<j, "results">> # w.path
          BY <4>1
        <4>4. Exists(<<j, "meta">>)' /\ ~Exists(<<j, "report">>)' /\ ~Exists(<<j, "results">>)'
          BY <3>2, <3>3, <4>1, <4>3
        <4>5. file'[<<j, "meta">>].flag = FALSE /\ job'[j].plan # Found(j)
          BY <3>2, <4>1, <4>3
        <4>. QED
          BY <4>2, <4>4, <4>5
      <3>. QED
        BY <1>2, <2>3, <3>4, <3>5 DEF IInv, PlansSound
    <2>. QED
      BY <2>2, <2>3 DEF SearchesSound
  <1>9. CommandsSound'
    <2>1. ASSUME NEW r \in CliRuns
          PROVE  <<r, "meta">> \in Paths /\ <<r, "meta">> # w.path
      <3>1. r \in Runs /\ r # D15 /\ r \notin ApiRuns
        BY JobsAreDistinct DEF Runs
      <3>2. CASE j \in CliRuns
        <4>1. job[j].at + 1 \in {1, 2, 3, 4}
          <5>1. Len(job[j].plan) = 4
            BY <1>1, <3>2 DEF NextIsSound
          <5>. QED
            BY <1>2, <5>1, JobTyped
        <4>2. w.path[2] \in {"report", "results"}
          BY <1>1, <3>2, <4>1 DEF NextIsSound
        <4>. QED
          BY <3>1, <4>2 DEF Paths, Names
      <3>3. CASE j \in ApiRuns
        <4>1. w.path[1] = j
          BY <1>1, <3>3 DEF NextIsSound
        <4>. QED
          BY <3>1, <3>3, <4>1 DEF Paths, Names
      <3>4. CASE j \in Approvals
        <4>1. PICK q \in Runs : w.path = <<q, "approval">>
          BY <1>1, <3>4, Zenon DEF NextIsSound
        <4>. QED
          BY <3>1, <4>1 DEF Paths, Names
      <3>. QED
        BY <3>2, <3>3, <3>4 DEF Jobs, Handlers, Runs
    <2>. QED
      BY <2>1, ReplaceEffect DEF IInv, CommandsSound
  <1>10. DecisionsSound'
    <2>1. ASSUME NEW r \in Runs, Exists(<<r, "approval">>)'
          PROVE  Exists(<<r, "meta">>)' /\ Exists(<<r, "results">>)'
      <3>1. <<r, "approval">> \in Paths /\ <<r, "meta">> \in Paths /\ <<r, "results">> \in Paths
        BY DEF Paths, Names
      <3>2. CASE Exists(<<r, "approval">>)
        BY <1>4, <3>1, <3>2 DEF IInv, DecisionsSound
      <3>3. CASE <<r, "approval">> = w.path
        <4>1. CASE j \in Approvals
          <5>1. PICK q \in Runs : /\ w.path = <<q, "approval">>
                                  /\ Exists(<<q, "meta">>)
                                  /\ Exists(<<q, "results">>)
            BY <1>1, <4>1, Zenon DEF NextIsSound
          <5>2. q = r
            BY <3>3, <5>1
          <5>. QED
            BY <1>4, <3>1, <5>1, <5>2
        <4>2. CASE j \in Runs
          <5>1. w.path[2] # "approval"
            <6>1. CASE j \in CliRuns
              <7>1. job[j].at + 1 \in {1, 2, 3, 4}
                <8>1. Len(job[j].plan) = 4
                  BY <1>1, <6>1 DEF NextIsSound
                <8>. QED
                  BY <1>2, <8>1, JobTyped
              <7>. QED
                BY <1>1, <6>1, <7>1 DEF NextIsSound
            <6>2. CASE j \in ApiRuns /\ Len(job[j].plan) = 3
              <7>1. job[j].at + 1 \in {1, 2, 3}
                BY <1>2, <6>2, JobTyped
              <7>. QED
                BY <1>1, <6>2, <7>1 DEF NextIsSound
            <6>3. CASE j \in ApiRuns /\ Len(job[j].plan) # 3
              BY <1>1, <6>3 DEF NextIsSound
            <6>. QED
              BY <4>2, <6>1, <6>2, <6>3 DEF Runs
          <5>. QED
            BY <3>3, <5>1
        <4>. QED
          BY <4>1, <4>2 DEF Jobs, Handlers, Runs
      <3>. QED
        BY <2>1, <3>1, <3>2, <3>3, ReplaceEffect
    <2>. QED
      BY <2>1 DEF DecisionsSound
  <1>. QED
    BY <1>3, <1>5, <1>6, <1>7, <1>8, <1>9, <1>10 DEF IInv

\* The event loop is where TypeOK says it is.
LoopSound == /\ loop \in Handlers \cup {Idle}
             /\ \A h \in Handlers : Writing(h) <=> loop = h

\* SearchesSound only looks at the files and at how far the runs are.
LEMMA SearchesKeep ==
    ASSUME SearchesSound, UNCHANGED file,
           \A r \in ApiRuns : /\ job'[r].plan = job[r].plan /\ job'[r].at = job[r].at
                              /\ job'[r].stage = "done" => job[r].stage = "done"
    PROVE  SearchesSound'
  <1>1. ASSUME NEW r \in ApiRuns
        PROVE  /\ Exists(<<r, "report">>)' <=> job'[r].plan = Found(r) /\ job'[r].at >= 1
               /\ Exists(<<r, "results">>)' <=> job'[r].plan = Found(r) /\ job'[r].at >= 2
               /\ Exists(<<r, "meta">>)' <=> \/ job'[r].plan = Found(r) /\ job'[r].at = 3
                                             \/ job'[r].plan = NothingFound(r) /\ job'[r].at = 1
               /\ Exists(<<r, "meta">>)' =>
                    file'[<<r, "meta">>].flag = IF job'[r].plan = Found(r) THEN TRUE ELSE FALSE
               /\ job'[r].stage = "done" => job'[r].plan # <<>>
    <2>1. /\ Exists(<<r, "report">>) <=> job[r].plan = Found(r) /\ job[r].at >= 1
          /\ Exists(<<r, "results">>) <=> job[r].plan = Found(r) /\ job[r].at >= 2
          /\ Exists(<<r, "meta">>) <=> \/ job[r].plan = Found(r) /\ job[r].at = 3
                                       \/ job[r].plan = NothingFound(r) /\ job[r].at = 1
          /\ Exists(<<r, "meta">>) =>
               file[<<r, "meta">>].flag = IF job[r].plan = Found(r) THEN TRUE ELSE FALSE
          /\ job[r].stage = "done" => job[r].plan # <<>>
      BY DEF SearchesSound
    <2>2. \A p : Exists(p)' <=> Exists(p)
      BY DEF Exists
    <2>3. /\ job'[r].plan = job[r].plan /\ job'[r].at = job[r].at
          /\ job'[r].stage = "done" => job[r].stage = "done"
      OBVIOUS
    <2>. QED
      BY <2>1, <2>2, <2>3, Zenon
  <1>. QED
    BY <1>1 DEF SearchesSound

\* A job that moves on, or ends, between two of its files.
LEMMA MoveKeeps ==
    ASSUME IInv, NEW j \in Jobs, UNCHANGED file,
           NEW s, job' = [job EXCEPT ![j] = s], s \in JobStates,
           s.plan = job[j].plan, s.at = job[j].at,
           s.stage \in {"raised", "refused", "killed"} \/ s.stage = job[j].stage,
           LoopSound', litter' \subseteq Jobs, overlapped' \subseteq CliRuns
    PROVE  IInv'
  <1>1. /\ job'[j] = s
        /\ \A i \in Jobs \ {j} : job'[i] = job[i]
        /\ \A i \in Jobs : job'[i].plan = job[i].plan /\ job'[i].at = job[i].at
        /\ \A i \in Jobs : \/ job'[i].stage = job[i].stage
                          \/ job'[i].stage \in {"raised", "refused", "killed"}
    BY DEF IInv, TypeOK
  <1>2. TypeOK'
    BY DEF IInv, TypeOK, LoopSound
  <1>3. \A p : Exists(p)' <=> Exists(p)
    BY DEF Exists
  <1>4. PlansSound'
    BY <1>1, <1>3 DEF IInv, PlansSound, Jobs, Handlers
  <1>5. StagesSound'
    BY <1>1 DEF IInv, StagesSound, Writing
  <1>6. ReadersGetWholeFiles'
    BY DEF IInv, ReadersGetWholeFiles, Exists
  <1>7. SearchesSound'
    <2>1. ASSUME NEW r \in ApiRuns
          PROVE  /\ job'[r].plan = job[r].plan /\ job'[r].at = job[r].at
                 /\ job'[r].stage = "done" => job[r].stage = "done"
      BY <1>1 DEF Jobs, Handlers
    <2>. QED
      BY <2>1, SearchesKeep DEF IInv
  <1>8. CommandsSound' /\ DecisionsSound'
    BY DEF IInv, CommandsSound, DecisionsSound, Exists
  <1>. QED
    BY <1>2, <1>4, <1>5, <1>6, <1>7, <1>8 DEF IInv

\* A job that learns what it means to write.
LEMMA BeginKeeps ==
    ASSUME IInv, NEW j \in Jobs, UNCHANGED file,
           NEW plan \in Seq(Writes), job' = [job EXCEPT ![j] = Begun(plan)],
           job[j].stage = "waiting",
           j \in CliRuns => plan \in {<<>>, CliPlan(j)},
           j \in ApiRuns => plan \in {Found(j), NothingFound(j)},
           j \in Approvals => \E r \in Runs, d \in BOOLEAN :
                                /\ plan = <<Write(<<r, "approval">>, r, d)>>
                                /\ Exists(<<r, "meta">>)
                                /\ Exists(<<r, "results">>),
           LoopSound', litter' \subseteq Jobs, overlapped' \subseteq CliRuns
    PROVE  IInv'
  <1>1. /\ job'[j] = Begun(plan)
        /\ \A i \in Jobs \ {j} : job'[i] = job[i]
        /\ Begun(plan) \in JobStates
        /\ job'[j].plan = plan /\ job'[j].at = 0
        /\ job'[j].stage = IF plan = <<>> THEN "done" ELSE "writing"
    BY DEF IInv, TypeOK, Begun, JobStates, Stages, Temps
  <1>2. TypeOK'
    BY <1>1 DEF IInv, TypeOK, LoopSound
  <1>3. \A p : Exists(p)' <=> Exists(p)
    BY DEF Exists
  <1>4. PlansSound'
    <2>1. \A r \in CliRuns : job'[r].plan \in {<<>>, CliPlan(r)}
      BY <1>1 DEF IInv, PlansSound, Jobs
    <2>2. \A r \in ApiRuns : job'[r].plan \in {<<>>, Found(r), NothingFound(r)}
      BY <1>1 DEF IInv, PlansSound, Jobs, Handlers
    <2>3. ASSUME NEW a \in Approvals, job'[a].plan # <<>>
          PROVE  \E r \in Runs, d \in BOOLEAN :
                   /\ job'[a].plan = <<Write(<<r, "approval">>, r, d)>>
                   /\ Exists(<<r, "meta">>)'
                   /\ Exists(<<r, "results">>)'
      <3>1. CASE a = j
        BY <1>1, <1>3, <3>1, Zenon
      <3>2. CASE a # j
        <4>1. job'[a] = job[a]
          BY <1>1, <3>2 DEF Jobs, Handlers
        <4>. QED
          BY <1>3, <2>3, <4>1, Zenon DEF IInv, PlansSound
      <3>. QED
        BY <3>1, <3>2
    <2>. QED
      BY <2>1, <2>2, <2>3, Zenon DEF PlansSound
  <1>5. StagesSound'
    <2>1. plan # <<>> => Len(plan) > 0
      OBVIOUS
    <2>2. /\ job'[j].stage # "waiting"
          /\ job'[j].plan = <<>> => job'[j].at = 0 /\ job'[j].stage # "writing"
          /\ job'[j].stage = "writing" => job'[j].at < Len(job'[j].plan)
          /\ job'[j].stage = "done" => job'[j].at = Len(job'[j].plan)
      BY <1>1, <2>1
    <2>. QED
      BY <1>1, <2>2 DEF IInv, StagesSound, Writing
  <1>6. ReadersGetWholeFiles'
    BY DEF IInv, ReadersGetWholeFiles, Exists
  <1>7. SearchesSound'
    <2>1. ASSUME NEW r \in ApiRuns, r # j
          PROVE  job'[r] = job[r]
      BY <1>1, <2>1 DEF Jobs, Handlers
    <2>2. ASSUME j \in ApiRuns
          PROVE  /\ ~Exists(<<j, "report">>) /\ ~Exists(<<j, "results">>)
                 /\ ~Exists(<<j, "meta">>)
      <3>1. job[j].plan = <<>> /\ job[j].at = 0
        BY DEF IInv, StagesSound
      <3>2. job[j].plan # Found(j) /\ job[j].plan # NothingFound(j)
        BY <3>1, PlanShapes
      <3>. QED
        BY <2>2, <3>2, Zenon DEF IInv, SearchesSound
    <2>3. j \in ApiRuns => job'[j].plan # <<>> /\ job'[j].at = 0
      BY <1>1, PlanShapes
    <2>4. ASSUME NEW r \in ApiRuns
          PROVE  /\ Exists(<<r, "report">>)' <=> job'[r].plan = Found(r) /\ job'[r].at >= 1
                 /\ Exists(<<r, "results">>)' <=> job'[r].plan = Found(r) /\ job'[r].at >= 2
                 /\ Exists(<<r, "meta">>)' <=> \/ job'[r].plan = Found(r) /\ job'[r].at = 3
                                               \/ job'[r].plan = NothingFound(r) /\ job'[r].at = 1
                 /\ Exists(<<r, "meta">>)' =>
                      file'[<<r, "meta">>].flag = IF job'[r].plan = Found(r) THEN TRUE ELSE FALSE
                 /\ job'[r].stage = "done" => job'[r].plan # <<>>
      <3>1. CASE r = j
        <4>1. /\ ~Exists(<<j, "report">>)' /\ ~Exists(<<j, "results">>)'
              /\ ~Exists(<<j, "meta">>)'
          BY <1>3, <2>2, <3>1, Zenon
        <4>2. ~(job'[j].at >= 1) /\ ~(job'[j].at >= 2) /\ job'[j].at # 3 /\ job'[j].at # 1
          BY <1>1
        <4>. QED
          BY <2>3, <3>1, <4>1, <4>2, Zenon
      <3>2. CASE r # j
        <4>1. job'[r] = job[r]
          BY <2>1, <3>2
        <4>. QED
          BY <1>3, <4>1, Zenon DEF IInv, SearchesSound
      <3>. QED
        BY <3>1, <3>2
    <2>. QED
      BY <2>4 DEF SearchesSound
  <1>8. CommandsSound' /\ DecisionsSound'
    BY DEF IInv, CommandsSound, DecisionsSound, Exists
  <1>. QED
    BY <1>2, <1>4, <1>5, <1>6, <1>7, <1>8 DEF IInv

-----------------------------------------------------------------------------
(* One step per action.                                                    *)

LEMMA CliWritesKeeps ==
    ASSUME IInv, NEW r \in CliRuns, CliWrites(r)
    PROVE  IInv'
  <1>1. PICK found \in BOOLEAN :
          job' = [job EXCEPT ![r] = Begun(IF found THEN CliPlan(r) ELSE <<>>)]
    BY DEF CliWrites
  <1>. DEFINE plan == IF found THEN CliPlan(r) ELSE <<>>
  <1>2. r \in Jobs /\ r \notin ApiRuns /\ r \notin Approvals /\ r \notin Handlers
    BY JobsAreDistinct DEF Jobs, Handlers, Runs
  <1>3. plan \in Seq(Writes) /\ plan \in {<<>>, CliPlan(r)}
    BY PlansTyped
  <1>4. LoopSound'
    BY <1>1, <1>2 DEF CliWrites, IInv, TypeOK, LoopSound, Writing, Jobs
  <1>5. UNCHANGED <<file, litter>> /\ job[r].stage = "waiting" /\ overlapped' \subseteq CliRuns
    BY DEF CliWrites, IInv, TypeOK
  <1>. HIDE DEF plan
  <1>6. job' = [job EXCEPT ![r] = Begun(plan)]
    BY <1>1 DEF plan
  <1>. QED
    BY <1>2, <1>3, <1>4, <1>5, <1>6, BeginKeeps DEF IInv, TypeOK

\* So does a search that reaches its writes.
LEMMA SearchWritesKeeps ==
    ASSUME IInv, NEW r \in ApiRuns, SearchWrites(r)
    PROVE  IInv'
  <1>1. PICK found \in BOOLEAN :
          /\ job' = [job EXCEPT ![r] = Begun(SearchPlan(r, found))]
          /\ loop' = IF SearchPlan(r, found) = <<>> THEN Idle ELSE r
    BY DEF SearchWrites
  <1>2. r \in Jobs /\ r \in Handlers /\ r \notin CliRuns /\ r \notin Approvals
    BY JobsAreDistinct DEF Jobs, Handlers, Runs
  <1>. DEFINE plan == SearchPlan(r, found)
  <1>3. plan \in Seq(Writes) /\ plan \in {Found(r), NothingFound(r)} /\ plan # <<>>
    BY PlansTyped, PlanShapes DEF Found, NothingFound
  <1>4. UNCHANGED <<file, litter, overlapped>> /\ job[r].stage = "waiting" /\ loop = Idle
    BY DEF SearchWrites
  <1>. HIDE DEF plan
  <1>5. job' = [job EXCEPT ![r] = Begun(plan)] /\ loop' = r
    BY <1>1, <1>3 DEF plan
  <1>6. LoopSound'
    <2>1. \A h \in Handlers : ~Writing(h)
      BY <1>4, IdleIsNoJob DEF IInv, TypeOK, Jobs
    <2>2. \A h \in Handlers : h # r => job'[h] = job[h]
      BY <1>5 DEF IInv, TypeOK, Jobs
    <2>3. job'[r].stage = "writing"
      BY <1>2, <1>3, <1>5 DEF IInv, TypeOK, Begun
    <2>. QED
      BY <1>2, <1>5, <2>1, <2>2, <2>3 DEF LoopSound, Writing
  <1>. QED
    BY <1>2, <1>3, <1>4, <1>5, <1>6, BeginKeeps DEF IInv, TypeOK

\* So does an approval that found its run.
LEMMA ApproveKeeps ==
    ASSUME IInv, NEW a \in Approvals, NEW r \in Runs, Approve(a, r)
    PROVE  IInv'
  <1>1. PICK d \in BOOLEAN : job' = [job EXCEPT ![a] = Begun(ApprovalPlan(r, d))]
    BY DEF Approve
  <1>2. a \in Jobs /\ a \in Handlers /\ a \notin CliRuns /\ a \notin ApiRuns
    BY JobsAreDistinct DEF Jobs, Handlers, Runs
  <1>3. Exists(<<r, "meta">>) /\ Exists(<<r, "results">>)
    BY DEF Approve, Approvable
  <1>4. file[<<r, "results">>].run = r
    <2>1. <<r, "results">> \in Paths /\ r # D15
      BY JobsAreDistinct DEF Paths, Names
    <2>. QED
      BY <1>3, <2>1 DEF IInv, ReadersGetWholeFiles
  <1>. DEFINE plan == <<Write(<<r, "approval">>, r, d)>>
  <1>5. ApprovalPlan(r, d) = plan
    BY <1>4 DEF ApprovalPlan
  <1>6. plan \in Seq(Writes) /\ plan # <<>>
    <2>1. <<r, "approval">> \in Paths
      BY DEF Paths, Names
    <2>2. Write(<<r, "approval">>, r, d) \in Writes
      BY <2>1, WriteTyped
    <2>. QED
      BY <2>2, ShortSeqs
  <1>7. \E q \in Runs, e \in BOOLEAN : /\ plan = <<Write(<<q, "approval">>, q, e)>>
                                       /\ Exists(<<q, "meta">>)
                                       /\ Exists(<<q, "results">>)
    BY <1>3, Zenon
  <1>8. UNCHANGED <<file, litter, overlapped>> /\ job[a].stage = "waiting" /\ loop = Idle
        /\ loop' = a
    BY DEF Approve
  <1>. HIDE DEF plan
  <1>9. job' = [job EXCEPT ![a] = Begun(plan)]
    BY <1>1, <1>5
  <1>10. LoopSound'
    <2>1. \A h \in Handlers : ~Writing(h)
      BY <1>8, IdleIsNoJob DEF IInv, TypeOK, Jobs
    <2>2. \A h \in Handlers : h # a => job'[h] = job[h]
      BY <1>9 DEF IInv, TypeOK, Jobs
    <2>3. job'[a].stage = "writing"
      BY <1>2, <1>6, <1>9 DEF IInv, TypeOK, Begun
    <2>. QED
      BY <1>2, <1>8, <2>1, <2>2, <2>3 DEF LoopSound, Writing
  <1>11. litter' \subseteq Jobs /\ overlapped' \subseteq CliRuns
    BY <1>8 DEF IInv, TypeOK
  <1>12. UNCHANGED file
    BY <1>8
  <1>. QED
    BY <1>2, <1>6, <1>7, <1>8, <1>9, <1>10, <1>11, <1>12, BeginKeeps

\* The steps that only end a job, or its work on one temporary file.
LEMMA MovesKeep ==
    ASSUME IInv, NEW j \in Jobs,
           \/ PipelineRaises(j) \/ MakeTemp(j) \/ Sync(j) \/ WriteRaises(j) \/ Kill(j)
           \/ \E r \in Runs : RefuseApproval(j, r)
    PROVE  IInv'
  <1>. DEFINE s == job'[j]
  <1>1. /\ UNCHANGED <<file, overlapped>>
        /\ job' = [job EXCEPT ![j] = s]
        /\ litter' \subseteq Jobs
    BY DEF PipelineRaises, MakeTemp, Sync, WriteRaises, Kill, RefuseApproval, IInv, TypeOK
  <1>2. /\ s \in JobStates /\ s.plan = job[j].plan /\ s.at = job[j].at
        /\ s.stage \in {"raised", "refused", "killed"} \/ s.stage = job[j].stage
    BY DEF PipelineRaises, MakeTemp, Sync, WriteRaises, Kill, RefuseApproval, IInv, TypeOK,
           JobStates, Stages, Temps
  <1>3. LoopSound'
    <2>1. \A h \in Handlers : h # j => (Writing(h)' <=> Writing(h))
      BY <1>1 DEF IInv, TypeOK, Writing, Jobs
    <2>2. CASE PipelineRaises(j) \/ \E r \in Runs : RefuseApproval(j, r)
      <3>1. ~Writing(j) /\ ~Writing(j)' /\ UNCHANGED loop
        BY <2>2 DEF PipelineRaises, RefuseApproval, Writing, IInv, TypeOK, JobStates
      <3>. QED
        BY <2>1, <3>1 DEF IInv, TypeOK, LoopSound
    <2>3. CASE MakeTemp(j) \/ Sync(j)
      <3>1. Writing(j) /\ Writing(j)' /\ UNCHANGED loop
        BY <2>3 DEF MakeTemp, Sync, Writing, IInv, TypeOK, JobStates
      <3>. QED
        BY <2>1, <3>1 DEF IInv, TypeOK, LoopSound
    <2>4. CASE WriteRaises(j) \/ Kill(j)
      <3>1. Writing(j) /\ ~Writing(j)' /\ loop' = Released(j)
        BY <2>4 DEF WriteRaises, Kill, Writing, IInv, TypeOK, JobStates
      <3>. QED
        BY <2>1, <3>1, IdleIsNoJob DEF IInv, TypeOK, LoopSound, Released, Jobs
    <2>. QED
      BY <2>2, <2>3, <2>4
  <1>4. overlapped' \subseteq CliRuns /\ UNCHANGED file
    BY <1>1 DEF IInv, TypeOK
  <1>. HIDE DEF s
  <1>. QED
    BY <1>1, <1>2, <1>3, <1>4, MoveKeeps

\* The disk starts empty and nothing runs.
LEMMA InitSound == Init => IInv
  <1>. SUFFICES ASSUME Init PROVE IInv
    OBVIOUS
  <1>1. \A p \in Paths : ~Exists(p)
    BY DEF Init, Exists
  <1>2. \A j \in Jobs : job[j] = Fresh
    BY DEF Init
  <1>3. TypeOK
    <2>1. Fresh \in JobStates
      BY PlansTyped DEF Fresh, JobStates, Stages, Temps
    <2>2. \A h \in Handlers : ~Writing(h) /\ loop # h
      BY <1>2, IdleIsNoJob DEF Init, Writing, Fresh, Jobs
    <2>. QED
      BY <2>1, <2>2 DEF Init, TypeOK
  <1>4. PlansSound /\ StagesSound
    BY <1>2 DEF PlansSound, StagesSound, Fresh, Writing, Jobs, Handlers
  <1>5. ReadersGetWholeFiles
    BY <1>1 DEF ReadersGetWholeFiles
  <1>6. \A r \in Runs, n \in Names : ~Exists(<<r, n>>)
    BY <1>1 DEF Paths
  <1>7. SearchesSound
    <2>1. ASSUME NEW r \in ApiRuns
          PROVE  /\ ~Exists(<<r, "report">>) /\ ~Exists(<<r, "results">>)
                 /\ ~Exists(<<r, "meta">>)
                 /\ job[r].plan = <<>> /\ job[r].stage = "waiting"
                 /\ <<>> # Found(r) /\ <<>> # NothingFound(r)
      <3>1. r \in Runs /\ r \in Jobs /\ {"report", "results", "meta"} \subseteq Names
        BY DEF Runs, Jobs, Handlers, Names
      <3>2. <<>> # Found(r) /\ <<>> # NothingFound(r)
        BY PlanShapes
      <3>. QED
        BY <1>2, <1>6, <3>1, <3>2 DEF Fresh
    <2>. QED
      BY <2>1, Zenon DEF SearchesSound
  <1>8. CommandsSound /\ DecisionsSound
    BY <1>6 DEF CommandsSound, DecisionsSound, Runs, Names
  <1>. QED
    BY <1>3, <1>4, <1>5, <1>7, <1>8 DEF IInv

\* A step that changes nothing keeps the invariant.
LEMMA StutterKeeps == IInv /\ UNCHANGED vars => IInv'
  <1>. SUFFICES ASSUME IInv, UNCHANGED vars PROVE IInv'
    OBVIOUS
  <1>1. UNCHANGED <<file, job, loop, litter, overlapped>>
    BY DEF vars
  <1>2. TypeOK'
    BY <1>1 DEF IInv, TypeOK, Writing
  <1>3. PlansSound' /\ StagesSound'
    BY <1>1 DEF IInv, PlansSound, StagesSound, Exists, Writing
  <1>4. SearchesSound'
    BY <1>1, SearchesKeep DEF IInv
  <1>5. ReadersGetWholeFiles' /\ CommandsSound' /\ DecisionsSound'
    BY <1>1 DEF IInv, ReadersGetWholeFiles, CommandsSound, DecisionsSound, Exists
  <1>. QED
    BY <1>2, <1>3, <1>4, <1>5 DEF IInv

\* Every step of every job keeps the invariant.
LEMMA StepKeeps == IInv /\ [Next]_vars => IInv'
  <1>. SUFFICES ASSUME IInv, [Next]_vars PROVE IInv'
    OBVIOUS
  <1>1. ASSUME NEW r \in CliRuns, CliWrites(r) PROVE IInv'
    BY <1>1, CliWritesKeeps
  <1>2. ASSUME NEW r \in ApiRuns, SearchWrites(r) PROVE IInv'
    BY <1>2, SearchWritesKeeps
  <1>3. ASSUME NEW r \in Runs, PipelineRaises(r) PROVE IInv'
    BY <1>3, MovesKeep DEF Jobs, Runs, Handlers
  <1>4. ASSUME NEW a \in Approvals, NEW r \in Runs, Approve(a, r) PROVE IInv'
    BY <1>4, ApproveKeeps
  <1>5. ASSUME NEW a \in Approvals, NEW r \in Runs, RefuseApproval(a, r) PROVE IInv'
    BY <1>5, MovesKeep DEF Jobs, Handlers
  <1>6. ASSUME NEW j \in Jobs, MakeTemp(j) \/ Sync(j) \/ WriteRaises(j) \/ Kill(j)
        PROVE  IInv'
    BY <1>6, MovesKeep
  <1>7. ASSUME NEW j \in Jobs, Replace(j) PROVE IInv'
    BY <1>7, ReplaceKeeps
  <1>8. CASE UNCHANGED vars
    BY <1>8, StutterKeeps
  <1>. QED
    BY <1>1, <1>2, <1>3, <1>4, <1>5, <1>6, <1>7, <1>8 DEF Next

-----------------------------------------------------------------------------
(* The theorems.                                                           *)

THEOREM Invariance == Spec => []IInv
  BY InitSound, StepKeeps, PTL DEF Spec

\* Jobs, files and the event loop keep to their ranges.
THEOREM TypeCorrect == Spec => []TypeOK
  <1>1. IInv => TypeOK
    BY DEF IInv
  <1>. QED
    BY <1>1, Invariance, PTL

\* Whatever fails or is killed, a reader gets whole files of the right run.
THEOREM FilesAreWhole == Spec => []ReadersGetWholeFiles
  <1>1. IInv => ReadersGetWholeFiles
    BY DEF IInv
  <1>. QED
    BY <1>1, Invariance, PTL

\* A run that GET /runs/{id} answers for has the files it announces.
LEMMA KnownRunsHaveTheirFiles == Spec => []KnownRunsAreComplete
  <1>1. ASSUME IInv PROVE KnownRunsAreComplete
    <2>1. ASSUME NEW r \in Runs, Exists(<<r, "meta">>)
          PROVE  /\ r \in ApiRuns
                 /\ \/ /\ file[<<r, "meta">>].flag = TRUE
                       /\ Exists(<<r, "report">>) /\ Exists(<<r, "results">>)
                    \/ /\ file[<<r, "meta">>].flag = FALSE
                       /\ ~Exists(<<r, "report">>) /\ ~Exists(<<r, "results">>)
                       /\ ~Exists(<<r, "approval">>)
      <3>1. r \in ApiRuns
        BY <1>1, <2>1 DEF IInv, CommandsSound, Runs
      <3>2. CASE job[r].plan = Found(r)
        <4>1. job[r].plan # NothingFound(r)
          BY <3>2, PlanShapes
        <4>2. job[r].at = 3 /\ file[<<r, "meta">>].flag = TRUE
          BY <1>1, <2>1, <3>1, <3>2, <4>1 DEF IInv, SearchesSound
        <4>3. job[r].at >= 1 /\ job[r].at >= 2
          BY <4>2
        <4>4. Exists(<<r, "report">>) /\ Exists(<<r, "results">>)
          BY <1>1, <3>1, <3>2, <4>3, Zenon DEF IInv, SearchesSound
        <4>. QED
          BY <3>1, <4>2, <4>4
      <3>3. CASE job[r].plan # Found(r)
        <4>1. file[<<r, "meta">>].flag = FALSE
          BY <1>1, <2>1, <3>1, <3>3 DEF IInv, SearchesSound
        <4>2. ~Exists(<<r, "report">>) /\ ~Exists(<<r, "results">>)
          BY <1>1, <3>1, <3>3 DEF IInv, SearchesSound
        <4>3. ~Exists(<<r, "approval">>)
          BY <1>1, <2>1, <4>2 DEF IInv, DecisionsSound
        <4>. QED
          BY <3>1, <4>1, <4>2, <4>3
      <3>. QED
        BY <3>2, <3>3
    <2>2. ASSUME NEW r \in Runs, GetRun(r) = 200
          PROVE  LET available == file[<<r, "meta">>].flag IN
                 /\ available => GetReport(r) = 200 /\ Exists(<<r, "results">>)
                 /\ ~available => \A n \in {"report", "results", "approval"} : ~Exists(<<r, n>>)
      <3>1. Exists(<<r, "meta">>)
        BY <2>2 DEF GetRun
      <3>2. GetReport(r) = 200 <=> Exists(<<r, "report">>)
        BY DEF GetReport
      <3>. QED
        BY <2>1, <3>1, <3>2
    <2>. QED
      BY <2>2 DEF KnownRunsAreComplete
  <1>. QED
    BY <1>1, Invariance, PTL

\* Once POST /search has responded, its run is known.
LEMMA ResponsesAreAnswerable == Spec => []RespondedRunsAreKnown
  <1>1. ASSUME IInv PROVE RespondedRunsAreKnown
    <2>1. ASSUME NEW r \in ApiRuns, job[r].stage = "done"
          PROVE  Exists(<<r, "meta">>)
      <3>1. /\ job[r].plan \in {Found(r), NothingFound(r)}
            /\ job[r].at = Len(job[r].plan)
        BY <1>1, <2>1 DEF IInv, PlansSound, StagesSound, SearchesSound, Jobs, Handlers
      <3>2. Len(Found(r)) = 3 /\ Len(NothingFound(r)) = 1
        BY PlanShapes
      <3>. QED
        BY <1>1, <2>1, <3>1, <3>2 DEF IInv, SearchesSound
    <2>. QED
      BY <2>1 DEF RespondedRunsAreKnown, GetRun
  <1>. QED
    BY <1>1, Invariance, PTL

\* Whoever is told of a run finds it and all that it announces.
THEOREM RunsAreWhole == Spec => []RunsAreKnownWhole
  <1>1. KnownRunsAreComplete /\ RespondedRunsAreKnown => RunsAreKnownWhole
    BY DEF RunsAreKnownWhole
  <1>. QED
    BY <1>1, KnownRunsHaveTheirFiles, ResponsesAreAnswerable, PTL

\* A recorded decision quotes the price of its own run's results.
THEOREM DecisionsQuoteTheirRun == Spec => []DecisionsAreGrounded
  <1>1. ASSUME IInv PROVE DecisionsAreGrounded
    <2>1. ASSUME NEW r \in Runs, Exists(<<r, "approval">>)
          PROVE  /\ Exists(<<r, "meta">>) /\ Exists(<<r, "results">>)
                 /\ file[<<r, "approval">>].run = file[<<r, "results">>].run
      <3>1. Exists(<<r, "meta">>) /\ Exists(<<r, "results">>)
        BY <1>1, <2>1 DEF IInv, DecisionsSound
      <3>2. /\ <<r, "approval">> \in Paths /\ <<r, "results">> \in Paths /\ r # D15
        BY JobsAreDistinct DEF Paths, Names
      <3>3. file[<<r, "approval">>].run = r /\ file[<<r, "results">>].run = r
        BY <1>1, <2>1, <3>1, <3>2 DEF IInv, ReadersGetWholeFiles
      <3>. QED
        BY <3>1, <3>3
    <2>. QED
      BY <2>1 DEF DecisionsAreGrounded, GetRun
  <1>. QED
    BY <1>1, Invariance, PTL

-----------------------------------------------------------------------------
(* The fixed paths.                                                        *)

\* A command-line run that writes and that no other has overlapped is alone,
\* and what it has written so far is still there.
Alone(r) == Writing(r) /\ r \notin overlapped
Holds(p, r) == Exists(p) /\ file[p].run = r
LoneSound ==
    \A r \in CliRuns : Alone(r) =>
        /\ \A o \in CliRuns : Writing(o) => o = r
        /\ job[r].at >= 1 => Holds(<<D15, "report">>, r)
        /\ job[r].at >= 2 => Holds(<<D15, "results">>, r)
        /\ job[r].at >= 3 => Holds(<<r, "report">>, r)

\* The four files of a CLI run are paths of the disk.
LEMMA LonePaths ==
    ASSUME NEW r \in CliRuns
    PROVE  /\ <<D15, "report">> \in Paths /\ <<D15, "results">> \in Paths
           /\ <<r, "report">> \in Paths /\ <<r, "results">> \in Paths
  BY DEF Paths, Names, Runs

\* No other job writes to the files of a run that is alone.
LEMMA OthersKeepOut ==
    ASSUME IInv, LoneSound, NEW r \in CliRuns, Alone(r), NEW j \in Jobs, j # r, Replace(j)
    PROVE  \A p \in {<<D15, "report">>, <<D15, "results">>, <<r, "report">>} :
             Holds(p, r)' <=> Holds(p, r)
  <1>1. NextIsSound(j) /\ Writing(j)
    BY NextSound DEF Replace
  <1>2. j \notin CliRuns
    BY <1>1 DEF LoneSound
  <1>3. NextWrite(j).path \notin {<<D15, "report">>, <<D15, "results">>, <<r, "report">>}
    <2>1. CASE j \in ApiRuns
      <3>1. NextWrite(j).path[1] = j /\ j # D15
        BY <1>1, <2>1, JobsAreDistinct DEF NextIsSound, Runs
      <3>. QED
        BY <3>1
    <2>2. CASE j \in Approvals
      <3>1. PICK q \in Runs : NextWrite(j).path = <<q, "approval">>
        BY <1>1, <2>2, Zenon DEF NextIsSound
      <3>. QED
        BY <3>1
    <2>. QED
      BY <1>2, <2>1, <2>2 DEF Jobs, Handlers, Runs
  <1>4. \A p \in {<<D15, "report">>, <<D15, "results">>, <<r, "report">>} :
          file'[p] = file[p]
    BY <1>3, LonePaths, ReplaceEffect
  <1>. QED
    BY <1>4 DEF Holds, Exists

\* The next file of a run that is alone ends up in its place.
LEMMA LoneReplace ==
    ASSUME IInv, LoneSound, NEW r \in CliRuns, Alone(r), Replace(r)
    PROVE  /\ job'[r].at = job[r].at + 1 /\ job[r].at \in 0..3
           /\ job'[r].stage = "done" => job[r].at = 3
           /\ job'[r].at >= 1 => Holds(<<D15, "report">>, r)'
           /\ job'[r].at >= 2 => Holds(<<D15, "results">>, r)'
           /\ job'[r].at >= 3 => Holds(<<r, "report">>, r)'
           /\ job'[r].at >= 4 => Holds(<<r, "results">>, r)'
  <1>. DEFINE w == NextWrite(r)
  <1>1. r \in Jobs
    BY DEF Jobs, Runs
  <1>2. NextIsSound(r) /\ Writing(r)
    BY <1>1, NextSound DEF Replace
  <1>3. /\ Len(job[r].plan) = 4 /\ w.holds.run = r
        /\ job[r].at = 0 => w.path = <<D15, "report">>
        /\ job[r].at = 1 => w.path = <<D15, "results">>
        /\ job[r].at = 2 => w.path = <<r, "report">>
        /\ job[r].at = 3 => w.path = <<r, "results">>
    BY <1>1, <1>2, JobTyped DEF NextIsSound
  <1>4. job[r].at \in 0..3
    <2>1. job[r].at \in Nat /\ job[r].at < Len(job[r].plan)
      BY <1>1, <1>2, JobTyped DEF IInv, StagesSound
    <2>. QED
      BY <1>3, <2>1
  <1>5. /\ job'[r].at = job[r].at + 1
        /\ job'[r].stage = "done" => job[r].at = 3
    <2>1. /\ job'[r].at = job[r].at + 1
          /\ job'[r].stage = IF job[r].at + 1 = Len(job[r].plan) THEN "done" ELSE "writing"
      BY <1>1, ReplaceEffect
    <2>. QED
      BY <1>3, <1>4, <2>1
  <1>6. /\ \A p \in Paths : file'[p] = IF p = w.path THEN w.holds ELSE file[p]
        /\ w.holds \in Contents
    BY <1>1, ReplaceEffect
  <1>7. \A p \in Paths : Holds(p, r) => Holds(p, r)'
    BY <1>3, <1>6, AbsentIsNoContent DEF Holds, Exists
  <1>8. \A p \in Paths : p = w.path => Holds(p, r)'
    BY <1>3, <1>6, AbsentIsNoContent DEF Holds, Exists
  <1>9. /\ job[r].at >= 1 => Holds(<<D15, "report">>, r)
        /\ job[r].at >= 2 => Holds(<<D15, "results">>, r)
        /\ job[r].at >= 3 => Holds(<<r, "report">>, r)
    BY DEF LoneSound
  <1>10. /\ job'[r].at >= 1 => Holds(<<D15, "report">>, r)'
         /\ job'[r].at >= 2 => Holds(<<D15, "results">>, r)'
         /\ job'[r].at >= 3 => Holds(<<r, "report">>, r)'
         /\ job'[r].at >= 4 => Holds(<<r, "results">>, r)'
    <2>1. CASE job[r].at = 0
      <3>1. Holds(<<D15, "report">>, r)'
        BY <1>3, <1>8, <2>1, LonePaths
      <3>. QED
        BY <1>5, <2>1, <3>1
    <2>2. CASE job[r].at = 1
      <3>1. Holds(<<D15, "report">>, r)' /\ Holds(<<D15, "results">>, r)'
        <4>1. Holds(<<D15, "report">>, r) /\ w.path = <<D15, "results">>
          BY <1>3, <1>9, <2>2
        <4>. QED
          BY <1>7, <1>8, <4>1, LonePaths
      <3>. QED
        BY <1>5, <2>2, <3>1
    <2>3. CASE job[r].at = 2
      <3>1. Holds(<<D15, "report">>, r)' /\ Holds(<<D15, "results">>, r)'
            /\ Holds(<<r, "report">>, r)'
        <4>1. /\ Holds(<<D15, "report">>, r) /\ Holds(<<D15, "results">>, r)
              /\ w.path = <<r, "report">>
          BY <1>3, <1>9, <2>3
        <4>. QED
          BY <1>7, <1>8, <4>1, LonePaths
      <3>. QED
        BY <1>5, <2>3, <3>1
    <2>4. CASE job[r].at = 3
      <3>1. Holds(<<D15, "report">>, r)' /\ Holds(<<D15, "results">>, r)'
            /\ Holds(<<r, "report">>, r)' /\ Holds(<<r, "results">>, r)'
        <4>1. /\ Holds(<<D15, "report">>, r) /\ Holds(<<D15, "results">>, r)
              /\ Holds(<<r, "report">>, r) /\ w.path = <<r, "results">>
          BY <1>3, <1>9, <2>4
        <4>. QED
          BY <1>7, <1>8, <4>1, LonePaths
      <3>. QED
        BY <1>5, <2>4, <3>1
    <2>. QED
      BY <1>4, <2>1, <2>2, <2>3, <2>4
  <1>. QED
    BY <1>4, <1>5, <1>10

\* Other steps leave a run that is alone, and its files, as they are.
LEMMA LoneUnmoved ==
    ASSUME LoneSound, UNCHANGED file,
           \A r \in CliRuns : Alone(r)' => Alone(r) /\ job'[r].at = job[r].at,
           \A o \in CliRuns : Writing(o)' => Writing(o)
    PROVE  LoneSound'
  <1>1. \A p, r : Holds(p, r)' <=> Holds(p, r)
    BY DEF Holds, Exists
  <1>2. ASSUME NEW r \in CliRuns, Alone(r)'
        PROVE  /\ \A o \in CliRuns : Writing(o)' => o = r
               /\ job'[r].at >= 1 => Holds(<<D15, "report">>, r)'
               /\ job'[r].at >= 2 => Holds(<<D15, "results">>, r)'
               /\ job'[r].at >= 3 => Holds(<<r, "report">>, r)'
    <2>1. Alone(r) /\ job'[r].at = job[r].at
      BY <1>2
    <2>. QED
      BY <1>1, <2>1, Zenon DEF LoneSound
  <1>. QED
    BY <1>2 DEF LoneSound
-----------------------------------------------------------------------------

\* What holds of a run that writes alone survives every step.
LEMMA LoneStep == IInv /\ LoneSound /\ [Next]_vars => LoneSound'
  <1>. SUFFICES ASSUME IInv, LoneSound, [Next]_vars PROVE LoneSound'
    OBVIOUS
  <1>1. ASSUME NEW c \in CliRuns, CliWrites(c) PROVE LoneSound'
    <2>1. PICK found \in BOOLEAN :
            /\ job' = [job EXCEPT ![c] = Begun(IF found THEN CliPlan(c) ELSE <<>>)]
            /\ overlapped' = overlapped \cup
                 (LET others == {o \in CliRuns : Writing(o)}
                  IN  IF found /\ others # {} THEN {c} \cup others ELSE {})
      BY <1>1 DEF CliWrites
    <2>2. UNCHANGED file /\ job[c].stage = "waiting" /\ c \in Jobs
      BY <1>1 DEF CliWrites, Jobs, Runs
    <2>3. \A o \in CliRuns : o # c => job'[o] = job[o]
      BY <2>1 DEF IInv, TypeOK, Jobs, Runs
    <2>4. /\ job'[c].at = 0
          /\ job'[c].stage = "writing" <=> found
      BY <2>1, <2>2, PlanShapes DEF IInv, TypeOK, Begun
    <2>5. CASE ~found
      <3>1. \A o \in CliRuns : Writing(o)' => Writing(o) /\ o # c
        BY <2>3, <2>4, <2>5 DEF Writing
      <3>2. overlapped' = overlapped
        BY <2>1, <2>5
      <3>. QED
        BY <2>2, <2>3, <3>1, <3>2, LoneUnmoved DEF Alone
    <2>6. CASE found /\ \E o \in CliRuns : Writing(o)
      <3>1. \A o \in CliRuns : Writing(o) \/ o = c => o \in overlapped'
        BY <2>1, <2>6
      <3>2. \A o \in CliRuns : ~Alone(o)'
        BY <2>3, <3>1 DEF Alone, Writing
      <3>. QED
        BY <3>2 DEF LoneSound
    <2>7. CASE found /\ \A o \in CliRuns : ~Writing(o)
      <3>1. \A o \in CliRuns : Writing(o)' => o = c
        BY <2>3, <2>7 DEF Writing
      <3>2. ~(job'[c].at >= 1) /\ ~(job'[c].at >= 2) /\ ~(job'[c].at >= 3)
        BY <2>4
      <3>. QED
        BY <3>1, <3>2 DEF LoneSound, Alone
    <2>. QED
      BY <2>5, <2>6, <2>7
  <1>2. ASSUME NEW j \in Jobs, Replace(j) PROVE LoneSound'
    <2>1. \A o \in CliRuns : o # j => job'[o] = job[o]
      BY <1>2, ReplaceEffect DEF Jobs, Runs
    <2>2. \A o \in CliRuns : Writing(o)' => Writing(o)
      BY <1>2, <2>1 DEF Writing, Replace
    <2>3. overlapped' = overlapped
      BY <1>2 DEF Replace
    <2>4. ASSUME NEW r \in CliRuns, Alone(r)'
          PROVE  /\ \A o \in CliRuns : Writing(o)' => o = r
                 /\ job'[r].at >= 1 => Holds(<<D15, "report">>, r)'
                 /\ job'[r].at >= 2 => Holds(<<D15, "results">>, r)'
                 /\ job'[r].at >= 3 => Holds(<<r, "report">>, r)'
      <3>1. Alone(r)
        BY <2>2, <2>3, <2>4 DEF Alone
      <3>2. \A o \in CliRuns : Writing(o)' => o = r
        BY <2>2, <3>1 DEF LoneSound
      <3>3. CASE r = j
        BY <1>2, <3>1, <3>2, <3>3, LoneReplace
      <3>4. CASE r # j
        <4>1. job'[r].at = job[r].at
          BY <2>1, <3>4
        <4>2. \A p \in {<<D15, "report">>, <<D15, "results">>, <<r, "report">>} :
                Holds(p, r)' <=> Holds(p, r)
          BY <1>2, <3>1, <3>4, OthersKeepOut
        <4>3. /\ job[r].at >= 1 => Holds(<<D15, "report">>, r)
              /\ job[r].at >= 2 => Holds(<<D15, "results">>, r)
              /\ job[r].at >= 3 => Holds(<<r, "report">>, r)
          BY <3>1 DEF LoneSound
        <4>. QED
          BY <3>2, <4>1, <4>2, <4>3
      <3>. QED
        BY <3>3, <3>4
    <2>. QED
      BY <2>4 DEF LoneSound
  <1>3. ASSUME NEW j \in Jobs,
               \/ PipelineRaises(j) \/ MakeTemp(j) \/ Sync(j) \/ WriteRaises(j) \/ Kill(j)
               \/ \E r \in Runs : RefuseApproval(j, r)
        PROVE  LoneSound'
    <2>1. /\ UNCHANGED <<file, overlapped>>
          /\ \A o \in CliRuns : job'[o].at = job[o].at /\ (Writing(o)' => Writing(o))
      BY <1>3 DEF PipelineRaises, MakeTemp, Sync, WriteRaises, Kill, RefuseApproval, IInv,
                  TypeOK, JobStates, Writing, Jobs, Runs
    <2>. QED
      BY <2>1, LoneUnmoved DEF Alone
  <1>4. ASSUME NEW h \in Handlers,
               SearchWrites(h) \/ \E r \in Runs : Approve(h, r)
        PROVE  LoneSound'
    <2>1. /\ UNCHANGED <<file, overlapped>>
          /\ \A o \in CliRuns : o # h => job'[o] = job[o]
      BY <1>4 DEF SearchWrites, Approve, IInv, TypeOK, Jobs, Runs
    <2>2. \A o \in CliRuns : o # h
      BY JobsAreDistinct DEF Handlers, Runs
    <2>. QED
      BY <2>1, <2>2, LoneUnmoved DEF Alone, Writing
  <1>5. CASE UNCHANGED vars
    BY <1>5, LoneUnmoved DEF vars, Alone, Writing
  <1>6. CASE \E r \in Runs : PipelineRaises(r)
    <2>1. PICK r \in Runs : PipelineRaises(r)
      BY <1>6
    <2>2. r \in Jobs
      BY DEF Jobs, Handlers, Runs
    <2>. QED
      BY <1>3, <2>1, <2>2
  <1>. QED
    BY <1>1, <1>2, <1>3, <1>4, <1>5, <1>6 DEF Next, Jobs, Handlers

\* A command-line run that no other overlapped leaves the D15 pair, and its own
\* directory, with its own content when it ends.
THEOREM LoneRunsOwnThePair == Spec => LoneRunOwnsThePair
  <1>1. Init => LoneSound
    BY DEF Init, LoneSound, Alone, Writing, Fresh, Jobs, Runs
  <1>2. ASSUME IInv, LoneSound, [Next]_vars, NEW r \in CliRuns,
               Writing(r), job'[r].stage = "done", r \notin overlapped,
               NEW o \in {D15, r}, NEW n \in {"report", "results"}
        PROVE  file'[<<o, n>>] # Absent /\ file'[<<o, n>>].run = r
    <2>1. r \in Jobs /\ Alone(r)
      BY <1>2 DEF Jobs, Runs, Alone
    <2>2. Replace(r)
      <3>1. job[r].stage = "writing"
        BY <1>2 DEF Writing
      <3>2. ASSUME NEW c \in CliRuns, CliWrites(c) PROVE FALSE
        <4>1. PICK found \in BOOLEAN :
                job' = [job EXCEPT ![c] = Begun(IF found THEN CliPlan(c) ELSE <<>>)]
          BY <3>2 DEF CliWrites
        <4>2. c # r
          BY <3>1, <3>2 DEF CliWrites
        <4>3. job'[r] = job[r]
          BY <2>1, <4>1, <4>2 DEF IInv, TypeOK
        <4>. QED
          BY <1>2, <3>1, <4>3
      <3>3. ASSUME NEW h \in Handlers, SearchWrites(h) \/ \E q \in Runs : Approve(h, q)
            PROVE  FALSE
        <4>1. h # r
          BY <1>2, JobsAreDistinct DEF Handlers, Runs
        <4>2. job'[r] = job[r]
          BY <2>1, <3>3, <4>1, <1>2 DEF SearchWrites, Approve, IInv, TypeOK
        <4>. QED
          BY <1>2, <3>1, <4>2
      <3>4. ASSUME NEW j \in Jobs,
                   \/ PipelineRaises(j) \/ MakeTemp(j) \/ Sync(j) \/ WriteRaises(j) \/ Kill(j)
                   \/ \E q \in Runs : RefuseApproval(j, q)
            PROVE  FALSE
        <4>1. CASE PipelineRaises(j) \/ \E q \in Runs : RefuseApproval(j, q)
          <5>1. \E stage \in {"raised", "refused"} : job' = [job EXCEPT ![j].stage = stage]
            BY <4>1 DEF PipelineRaises, RefuseApproval
          <5>2. job'[r].stage # "done"
            BY <2>1, <3>1, <5>1 DEF IInv, TypeOK, JobStates
          <5>. QED
            BY <1>2, <5>2
        <4>2. CASE MakeTemp(j) \/ Sync(j)
          <5>1. \E temp : job' = [job EXCEPT ![j].temp = temp]
            BY <4>2 DEF MakeTemp, Sync
          <5>2. job'[r].stage # "done"
            BY <1>2, <2>1, <3>1, <5>1 DEF IInv, TypeOK, JobStates
          <5>. QED
            BY <1>2, <5>2
        <4>3. CASE WriteRaises(j) \/ Kill(j)
          <5>1. \E stage \in {"raised", "killed"} :
                  job' = [job EXCEPT ![j].stage = stage, ![j].temp = "none"]
            BY <4>3 DEF WriteRaises, Kill
          <5>2. job'[r].stage # "done"
            BY <1>2, <2>1, <3>1, <5>1 DEF IInv, TypeOK, JobStates
          <5>. QED
            BY <1>2, <5>2
        <4>. QED
          BY <3>4, <4>1, <4>2, <4>3
      <3>5. ASSUME NEW j \in Jobs, Replace(j) PROVE j = r
        <4>1. j # r => job'[r] = job[r]
          BY <1>2, <2>1, <3>5, ReplaceEffect
        <4>. QED
          BY <1>2, <3>1, <4>1
      <3>6. ~UNCHANGED vars
        BY <1>2, <3>1 DEF vars
      <3>7. \A q \in Runs : ~PipelineRaises(q)
        <4>1. \A q \in Runs : q \in Jobs
          BY DEF Jobs, Handlers, Runs
        <4>. QED
          BY <3>4, <4>1
      <3>. QED
        BY <1>2, <3>2, <3>3, <3>4, <3>5, <3>6, <3>7 DEF Next, Jobs, Handlers
    <2>3. /\ Holds(<<D15, "report">>, r)' /\ Holds(<<D15, "results">>, r)'
          /\ Holds(<<r, "report">>, r)' /\ Holds(<<r, "results">>, r)'
      <3>1. job'[r].at = 4
        <4>1. /\ job'[r].at = job[r].at + 1
              /\ job'[r].stage = "done" => job[r].at = 3
          BY <1>2, <2>1, <2>2, LoneReplace
        <4>. QED
          BY <1>2, <4>1
      <3>. QED
        BY <1>2, <2>1, <2>2, <3>1, LoneReplace
    <2>. QED
      BY <1>2, <2>3 DEF Holds, Exists
  <1>3. IInv /\ LoneSound /\ [Next]_vars =>
          [\A r \in CliRuns :
             (Writing(r) /\ job'[r].stage = "done" /\ r \notin overlapped) =>
                \A o \in {D15, r}, n \in {"report", "results"} :
                   file'[<<o, n>>] # Absent /\ file'[<<o, n>>].run = r]_vars
    BY <1>2
  <1>. QED
    BY <1>1, <1>3, LoneStep, Invariance, PTL DEF Spec, LoneRunOwnsThePair
=============================================================================
