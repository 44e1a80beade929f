----------------------- MODULE ReleasePipelineProofs -----------------------
(***************************************************************************)
(* For any number of runs, platforms, tags and attempts, in any order of   *)
(* jobs, failures and re-runs: a release is one build per platform, its    *)
(* Windows archive is the one that was tested, and Beget serves what       *)
(* GitHub released.                                                        *)
(***************************************************************************)
EXTENDS ReleasePipeline, TLAPS

\* A job that ran, or runs, ran after all the jobs it needs, and they have
\* not been queued again since.
NeedsInv ==
    \A r \in Runs, j \in Jobs :
      job[r][j] \in {"ok", "uploaded", "scp", "publish"} =>
        \A n \in Needs(j) : job[r][n] = "ok"

\* What the end, or the middle, of a platform's job says of its archives.
UploadInv ==
    \A r \in Runs, p \in Platforms :
      /\ job[r][p] = "uploaded" => artifact[r][p]["tar.gz"] = attempt[r]
      /\ job[r][p] = "ok" => artifact[r][p]["tar.gz"] = artifact[r][p]["zip"]
                           /\ artifact[r][p]["zip"] # 0

\* A passed test is of the archive that is still there.
SmokeInv ==
    \A r \in Runs : job[r]["smoke"] = "ok" => tested[r] = artifact[r][Smoked]["zip"]

\* While a release job counts as successful, the archives are the released.
ReleaseInv ==
    \A r \in Runs :
      /\ event[r] = "dispatch" => tag[r] \in Tags
      /\ job[r]["release"] = "ok" => tag[r] \in Tags /\ github[tag[r]] = Archives(r)
      /\ job[r]["deploy"] \in {"scp", "publish"} => normalize_version(tag[r]) \in Versions

\* A run that has not begun has no job under way; one that has, an attempt.
QueueInv ==
    \A r \in Runs : IF event[r] = "none" THEN \A j \in Jobs : job[r][j] = "queued"
                                        ELSE attempt[r] # 0

\* The inductive invariant.
PipelineInv ==
    /\ Typed /\ QueueInv /\ NeedsInv /\ UploadInv /\ SmokeInv /\ ReleaseInv
    /\ ReleasedIsOneBuild /\ BegetServesRelease

-----------------------------------------------------------------------------

\* What each job needs.
LEMMA NeedsAre ==
    /\ \A p \in Platforms : Needs(p) = {}
    /\ Needs("smoke") = {Smoked}
    /\ Needs("release") = Platforms \cup {"smoke"}
    /\ Needs("deploy") = {"release"}
<1>1. \A p \in Platforms : p # "smoke" /\ p # "release" /\ p # "deploy"
  BY PipelineAssumption
<1>2. QED
  BY <1>1 DEF Needs

\* The jobs by name.
LEMMA JobNames ==
    /\ Platforms \subseteq Jobs /\ Smoked \in Platforms /\ Smoked \in Jobs
    /\ "smoke" \in Jobs /\ "release" \in Jobs /\ "deploy" \in Jobs
    /\ \A p \in Platforms : p # "smoke" /\ p # "release" /\ p # "deploy"
    /\ \A j \in Jobs : Needs(j) \subseteq Jobs
<1>1. \A j \in Jobs : j \in Platforms \/ j = "smoke" \/ j = "release" \/ j = "deploy"
  BY DEF Jobs
<1>2. QED
  BY <1>1, NeedsAre, PipelineAssumption DEF Jobs

\* Three rounds reach every dependent: whatever needs a job that runs again
\* runs again itself.
LEMMA DependentsClosed ==
    ASSUME NEW S, NEW n \in Dependents(S), NEW j \in Jobs, n \in Needs(j)
    PROVE  j \in Dependents(S)
<1> DEFINE one == S \cup {k \in Jobs : Needs(k) \cap S # {}}
           two == one \cup {k \in Jobs : Needs(k) \cap one # {}}
           three == two \cup {k \in Jobs : Needs(k) \cap two # {}}
<1>1. Dependents(S) = three
  BY DEF Dependents
<1>2. CASE n \in Platforms
  <2>1. n \in S
    BY <1>1, <1>2, NeedsAre
  <2>2. QED
    BY <1>1, <2>1
<1>3. CASE n = "smoke"
  <2>1. n \in two
    <3>1. n \in two \/ Needs("smoke") \cap two # {}
      BY <1>1, <1>3
    <3>2. CASE Smoked \in two
      <4>1. Smoked \in S
        BY <3>2, NeedsAre, JobNames
      <4>2. QED
        BY <4>1, <1>3, NeedsAre, JobNames
    <3>3. QED
      BY <3>1, <3>2, NeedsAre
  <2>2. QED
    BY <1>1, <2>1
<1>4. CASE n = "release"
  <2>1. n \in two
    <3>1. n \in two \/ \E m \in Platforms \cup {"smoke"} : m \in two
      BY <1>1, <1>4, NeedsAre
    <3>2. ASSUME NEW m \in Platforms \cup {"smoke"}, m \in two
          PROVE  n \in two
      <4>1. m \in one
        <5>1. CASE m \in Platforms
          BY <3>2, <5>1, NeedsAre
        <5>2. CASE m = "smoke"
          <6>1. m \in one \/ Smoked \in one
            BY <3>2, <5>2, NeedsAre
          <6>2. Smoked \in one => Smoked \in S
            BY NeedsAre, JobNames
          <6>3. Smoked \in S => m \in one
            BY <5>2, NeedsAre, JobNames
          <6>4. QED
            BY <6>1, <6>2, <6>3
        <5>3. QED
          BY <5>1, <5>2
      <4>2. m \in Needs("release") /\ "release" \in Jobs
        BY NeedsAre, JobNames
      <4>3. QED
        BY <4>1, <4>2, <1>4
    <3>3. QED
      BY <3>1, <3>2
  <2>2. QED
    BY <1>1, <2>1
<1>5. n \in Platforms \/ n = "smoke" \/ n = "release"
  <2>1. j \in Platforms \/ j = "smoke" \/ j = "release" \/ j = "deploy"
    BY DEF Jobs
  <2>2. QED
    BY <2>1, NeedsAre, JobNames
<1>6. QED
  BY <1>2, <1>3, <1>4, <1>5

\* A step of one job leaves the others alone.
LEMMA SetStep ==
    ASSUME Typed, NEW r \in Runs, NEW j \in Jobs, NEW s \in Steps, Set(r, j, s)
    PROVE  /\ job' \in [Runs -> [Jobs -> Steps]]
           /\ \A q \in Runs, k \in Jobs :
                 job'[q][k] = IF q = r /\ k = j THEN s ELSE job[q][k]
  BY DEF Typed, Set

\* A job's step keeps NeedsInv when it does not end a success and begins, if
\* it begins anything, with what it needs.
LEMMA NeedsKept ==
    ASSUME Typed, NeedsInv, NEW r \in Runs, NEW j \in Jobs, NEW s \in Steps, Set(r, j, s),
           job[r][j] # "ok",
           s \in {"ok", "uploaded", "scp", "publish"} => \A n \in Needs(j) : job[r][n] = "ok"
    PROVE  NeedsInv'
<1> SUFFICES ASSUME NEW q \in Runs, NEW k \in Jobs,
                    job'[q][k] \in {"ok", "uploaded", "scp", "publish"}, NEW n \in Needs(k)
             PROVE  job'[q][n] = "ok"
  BY DEF NeedsInv
<1>1. n \in Jobs
  BY JobNames
<1>2. job[q][n] = "ok"
  <2>1. CASE q = r /\ k = j
    BY <2>1, SetStep
  <2>2. CASE ~(q = r /\ k = j)
    <3>1. job'[q][k] = job[q][k]
      BY <2>2, SetStep
    <3>2. QED
      BY <3>1 DEF NeedsInv
  <2>3. QED
    BY <2>1, <2>2
<1>3. ~(q = r /\ n = j)
  BY <1>2
<1>4. QED
  BY <1>1, <1>2, <1>3, SetStep

-----------------------------------------------------------------------------

\* The invariant holds at first.
LEMMA PipelineInit == Init => PipelineInv
<1> SUFFICES ASSUME Init PROVE PipelineInv
  OBVIOUS
<1>1. Typed
  BY DEF Init, Typed, Steps, Bundle
<1>2. \A r \in Runs, j \in Jobs : job[r][j] = "queued"
  BY DEF Init
<1>3. QueueInv /\ NeedsInv /\ UploadInv /\ SmokeInv
  <2>1. \A r \in Runs : event[r] = "none"
    BY DEF Init
  <2>2. QED
    BY <1>2, <2>1, JobNames DEF QueueInv, NeedsInv, UploadInv, SmokeInv
<1>4. ReleaseInv
  BY <1>2, JobNames DEF Init, ReleaseInv
<1>5. ReleasedIsOneBuild /\ BegetServesRelease
  BY DEF Init, ReleasedIsOneBuild, BegetServesRelease
<1>6. QED
  BY <1>1, <1>3, <1>4, <1>5 DEF PipelineInv

\* Every step keeps it.
LEMMA PipelineStep == PipelineInv /\ [Next]_vars => PipelineInv'
<1> SUFFICES ASSUME PipelineInv, [Next]_vars PROVE PipelineInv'
  OBVIOUS
<1> USE DEF PipelineInv
<1> DEFINE Rest == <<event, tag, attempt, artifact, tested, github, beget>>
<1>1. ASSUME NEW r \in Runs, Push(r)
      PROVE  PipelineInv'
  <2>1. Typed'
    BY <1>1 DEF Push, Typed
  <2>2. /\ event' = [event EXCEPT ![r] = "push"] /\ attempt' = [attempt EXCEPT ![r] = 1]
        /\ event[r] = "none"
        /\ UNCHANGED <<tag, job, artifact, tested, github, beget>>
    BY <1>1 DEF Push
  <2>3. QueueInv' /\ NeedsInv' /\ SmokeInv'
    BY <2>2 DEF Typed, QueueInv, NeedsInv, SmokeInv
  <2>4. UploadInv'
    BY <2>2, JobNames DEF Typed, QueueInv, UploadInv
  <2>5. ReleaseInv'
    BY <2>2 DEF Typed, ReleaseInv, Archives
  <2>6. ReleasedIsOneBuild' /\ BegetServesRelease'
    BY <2>2 DEF ReleasedIsOneBuild, BegetServesRelease
  <2>7. QED
    BY <2>1, <2>3, <2>4, <2>5, <2>6
<1>2. ASSUME NEW r \in Runs, NEW t \in Tags, Dispatch(r, t)
      PROVE  PipelineInv'
  <2>1. Typed'
    BY <1>2 DEF Dispatch, Typed
  <2>2. /\ event' = [event EXCEPT ![r] = "dispatch"] /\ attempt' = [attempt EXCEPT ![r] = 1]
        /\ event[r] = "none" /\ tag' = [tag EXCEPT ![r] = t]
        /\ UNCHANGED <<job, artifact, tested, github, beget>>
    BY <1>2 DEF Dispatch
  <2>3. QueueInv' /\ NeedsInv' /\ SmokeInv'
    BY <2>2 DEF Typed, QueueInv, NeedsInv, SmokeInv
  <2>4. UploadInv'
    BY <2>2, JobNames DEF Typed, QueueInv, UploadInv
  <2>5. ReleaseInv'
    <3>1. job[r]["release"] = "queued" /\ job[r]["deploy"] = "queued"
      BY <2>2, JobNames DEF QueueInv
    <3>2. QED
      BY <2>2, <3>1 DEF Typed, ReleaseInv, Archives
  <2>6. ReleasedIsOneBuild' /\ BegetServesRelease'
    BY <2>2 DEF ReleasedIsOneBuild, BegetServesRelease
  <2>7. QED
    BY <2>1, <2>3, <2>4, <2>5, <2>6
<1>3. ASSUME NEW r \in Runs, NEW S, Rerun(r, S)
      PROVE  PipelineInv'
  <2>1. /\ attempt' = [attempt EXCEPT ![r] = @ + 1]
        /\ job' = [job EXCEPT ![r] = [j \in Jobs |-> IF j \in Dependents(S) THEN "queued" ELSE @[j]]]
        /\ event[r] # "none" /\ Ended(r)
        /\ UNCHANGED <<event, tag, artifact, tested, github, beget>>
    BY <1>3 DEF Rerun
  <2> DEFINE D == Dependents(S)
  <2>2. \A q \in Runs, k \in Jobs :
           job'[q][k] = IF q = r /\ k \in D THEN "queued" ELSE job[q][k]
    <3> HIDE DEF D
    <3> SUFFICES ASSUME NEW q \in Runs, NEW k \in Jobs
                 PROVE  job'[q][k] = IF q = r /\ k \in D THEN "queued" ELSE job[q][k]
      OBVIOUS
    <3>1. job' = [job EXCEPT ![r] = [j \in Jobs |-> IF j \in D THEN "queued" ELSE job[r][j]]]
      BY <2>1 DEF D
    <3>2. QED
      BY <3>1 DEF Typed
  <2>3. job' \in [Runs -> [Jobs -> Steps]]
    <3> HIDE DEF D
    <3>1. job' = [job EXCEPT ![r] = [j \in Jobs |-> IF j \in D THEN "queued" ELSE job[r][j]]]
      BY <2>1 DEF D
    <3>2. [j \in Jobs |-> IF j \in D THEN "queued" ELSE job[r][j]] \in [Jobs -> Steps]
      BY DEF Typed, Steps
    <3>3. QED
      BY <3>1, <3>2 DEF Typed
  <2>4. Typed'
    BY <2>1, <2>3 DEF Typed
  <2>5. QueueInv'
    <3>1. attempt[r] \in Nat /\ \A q \in Runs : attempt'[q] = IF q = r THEN attempt[q] + 1 ELSE attempt[q]
      BY <2>1 DEF Typed
    <3> HIDE DEF D
    <3>2. QED
      BY <2>1, <2>2, <3>1 DEF QueueInv
  <2>6. NeedsInv'
    <3> SUFFICES ASSUME NEW q \in Runs, NEW k \in Jobs,
                        job'[q][k] \in {"ok", "uploaded", "scp", "publish"}, NEW n \in Needs(k)
                 PROVE  job'[q][n] = "ok"
      BY DEF NeedsInv
    <3>1. n \in Jobs /\ ~(q = r /\ k \in D) /\ job'[q][k] = job[q][k]
      BY <2>2, JobNames
    <3>2. job[q][n] = "ok"
      BY <3>1 DEF NeedsInv
    <3>3. ~(q = r /\ n \in D)
      BY <3>1, DependentsClosed
    <3>4. QED
      BY <2>2, <3>1, <3>2, <3>3
  <2>7. UploadInv'
    <3>1. \A p \in Platforms : job[r][p] # "uploaded"
      BY <2>1, JobNames DEF Ended
    <3> HIDE DEF D
    <3> SUFFICES ASSUME NEW q \in Runs, NEW p \in Platforms
                 PROVE  /\ job'[q][p] = "uploaded" => artifact'[q][p]["tar.gz"] = attempt'[q]
                        /\ job'[q][p] = "ok" => artifact'[q][p]["tar.gz"] = artifact'[q][p]["zip"]
                                               /\ artifact'[q][p]["zip"] # 0
      BY DEF UploadInv
    <3>2. job'[q][p] \in {job[q][p], "queued"}
      BY <2>2, JobNames
    <3>3. q # r => attempt'[q] = attempt[q]
      BY <2>1 DEF Typed
    <3>4. QED
      BY <2>1, <3>1, <3>2, <3>3 DEF UploadInv
  <2>8. SmokeInv' /\ ReleaseInv'
    <3> HIDE DEF D
    <3>1. \A q \in Runs, k \in {"smoke", "release", "deploy"} : job'[q][k] \in {job[q][k], "queued"}
      BY <2>2, JobNames
    <3>2. QED
      BY <2>1, <3>1 DEF SmokeInv, ReleaseInv, Archives
  <2>9. ReleasedIsOneBuild' /\ BegetServesRelease'
    BY <2>1 DEF ReleasedIsOneBuild, BegetServesRelease
  <2>10. QED
    BY <2>4, <2>5, <2>6, <2>7, <2>8, <2>9
<1>4. ASSUME NEW r \in Runs, NEW j \in Jobs, NEW s \in {"skipped", "failed", "publish"}, Set(r, j, s),
             event[r] # "none", job[r][j] # "ok",
             s = "publish" => j = "deploy" /\ job[r][j] = "scp",
             UNCHANGED Rest
      PROVE  PipelineInv'
  <2>1. s \in Steps /\ job' \in [Runs -> [Jobs -> Steps]]
    BY <1>4, SetStep DEF Steps
  <2>2. \A q \in Runs, k \in Jobs : job'[q][k] = IF q = r /\ k = j THEN s ELSE job[q][k]
    BY <1>4, <2>1, SetStep
  <2>3. Typed'
    BY <1>4, <2>1 DEF Typed
  <2>4. QueueInv'
    BY <1>4, <2>2 DEF QueueInv
  <2>5. NeedsInv'
    <3>1. s = "publish" => \A n \in Needs(j) : job[r][n] = "ok"
      BY <1>4 DEF NeedsInv
    <3>2. QED
      BY <1>4, <2>1, <3>1, NeedsKept
  <2>6. UploadInv' /\ SmokeInv'
    <3>1. \A q \in Runs, k \in Jobs : job'[q][k] \in {"ok", "uploaded"} => job'[q][k] = job[q][k]
      BY <2>2
    <3>2. QED
      BY <1>4, <3>1, JobNames DEF UploadInv, SmokeInv
  <2>7. ReleaseInv'
    <3>1. \A q \in Runs : /\ job'[q]["release"] = "ok" => job[q]["release"] = "ok"
                          /\ job'[q]["deploy"] \in {"scp", "publish"} => job[q]["deploy"] \in {"scp", "publish"}
      BY <1>4, <2>2, JobNames
    <3>2. QED
      BY <1>4, <3>1 DEF ReleaseInv, Archives
  <2>8. ReleasedIsOneBuild' /\ BegetServesRelease'
    BY <1>4 DEF ReleasedIsOneBuild, BegetServesRelease
  <2>9. QED
    BY <2>3, <2>4, <2>5, <2>6, <2>7, <2>8
<1>5. ASSUME NEW r \in Runs, NEW p \in Platforms, NEW f \in Formats, NEW s \in {"uploaded", "ok"},
             event[r] # "none",
             \/ f = "tar.gz" /\ job[r][p] = "queued" /\ s = "uploaded"
             \/ f = "zip" /\ job[r][p] = "uploaded" /\ s = "ok",
             artifact' = [artifact EXCEPT ![r][p][f] = attempt[r]], Set(r, p, s),
             UNCHANGED <<event, tag, attempt, tested, github, beget>>
      PROVE  PipelineInv'
  <2>1. p \in Jobs /\ s \in Steps /\ job' \in [Runs -> [Jobs -> Steps]]
    BY <1>5, SetStep, JobNames DEF Steps
  <2>2. \A q \in Runs, k \in Jobs : job'[q][k] = IF q = r /\ k = p THEN s ELSE job[q][k]
    BY <1>5, <2>1, SetStep
  <2>3. artifact' \in [Runs -> [Platforms -> [Formats -> Nat]]]
    BY <1>5 DEF Typed
  <2>4. \A q \in Runs, o \in Platforms, g \in Formats :
           artifact'[q][o][g] = IF q = r /\ o = p /\ g = f THEN attempt[r] ELSE artifact[q][o][g]
    BY <1>5 DEF Typed
  <2>5. \A q \in Runs : q # r => artifact'[q] = artifact[q]
    BY <1>5 DEF Typed
  <2>6. Typed'
    BY <1>5, <2>1, <2>3 DEF Typed
  <2>7. QueueInv'
    BY <1>5, <2>2 DEF QueueInv
  <2>8. NeedsInv'
    BY <1>5, <2>1, NeedsKept, NeedsAre
  <2>9. UploadInv'
    <3>1. attempt[r] # 0
      BY <1>5 DEF QueueInv
    <3>2. QED
      BY <1>5, <2>2, <2>4, <3>1, JobNames DEF UploadInv, Formats
  <2>10. job[r][p] # "ok" /\ job[r]["release"] # "ok" /\ (p = Smoked => job[r]["smoke"] # "ok")
    BY <1>5, JobNames, NeedsAre DEF NeedsInv
  <2>11. SmokeInv'
    BY <1>5, <2>2, <2>4, <2>10, JobNames DEF SmokeInv, Formats
  <2>12. ReleaseInv'
    <3>1. \A q \in Runs : job'[q]["release"] = job[q]["release"] /\ job'[q]["deploy"] = job[q]["deploy"]
      BY <2>2, JobNames
    <3>2. QED
      BY <1>5, <2>5, <2>10, <3>1 DEF ReleaseInv, Archives
  <2>13. ReleasedIsOneBuild' /\ BegetServesRelease'
    BY <1>5 DEF ReleasedIsOneBuild, BegetServesRelease
  <2>14. QED
    BY <2>6, <2>7, <2>8, <2>9, <2>11, <2>12, <2>13
<1>6. ASSUME NEW r \in Runs, Smoke(r)
      PROVE  PipelineInv'
  <2>1. /\ event[r] # "none" /\ job[r]["smoke"] = "queued" /\ job[r][Smoked] = "ok"
        /\ \A n \in Needs("smoke") : job[r][n] = "ok"
        /\ tested' = [tested EXCEPT ![r] = artifact[r][Smoked]["zip"]]
        /\ Set(r, "smoke", "ok")
        /\ UNCHANGED <<event, tag, attempt, artifact, github, beget>>
    BY <1>6, NeedsAre DEF Smoke, Ready
  <2>2. "ok" \in Steps /\ job' \in [Runs -> [Jobs -> Steps]]
    BY <2>1, SetStep, JobNames DEF Steps
  <2>3. \A q \in Runs, k \in Jobs : job'[q][k] = IF q = r /\ k = "smoke" THEN "ok" ELSE job[q][k]
    BY <2>1, <2>2, SetStep, JobNames
  <2>4. artifact[r][Smoked]["zip"] \in Nat
    BY JobNames DEF Typed, Formats
  <2>5. Typed'
    BY <2>1, <2>2, <2>4 DEF Typed
  <2>6. QueueInv'
    BY <2>1, <2>3 DEF QueueInv
  <2>7. NeedsInv'
    BY <2>1, <2>2, NeedsKept, JobNames
  <2>8. UploadInv'
    BY <2>1, <2>3, JobNames DEF UploadInv
  <2>9. SmokeInv'
    BY <2>1, <2>3, JobNames DEF SmokeInv, Typed
  <2>10. ReleaseInv'
    BY <2>1, <2>3, JobNames DEF ReleaseInv, Archives
  <2>11. ReleasedIsOneBuild' /\ BegetServesRelease'
    BY <2>1 DEF ReleasedIsOneBuild, BegetServesRelease
  <2>12. QED
    BY <2>5, <2>6, <2>7, <2>8, <2>9, <2>10, <2>11
<1>7. ASSUME NEW r \in Runs, NEW o \in {"ok", "failed"}, Publish(r, o)
      PROVE  PipelineInv'
  <2>1. /\ event[r] = "dispatch" /\ job[r]["release"] = "queued"
        /\ \A n \in Needs("release") : job[r][n] = "ok"
        /\ \A p \in Platforms : job[r][p] = "ok"
        /\ github[tag[r]] = None
        /\ github' = [github EXCEPT ![tag[r]] = Archives(r)]
        /\ Set(r, "release", o)
        /\ UNCHANGED <<event, tag, attempt, artifact, tested, beget>>
    BY <1>7, NeedsAre DEF Publish, Ready
  <2>2. o \in Steps /\ job' \in [Runs -> [Jobs -> Steps]]
    BY <2>1, SetStep, JobNames DEF Steps
  <2>3. \A q \in Runs, k \in Jobs : job'[q][k] = IF q = r /\ k = "release" THEN o ELSE job[q][k]
    BY <2>1, <2>2, SetStep, JobNames
  <2>4. tag[r] \in Tags
    BY <2>1 DEF ReleaseInv
  <2>5. Archives(r) \in Bundle /\ Archives(r).files = artifact[r]
    BY DEF Archives, Bundle, Typed
  <2>6. \A t \in Tags : github'[t] = IF t = tag[r] THEN Archives(r) ELSE github[t]
    BY <2>1 DEF Typed
  <2>7. Typed'
    BY <2>1, <2>2, <2>5 DEF Typed
  <2>8. QueueInv'
    BY <2>1, <2>3 DEF QueueInv
  <2>9. NeedsInv'
    BY <2>1, <2>2, NeedsKept, JobNames
  <2>10. UploadInv'
    BY <2>1, <2>3, JobNames DEF UploadInv
  <2>11. SmokeInv'
    BY <2>1, <2>3, JobNames DEF SmokeInv
  <2>12. ReleaseInv'
    <3> SUFFICES ASSUME NEW q \in Runs
                 PROVE  /\ event'[q] = "dispatch" => tag'[q] \in Tags
                        /\ job'[q]["release"] = "ok" => tag'[q] \in Tags /\ github'[tag'[q]] = Archives(q)'
                        /\ job'[q]["deploy"] \in {"scp", "publish"} => normalize_version(tag'[q]) \in Versions
      BY DEF ReleaseInv, normalize_version
    <3>1. Archives(q)' = Archives(q)
      BY <2>1 DEF Archives
    <3>2. ASSUME job'[q]["release"] = "ok"
          PROVE  tag[q] \in Tags /\ github'[tag[q]] = Archives(q)
      <4>1. CASE q = r
        BY <4>1, <2>4, <2>6
      <4>2. CASE q # r
        <5>1. tag[q] \in Tags /\ github[tag[q]] = Archives(q)
          BY <3>2, <4>2, <2>3, JobNames DEF ReleaseInv
        <5>2. tag[q] # tag[r]
          <6>1. Archives(q) \in Bundle
            BY DEF Archives, Bundle, Typed
          <6>2. QED
            BY <5>1, <6>1, <2>1, NoneAssumption
        <5>3. QED
          BY <5>1, <5>2, <2>6
      <4>3. QED
        BY <4>1, <4>2
    <3>3. job'[q]["deploy"] = job[q]["deploy"]
      BY <2>3, JobNames
    <3>4. QED
      BY <2>1, <3>1, <3>2, <3>3 DEF ReleaseInv
  <2>13. ReleasedIsOneBuild'
    BY <2>1, <2>5, <2>6 DEF ReleasedIsOneBuild, UploadInv
  <2>14. BegetServesRelease'
    BY <2>1, <2>4, <2>6 DEF BegetServesRelease
  <2>15. QED
    BY <2>7, <2>8, <2>9, <2>10, <2>11, <2>12, <2>13, <2>14
<1>8. ASSUME NEW r \in Runs, PrepareBundle(r)
      PROVE  PipelineInv'
  <2>1. /\ event[r] # "none" /\ job[r]["deploy"] = "queued"
        /\ \A n \in Needs("deploy") : job[r][n] = "ok"
        /\ normalize_version(tag[r]) \in Versions
        /\ Set(r, "deploy", "scp")
        /\ UNCHANGED Rest
    BY <1>8 DEF PrepareBundle, Ready
  <2>2. "scp" \in Steps /\ job' \in [Runs -> [Jobs -> Steps]]
    BY <2>1, SetStep, JobNames DEF Steps
  <2>3. \A q \in Runs, k \in Jobs : job'[q][k] = IF q = r /\ k = "deploy" THEN "scp" ELSE job[q][k]
    BY <2>1, <2>2, SetStep, JobNames
  <2>4. Typed' /\ QueueInv'
    <3>1. Typed'
      BY <2>1, <2>2 DEF Typed
    <3>2. QueueInv'
      BY <2>1, <2>3 DEF QueueInv
    <3>3. QED
      BY <3>1, <3>2
  <2>5. NeedsInv'
    BY <2>1, <2>2, NeedsKept, JobNames
  <2>6. UploadInv' /\ SmokeInv'
    BY <2>1, <2>3, JobNames DEF UploadInv, SmokeInv
  <2>7. ReleaseInv'
    BY <2>1, <2>3, JobNames DEF ReleaseInv, Archives, normalize_version
  <2>8. ReleasedIsOneBuild' /\ BegetServesRelease'
    BY <2>1 DEF ReleasedIsOneBuild, BegetServesRelease
  <2>9. QED
    BY <2>4, <2>5, <2>6, <2>7, <2>8
<1>9. ASSUME NEW r \in Runs, NEW o \in {"ok", "failed"}, PublishBundle(r, o)
      PROVE  PipelineInv'
  <2>1. /\ job[r]["deploy"] = "publish"
        /\ beget' = [beget EXCEPT ![normalize_version(tag[r])] = Archives(r)]
        /\ Set(r, "deploy", o)
        /\ UNCHANGED <<event, tag, attempt, artifact, tested, github>>
    BY <1>9 DEF PublishBundle
  <2>2. o \in Steps /\ job' \in [Runs -> [Jobs -> Steps]]
    BY <2>1, SetStep, JobNames DEF Steps
  <2>3. \A q \in Runs, k \in Jobs : job'[q][k] = IF q = r /\ k = "deploy" THEN o ELSE job[q][k]
    BY <2>1, <2>2, SetStep, JobNames
  <2>4. event[r] # "none"
    BY <2>1, JobNames DEF QueueInv
  <2>5. job[r]["release"] = "ok" /\ \A n \in Needs("deploy") : job[r][n] = "ok"
    BY <2>1, JobNames, NeedsAre DEF NeedsInv
  <2>6. tag[r] \in Tags /\ github[tag[r]] = Archives(r) /\ normalize_version(tag[r]) \in Versions
    BY <2>1, <2>5 DEF ReleaseInv
  <2>7. \A v \in Versions : beget'[v] = IF v = normalize_version(tag[r]) THEN Archives(r) ELSE beget[v]
    BY <2>1 DEF Typed
  <2>8. Archives(r) \in Bundle
    BY DEF Archives, Bundle, Typed
  <2>9. Typed' /\ QueueInv'
    <3>1. Typed'
      BY <2>1, <2>2, <2>8 DEF Typed
    <3>2. QueueInv'
      BY <2>1, <2>3, <2>4 DEF QueueInv
    <3>3. QED
      BY <3>1, <3>2
  <2>10. NeedsInv'
    BY <2>1, <2>2, <2>5, NeedsKept, JobNames
  <2>11. UploadInv' /\ SmokeInv'
    BY <2>1, <2>3, JobNames DEF UploadInv, SmokeInv
  <2>12. ReleaseInv'
    BY <2>1, <2>3, JobNames DEF ReleaseInv, Archives, normalize_version
  <2>13. ReleasedIsOneBuild'
    BY <2>1 DEF ReleasedIsOneBuild
  <2>14. BegetServesRelease'
    BY <2>1, <2>6, <2>7 DEF BegetServesRelease
  <2>15. QED
    BY <2>9, <2>10, <2>11, <2>12, <2>13, <2>14
<1>10. CASE UNCHANGED vars
  BY <1>10 DEF vars, Typed, QueueInv, NeedsInv, UploadInv, SmokeInv, ReleaseInv,
               ReleasedIsOneBuild, BegetServesRelease, Archives
<1>11. CASE Next
  <2>1. PICK r \in Runs :
          \/ Push(r) \/ \E t \in Tags : Dispatch(r, t)
          \/ \E S : Rerun(r, S)
          \/ \E j \in Jobs : SkipJob(r, j) \/ FailJob(r, j)
          \/ \E p \in Platforms : UploadTar(r, p) \/ UploadZip(r, p)
          \/ Smoke(r)
          \/ \E o \in {"ok", "failed"} : Publish(r, o) \/ PublishBundle(r, o)
          \/ PrepareBundle(r) \/ UploadBundle(r)
    BY <1>11 DEF Next
  <2>2. ASSUME NEW j \in Jobs, SkipJob(r, j) PROVE PipelineInv'
    BY <2>2, <1>4 DEF SkipJob
  <2>3. ASSUME NEW j \in Jobs, FailJob(r, j) PROVE PipelineInv'
    <3>1. event[r] # "none" /\ job[r][j] # "ok"
      BY <2>3 DEF FailJob, Ready, QueueInv
    <3>2. QED
      BY <2>3, <3>1, <1>4 DEF FailJob
  <2>4. ASSUME NEW p \in Platforms, UploadTar(r, p) PROVE PipelineInv'
    BY <2>4, <1>5 DEF UploadTar, Ready, Formats
  <2>5. ASSUME NEW p \in Platforms, UploadZip(r, p) PROVE PipelineInv'
    <3>1. event[r] # "none"
      BY <2>5, JobNames DEF UploadZip, QueueInv
    <3>2. QED
      BY <2>5, <3>1, <1>5 DEF UploadZip, Formats
  <2>6. ASSUME UploadBundle(r) PROVE PipelineInv'
    <3>1. event[r] # "none"
      BY <2>6, JobNames DEF UploadBundle, QueueInv
    <3>2. QED
      BY <2>6, <3>1, <1>4, JobNames DEF UploadBundle
  <2>7. QED
    BY <1>1, <1>2, <1>3, <1>6, <1>7, <1>8, <1>9, <2>1, <2>2, <2>3, <2>4, <2>5, <2>6
<1>12. QED
  BY <1>10, <1>11

\* It is an invariant.
LEMMA PipelineInductive == Spec => []PipelineInv
  BY PipelineInit, PipelineStep, PTL DEF Spec

\* Every variable keeps its type, and a platform job succeeds only with both
\* of its archives uploaded.
THEOREM TypeCorrect == Spec => []TypeOK
<1>1. PipelineInv => TypeOK
  BY DEF PipelineInv, TypeOK, UploadInv, Formats
<1>2. QED
  BY <1>1, PipelineInductive, PTL

\* The two archives of a platform in a GitHub release come from one build.
THEOREM ReleasesAreOneBuild == Spec => []ReleasedIsOneBuild
<1>1. PipelineInv => ReleasedIsOneBuild
  BY DEF PipelineInv
<1>2. QED
  BY <1>1, PipelineInductive, PTL

\* What the deploy job put on Beget is what the release job put on GitHub.
THEOREM BegetAgrees == Spec => []BegetServesRelease
<1>1. PipelineInv => BegetServesRelease
  BY DEF PipelineInv
<1>2. QED
  BY <1>1, PipelineInductive, PTL

\* The release job publishes the Windows archive that the smoke job passed.
THEOREM ReleasesAreTested == Spec => ReleasedWasTested
<1> DEFINE Tested == \A t \in Tags : github[t] = None /\ github'[t] # None =>
                        tested[github'[t].run] = github'[t].files[Smoked]["zip"]
<1>1. PipelineInv /\ [Next]_vars => [Tested]_vars
  <2> SUFFICES ASSUME PipelineInv, Next, NEW t \in Tags, github[t] = None, github'[t] # None
               PROVE  tested[github'[t].run] = github'[t].files[Smoked]["zip"]
    OBVIOUS
  <2>1. github' # github
    OBVIOUS
  <2>2. PICK r \in Runs, o \in {"ok", "failed"} : Publish(r, o)
    BY <2>1 DEF Next, Push, Dispatch, Rerun, SkipJob, FailJob, UploadTar, UploadZip, Smoke,
                PublishBundle, PrepareBundle, UploadBundle
  <2>3. github' = [github EXCEPT ![tag[r]] = Archives(r)] /\ job[r]["smoke"] = "ok"
    BY <2>2, NeedsAre DEF Publish, Ready
  <2>4. github'[t] = Archives(r)
    BY <2>3 DEF PipelineInv, Typed
  <2>5. github'[t].run = r /\ github'[t].files = artifact[r]
    BY <2>4 DEF Archives
  <2>6. QED
    BY <2>3, <2>5 DEF PipelineInv, SmokeInv
<1>2. QED
  BY <1>1, PipelineInductive, PTL DEF Spec, ReleasedWasTested
=============================================================================
