-------------------------- MODULE ReleasePipeline --------------------------
(***************************************************************************)
(* .github/workflows/niiet-toolchain.yaml from the end of the builds to    *)
(* the published release: the platform jobs upload their archives, the     *)
(* Windows one is tested natively, the release job publishes all of them   *)
(* on GitHub, and the deploy job publishes them on Beget.                  *)
(*                                                                         *)
(* Several runs of the workflow may be under way at once (it has no        *)
(* concurrency group), for different tags or for the same one; a finished  *)
(* run may be re-run, whole, from its failed jobs, or from one job.  An    *)
(* archive is identified by the run and the attempt that built it.         *)
(***************************************************************************)
EXTENDS Naturals, FiniteSets

CONSTANTS
    Runs,         \* runs of the workflow
    Platforms,    \* the platforms built, Smoked among them
    Smoked,       \* the platform with a native smoke job: windows-x86_64
    Tags,         \* release tags: records [v: BOOLEAN, version: ...]
    Versions,     \* the versions VERSION_PATTERN accepts
    MaxAttempts,  \* MaxAttempts[r]: bound on the attempts of run r
    None

ASSUME PipelineAssumption ==
    /\ Smoked \in Platforms
    /\ \A t \in Tags : t.v \in BOOLEAN
    /\ Platforms \cap {"smoke", "release", "deploy"} = {}
    /\ MaxAttempts \in [Runs -> Nat]

Formats == {"tar.gz", "zip"}
Jobs    == Platforms \cup {"smoke", "release", "deploy"}

VARIABLES
    event,     \* event[r]: "none", "push" (of a tag) or "dispatch"
    tag,       \* tag[r]: the release_tag input of a dispatch
    attempt,   \* attempt[r]: GITHUB_RUN_ATTEMPT
    job,       \* job[r][j]: "queued", a step of the job, "ok", "failed" or "skipped"
    artifact,  \* artifact[r][p][f]: the attempt that uploaded the archive, 0 if none did
    tested,    \* tested[r]: the attempt that built the archive the smoke job passed
    github,    \* github[t]: the release of tag t: its run and archives
    beget      \* beget[v]: what Beget serves as version v

vars == <<event, tag, attempt, job, artifact, tested, github, beget>>

Steps == {"queued", "uploaded", "scp", "publish", "ok", "failed", "skipped"}
Bundle == [run : Runs, files : [Platforms -> [Formats -> Nat]]]

ASSUME NoneAssumption == None \notin Bundle

Typed ==
    /\ event \in [Runs -> {"none", "push", "dispatch"}]
    /\ tag \in [Runs -> Tags \cup {None}]
    /\ attempt \in [Runs -> Nat]
    /\ job \in [Runs -> [Jobs -> Steps]]
    /\ artifact \in [Runs -> [Platforms -> [Formats -> Nat]]]
    /\ tested \in [Runs -> Nat]
    /\ github \in [Tags -> Bundle \cup {None}]
    /\ beget \in [Versions -> Bundle \cup {None}]

\* The types; and a platform job that counts as successful has uploaded both
\* archives, which is what `needs' and download-artifact rely on.
TypeOK ==
    /\ Typed
    /\ \A r \in Runs, p \in Platforms, f \in Formats :
          job[r][p] = "ok" => artifact[r][p][f] # 0

Init ==
    /\ event = [r \in Runs |-> "none"]
    /\ tag = [r \in Runs |-> None]
    /\ attempt = [r \in Runs |-> 0]
    /\ job = [r \in Runs |-> [j \in Jobs |-> "queued"]]
    /\ artifact = [r \in Runs |-> [p \in Platforms |-> [f \in Formats |-> 0]]]
    /\ tested = [r \in Runs |-> 0]
    /\ github = [t \in Tags |-> None]
    /\ beget = [v \in Versions |-> None]

-----------------------------------------------------------------------------
(* Jobs                                                                    *)

\* Faulty variant: the release does not wait for the native test.
Needs_NoSmoke(j) ==
    CASE j = "smoke"   -> {Smoked}
      [] j = "release" -> Platforms
      [] j = "deploy"  -> {"release"}
      [] OTHER         -> {}

\* Faulty variant: the deployment waits for the test and not for the release.
Needs_DeployAfterSmoke(j) ==
    CASE j = "smoke"   -> {Smoked}
      [] j = "release" -> Platforms \cup {"smoke"}
      [] j = "deploy"  -> Platforms \cup {"smoke"}
      [] OTHER         -> {}

\* The `needs' of a job.
Needs(j) ==
    CASE j = "smoke"   -> {Smoked}
      [] j = "release" -> Platforms \cup {"smoke"}
      [] j = "deploy"  -> {"release"}
      [] OTHER         -> {}

\* The jobs that run again when those of S do.
Dependents(S) ==
    LET one == S \cup {j \in Jobs : Needs(j) \cap S # {}}
        two == one \cup {j \in Jobs : Needs(j) \cap one # {}}
    IN  two \cup {j \in Jobs : Needs(j) \cap two # {}}

\* Faulty variant: if: always().
Ready_Always(r, j) ==
    /\ event[r] # "none" /\ job[r][j] = "queued"
    /\ \A n \in Needs(j) : job[r][n] \in {"ok", "failed", "skipped"}
    /\ j \in {"release", "deploy"} => event[r] = "dispatch"

\* The job may run: what it needs succeeded, and its `if' holds.
Ready(r, j) ==
    /\ event[r] # "none" /\ job[r][j] = "queued"
    /\ \A n \in Needs(j) : job[r][n] = "ok"
    /\ j \in {"release", "deploy"} => event[r] = "dispatch"

Set(r, j, state) == job' = [job EXCEPT ![r][j] = state]

Ended(r) == \A j \in Jobs : job[r][j] \in {"ok", "failed", "skipped"}

(* A run begins, or begins again.                                          *)

Push(r) ==
    /\ event[r] = "none"
    /\ event' = [event EXCEPT ![r] = "push"]
    /\ attempt' = [attempt EXCEPT ![r] = 1]
    /\ UNCHANGED <<tag, job, artifact, tested, github, beget>>

Dispatch(r, release_tag) ==
    /\ event[r] = "none"
    /\ event' = [event EXCEPT ![r] = "dispatch"]
    /\ tag' = [tag EXCEPT ![r] = release_tag]
    /\ attempt' = [attempt EXCEPT ![r] = 1]
    /\ UNCHANGED <<job, artifact, tested, github, beget>>

\* All jobs, the failed ones, or one of them, with their dependents.  The
\* artifacts of earlier attempts stay until they are uploaded again.
Rerun(r, S) ==
    /\ event[r] # "none" /\ Ended(r) /\ attempt[r] < MaxAttempts[r]
    /\ \/ S = Jobs
       \/ S = {j \in Jobs : job[r][j] = "failed"} /\ S # {}
       \/ \E j \in Jobs : S = {j} /\ job[r][j] # "skipped"
    /\ attempt' = [attempt EXCEPT ![r] = @ + 1]
    /\ job' = [job EXCEPT ![r] = [j \in Jobs |-> IF j \in Dependents(S) THEN "queued" ELSE @[j]]]
    /\ UNCHANGED <<event, tag, artifact, tested, github, beget>>

\* Something it needs did not succeed, or its `if' is false.
SkipJob(r, j) ==
    /\ event[r] # "none" /\ job[r][j] = "queued"
    /\ \/ \E n \in Needs(j) : job[r][n] \in {"failed", "skipped"}
       \/ j \in {"release", "deploy"} /\ event[r] = "push"
    /\ Set(r, j, "skipped")
    /\ UNCHANGED <<event, tag, attempt, artifact, tested, github, beget>>

\* Any step of a job may fail, or the runner may be lost.
FailJob(r, j) ==
    /\ Ready(r, j) \/ job[r][j] \in {"uploaded", "scp", "publish"}
    /\ Set(r, j, "failed")
    /\ UNCHANGED <<event, tag, attempt, artifact, tested, github, beget>>

(* Platform jobs: everything is built and packaged, then uploaded.         *)

UploadTar(r, p) ==
    /\ Ready(r, p)
    /\ artifact' = [artifact EXCEPT ![r][p]["tar.gz"] = attempt[r]]
    /\ Set(r, p, "uploaded")
    /\ UNCHANGED <<event, tag, attempt, tested, github, beget>>

\* Faulty variant: without `if-no-files-found: error' a missing archive is
\* only a warning.
UploadZip_OrWarns(r, p) ==
    /\ job[r][p] = "uploaded"
    /\ \/ artifact' = [artifact EXCEPT ![r][p]["zip"] = attempt[r]]
       \/ UNCHANGED artifact
    /\ Set(r, p, "ok")
    /\ UNCHANGED <<event, tag, attempt, tested, github, beget>>

UploadZip(r, p) ==
    /\ job[r][p] = "uploaded"
    /\ artifact' = [artifact EXCEPT ![r][p]["zip"] = attempt[r]]
    /\ Set(r, p, "ok")
    /\ UNCHANGED <<event, tag, attempt, tested, github, beget>>

(* windows-clang-smoke                                                     *)

Smoke(r) ==
    /\ Ready(r, "smoke")
    /\ artifact[r][Smoked]["zip"] # 0
    /\ tested' = [tested EXCEPT ![r] = artifact[r][Smoked]["zip"]]
    /\ Set(r, "smoke", "ok")
    /\ UNCHANGED <<event, tag, attempt, artifact, github, beget>>

(* release                                                                 *)

\* verify-release-files.sh: all the archives are there.
AllArchives(r) == \A p \in Platforms, f \in Formats : artifact[r][p][f] # 0

Archives(r) == [run |-> r, files |-> artifact[r]]

\* gh release create refuses a tag that has a release.  The job may fail
\* although the release was created.
Publish(r, outcome) ==
    /\ Ready(r, "release") /\ AllArchives(r)
    /\ github[tag[r]] = None
    /\ github' = [github EXCEPT ![tag[r]] = Archives(r)]
    /\ Set(r, "release", outcome)
    /\ UNCHANGED <<event, tag, attempt, artifact, tested, beget>>

(* deploy-beget                                                            *)

\* The version, without the v of the tag.
normalize_version(t) == t.version

\* prepare-beget-release.py, and `aspect-publisher prepare'
PrepareBundle(r) ==
    /\ Ready(r, "deploy") /\ AllArchives(r)
    /\ normalize_version(tag[r]) \in Versions
    /\ Set(r, "deploy", "scp")
    /\ UNCHANGED <<event, tag, attempt, artifact, tested, github, beget>>

\* scp into the directory of this run and attempt.
UploadBundle(r) ==
    /\ job[r]["deploy"] = "scp"
    /\ Set(r, "deploy", "publish")
    /\ UNCHANGED <<event, tag, attempt, artifact, tested, github, beget>>

\* aspect-publisher publish: its answer may be lost.
PublishBundle(r, outcome) ==
    /\ job[r]["deploy"] = "publish"
    /\ beget' = [beget EXCEPT ![normalize_version(tag[r])] = Archives(r)]
    /\ Set(r, "deploy", outcome)
    /\ UNCHANGED <<event, tag, attempt, artifact, tested, github>>

Next ==
    \E r \in Runs :
      \/ Push(r) \/ \E t \in Tags : Dispatch(r, t)
      \/ \E S \in {Jobs} \cup {{j \in Jobs : job[r][j] = "failed"}} \cup {{j} : j \in Jobs} : Rerun(r, S)
      \/ \E j \in Jobs : SkipJob(r, j) \/ FailJob(r, j)
      \/ \E p \in Platforms : UploadTar(r, p) \/ UploadZip(r, p)
      \/ Smoke(r)
      \/ \E o \in {"ok", "failed"} : Publish(r, o) \/ PublishBundle(r, o)
      \/ PrepareBundle(r) \/ UploadBundle(r)

Spec == Init /\ [][Next]_vars

-----------------------------------------------------------------------------
(* Properties                                                              *)

\* The Windows archive of a release is the very build that passed the native
\* smoke test, however often jobs were re-run before it was published.
ReleasedWasTested ==
    [][\A t \in Tags : github[t] = None /\ github'[t] # None =>
          tested[github'[t].run] = github'[t].files[Smoked]["zip"]]_vars

\* The two archives of a platform in a release come from one build: a job
\* re-run that uploaded only one of them is never released.
ReleasedIsOneBuild ==
    \A t \in Tags : github[t] # None =>
      \A p \in Platforms : github[t].files[p]["tar.gz"] = github[t].files[p]["zip"]

\* What Beget serves as a version is what GitHub released under a tag of that
\* version, archive for archive, whatever runs and re-runs compete for it.
BegetServesRelease ==
    \A v \in Versions : beget[v] # None =>
      \E t \in Tags : normalize_version(t) = v /\ github[t] = beget[v]
=============================================================================
