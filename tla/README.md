# A TLA+ model of riscv-toolchain

The repository builds, tests, packages and publishes RISC-V cross toolchains. It
holds no compiler code of its own: the program is its build logic, a 1400-line
`Makefile.in` driven by stamp files, the shell and Python scripts under `build/`
that prepare sources and host libraries, and the GitHub workflow that turns a
commit into a published release. What can go wrong there is seldom in one
command. It is in the order of commands that run in parallel, in what is left on
the disk when one of them fails or is killed, and in what the next run concludes
from what it finds.

All of them decide from *evidence left by an earlier run* (a stamp, a marker
file, a resolvable `HEAD`, an artifact, an existing release) whether work can be
skipped. The central question of this project is therefore the same everywhere:

> When a run accepts that evidence, is what the evidence stands for really there?

## 1. Inventory

| Component | State | Operations | Hard behaviour | What makes it correct |
|---|---|---|---|---|
| Stamp machinery (`Makefile.in`) | `stamps/*`, build directories, one shared install prefix | one recipe per stamp; `make clean` | parallel recipes over one prefix; failures and kills in mid-install; stale stamps; lost exit statuses | a stamp that make trusts stands for what is installed; no recipe reads what another is installing; retries converge |
| Bare-metal toolchain (`make newlib`) | binutils, gdb, gcc stages 1 and 2, newlib, newlib-nano, merge | the recipes of 8 stamps | stage 2 replaces the compiler others use; merge overwrites newlib's `crt0.o` | as above, on this graph |
| glibc toolchain (`make linux`) | SYSROOT with one C library per multilib | the recipes of 8 stamps | multilibs install into one sysroot under `flock` | as above, on this graph |
| Patched sources (`build/prepare-sources.sh`, cache steps of the workflow) | one git tree per component; CI cache entries | clone with mirrors and attempts, checkout, `git am`, cache restore and save | kills between the git commands; a cache shared by jobs | a build only sees trees with its own patches |
| Archive download (`build/fetch-source.sh`) | destination and `.part` file | `fetch_source` | error pages served with HTTP 200, torn transfers, kills | the destination changes only to a whole archive |
| Pinned llvm-mingw (`build/prepare-llvm-mingw.sh`) | install root with `.complete`, cached archive, temporary directory | `main`, EXIT trap | kills in `rm -rf` and `tar`, wrong archives | a printed path is a whole compiler; later runs heal |
| Host libraries (`prepare-host-deps.sh`, `prepare-mingw-deps.sh`) | prefix, `.complete` or the archives in it | fetch, build and install in a fixed order | a kill in the middle of an install | a prefix is accepted only when whole |
| Release pipeline (`niiet-toolchain.yaml`, release and deploy scripts) | jobs, artifacts, GitHub releases, Beget versions | build, upload, smoke test, release, deploy, re-run | re-runs of single jobs, racing runs, lost replies | only tested, unmixed archives are released; Beget serves what GitHub released |
| Staged builds (`build/build-baremetal.sh`, `apply-llvm-patches.sh`) | native pre-pass, table generators, LLVM source file, prefix, two archives | stages gcc, clang, package, `all` | skip tests on single files; kills in `git apply`, in an install and between the archives | archives that are reported are whole and agree; calling again leads to success |
| musl, uClibc, native toolchains; simulators; LLVM targets | further stamps of the same Makefile | the recipes of some 20 stamps | the last recipe of the native toolchain changes the source tree of the first; commands joined by `;` | the assumptions under which the stamp machinery is proved correct |
| Submodule rule (`$(srcdir)/%/.git`) | `.git/config`, `config.lock`, clones, working trees | init and update under `flock` | the lock is on a file that git replaces, so two recipes can hold it | what make takes for a submodule is checked out; retries converge |
| Checks and reports (`check-*`, `report-*`, `scripts/testsuite-filter`) | check stamps, `.sum` files in a build directory that two C libraries share | run a test suite, filter its results | stale stamps and results, overwritten results, swallowed failures | a report succeeds only on complete results of what is installed, each failure excused |
| Upstream CI (`build.yaml`, `nightly-release.yaml`) | artifacts, nightly tags | build matrix, upload, prune | same as the pipeline | not modelled |
| `march-to-cpu-opt` | none | pure function on text | - | planned last |
| `configure`, kernel headers, patches, documents, artifact checks | none of their own | - | - | not modelled, see section 7 |

How the parts interact. A job of the workflow restores or prepares the sources
(SourcePrep), prepares the host compiler and libraries (LlvmMingw, HostDeps, both
through FetchSource), runs `build-baremetal.sh` (BareMetal), which calls `make newlib`
(StampBuild), packages the prefix and uploads it; the later jobs release it
(ReleasePipeline). A developer's make fetches its submodules first (Submodules) and, on
request, tests what it has built (TestReports, through TestsuiteFilter). The interfaces are directories and exit statuses, which is why
the parts can be modelled one by one: FetchSource is composed into LlvmMingw as a
real sub-machine, and elsewhere the promise of a part (the abstract AtomicFetch,
the success of `make`) stands for it.

The hazards of the code, with the line where each one bites and the property that
watches it, are listed in `PROJECT.json`. Left out there, because no property could be stated about them:
`fetch_source` takes a destination with an unknown suffix without a check (no caller passes
one) and sets no limit on a stalled transfer; `validate_root` looks at six tools
only; a failing objdump in `check-host-runtime.sh` looks like a file without forbidden
libraries.

## 2. Modules

| Module | Models | Extends / instantiates |
|---|---|---|
| `StampBuild` | any set of stamp recipes under a parallel make | - |
| `ToolchainGraphs` | the toolchains of `Makefile.in` as tables of rules | - |
| `MCNewlib`, `MCLinux` | the newlib and the glibc toolchain; `MCLinux` also evaluates the theorems' assumptions for all others | both of the above |
| `StampBuildProofs` | theorems for every graph | `StampBuild` |
| `Submodules`, `SubmodulesProofs` | the rule that fetches a submodule on demand | - |
| `TestsuiteFilter` | `scripts/testsuite-filter`, as operators | - |
| `TestReports`, `MCTestReports`, `TestReportsProofs` | the check and report targets | extends `TestsuiteFilter` |
| `SourcePrep`, `MCSourcePrep`, `SourcePrepProofs` | `prepare-sources.sh` and the CI cache | - |
| `AtomicFetch` | what callers of `fetch_source` rely on (abstract) | - |
| `FetchSource` | `fetch-source.sh`; its theorems are in `LlvmMingwProofs` | instantiates `AtomicFetch` |
| `LlvmMingw`, `LlvmMingwProofs` | `prepare-llvm-mingw.sh` | extends `FetchSource` |
| `HostDeps`, `MCHostDeps`, `HostDepsProofs` | the two host library scripts | - |
| `BareMetal`, `BareMetalProofs` | `build-baremetal.sh` and `apply-llvm-patches.sh` | - |
| `ReleasePipeline`, `MCReleasePipeline`, `ReleasePipelineProofs` | the workflow from upload to deployment | - |

Operators called "Faulty variant" (`Clear_StampFirst`, `Drop_LeavesPart`, ...) are
not part of any specification. Each is a plausible mistake in the definition after
it; putting it in place of that definition makes a run fail, which shows that the
property of that run depends on the code being right.

### StampBuild

A target `t` stands for `stamps/build-X`. On disk it has a stamp (`stamp[t]`) that
may be older than a prerequisite (`stale[t]`, the outcome of make's comparison of
modification times), and it installs components of the prefix (`content[c]`: which
target wrote `c`, `None`, or `Torn` when an install of it was cut short). `pc[t]`
is where the running make is with the recipe:

| Action | Code |
|---|---|
| `Skip` | the stamp is up to date |
| `Download` | `contrib/download_prerequisites` in a gcc source tree |
| `Clear` | `rm -rf $@ $(notdir $@)` (two recipes keep their stamp) |
| `BeginInstall`, `EndInstall` | configure, make, make install; under `flock` for glibc |
| `InstallMasked` | the same with a copy whose failure the recipe does not see |
| `Touch` | `mkdir -p $(dir $@) && touch $@` |
| `Fail`, `FailOnTornInput`, `Kill` | a command fails; it uses something half installed; make is killed |
| `StartMake`, `ExitOk`, `ExitError` | make without `-k`: after an error it only waits |
| `UpdateSource`, `Clean` | the user checks out another revision; `make clean` |

`good[t]` is a history variable: the product of `t` was made from the present
products of the targets it is built from (`Reads`) and the present source. No
action is guarded by it.

Decisions worth knowing:

- A half-installed tool or library makes the recipe that uses it fail. It is the
  mildest assumption: if it went unnoticed, the result would be worse.
- Source trees are updated only while make is off. A source directory is a make
  prerequisite by its own modification time, so `UpdateSource` is a checkout that
  adds or removes an entry of the directory; it is the user's doing and stands for no
  line of the Makefile. An edit deep in the tree makes nothing stale, since the Makefile
  declares the directory as the prerequisite.
- `InstallMasked` may lose everything the target writes, or some of it: when no copy takes
  place at all (the loop of `merge-newlib-nano` runs over an empty list), torn inputs go
  unnoticed too.
- `TypeOK` says beside the types that a component never holds the product of a target that
  does not write it: an install that went to another prefix or target's place would show.
- `make clean` removes stamps, build directories and `install-newlib-nano`, never
  the prefix; hence `Local`.
- The multilib list of the merge recipe is taken from the make variable set near
  the head of the Makefile; the `export`s at the head of the recipe's loop
  are in another shell and have no effect on it.

### ToolchainGraphs

A toolchain is a table with one `Rule` per stamp: the prerequisites and the source
directories of the rule, the components its recipe writes and uses, and how it works
(`keeps`: the stamp is not removed first, `downloads`, `locks`). The parameters of
StampBuild are computed from the table. What is written and used comes from the recipes:
the C libraries are compiled by the gcc installed
in the prefix, gcc itself by the host compiler, its target libraries by the gcc
in its own build directory; `merge-newlib-nano` asks the installed gcc for its
multilibs and copies from `install-newlib-nano`; LLVM's run-time libraries are compiled
by the new clang against gcc's libraries and the sysroot. The tables: newlib, newlib with
simulators, dejagnu and LLVM, newlib with `--enable-host-gcc`, glibc for any set of multilibs, glibc with LLVM,
native, musl and uClibc. `MaskedLossOf` lists what a recipe can lose without noticing.

### Submodules

`flock` opens the file that has the name `.git/config` at that moment (`fd[s]` is its
inode) and waits for a lock on that inode. git writes the file by creating
`config.lock` and renaming it, which gives the name a new inode: a recipe that opened
the file before the rename and one that opened it after both get "the" lock. A second
writer then finds `config.lock` and fails (`Collide`), and with it the recipe. `cut`
records that a checkout failed or that something was killed; no action is guarded by it.
git is external, and modelled by the steps its two commands take on these files.

### TestsuiteFilter and TestReports

TestsuiteFilter has the filter's functions as operators. An architecture is a sequence of
characters, since the parser works on characters; a file name is the sequence of its
dotted parts; a line of a list is a status, a test and the characters behind it, since a
line excuses results by prefix, in the middle of a word too. Two corners of the reading of files are
left out: of two `.sum` files with one base name the filter keeps the later, and an allowlist
line of one word is filed under the test of the line before it, or ends the filter with an error
when it is the first.
`ReferenceExts` and `ReferenceFiles` state the rule of `test/allowlist/README.md`
independently, by quantifiers instead of a scan. `ExtsFrom` is the loop of `Arch.__init__`:
what it adds from each position on.

TestReports has the state around it. `tool` is chosen initially, gcc or binutils.
`dirty` are the units (binutils, gcc, the simulators) whose sources are newer than their
stamps, `behind[l]` the units stamped after the check of library `l`, which is all that make
compares. `sums` are the `.sum` files in the tool's build directory, with the library and the setting they are of, the
boards and results in them and the units installed since. A setting is a value of
`SIM` and `RUNTESTFLAGS`; `SimStamp` says which simulators a check depends on under it,
none for `SIM=gdb`. Two runtests in one directory truncate and write the same files;
the later one's remain. Units are built before any check starts (make orders them), one
after the other: how they may overlap is the subject of StampBuild.

### SourcePrep

`tree[n]` is `absent`, `half` (a clone without a resolvable HEAD), `cloned`, `base`
(checked out, perhaps with a part of the series applied) or a revision of the
patches. A run of the script is a job on some revision. Initially `fresh` is chosen:
`TRUE` for CI, where a job starts on an empty disk and restores the cache entry of
its own patches if there is one, `FALSE` for a developer's directory, which keeps
what earlier runs left. The loops over components, mirrors and three attempts are
`i`, `mirror` and `attempt`. `Kill` may leave anything the interrupted git command can.
`HeadResolves` takes it that `$SOURCES` lies in no other git checkout, or that a clone which was cut
has written its own `.git/HEAD` (git does so first): otherwise `git rev-parse` would answer for the
checkout around it. The macOS job has its sources inside its checkout, but starts
on a new disk.

### FetchSource and AtomicFetch

Contents of a file are classes: absent, torn, an HTML page, another whole archive,
the wanted one. `archive_ok` accepts whole archives; for a name with an
unknown suffix it accepts everything (`KnownSuffix = FALSE`), which no caller
passes. All callers run under `set -e`, so a `mv` or `rm` that fails ends the script in the
middle of the call, as a kill does (`FetchKilled`). The abstract specification has the destination and the answer only.

### LlvmMingw

`root` and `temp` are sets of file groups: the tools `validate_root` looks for, the
libraries it does not look for, and the marker. `rm -rf` and `tar` work in any order
and can be cut at any point. `hasTemp` is whether this run's temporary directory is on the
disk, `tempRoot` whether `$LLVM_MINGW_TEMP_ROOT` still names it, `trap` whether the EXIT trap
is set: three things the script changes in three places. When a command fails, `Exit`
goes to the trap if there is one, and the trap removes a directory that is named and exists
(`RmTemp`, `TrapEnds`); when the process is gone, a directory it still had becomes one of
the `strays`. `cuts` counts the runs that were killed and those whose `rm -rf` failed in the trap.
Every command can fail (`CommandFails`, `FetchCommandFails`); a failing `sha256sum` is a
mismatch for the code, which removes a good archive then (`ChecksumFails`). The script sources
`fetch-source.sh`, and so does the module: `RemoveArchive` and the download are actions of
FetchSource, whose destination `dest` is the script's `$archive`.

### HostDeps

Each library has two parts, its archive and the rest (headers, pkg-config files),
installed in any order and each torn while it is written. `script` is the script whose
prefix this is: prepare-host-deps.sh wipes a prefix without `.complete` and starts over;
prepare-mingw-deps.sh looks for the six archives in the cross compiler's sysroot, which it
cannot wipe. The library versions come from the environment (`ver`) and may differ from
run to run; neither script records them.

### BareMetal

`stage` is the argument of the present invocation, `pc` its next statement. Initially `ci`
and `host` are chosen: a CI job starts on an empty disk and calls gcc, clang and package as
its steps (`NextStep`); a developer keeps the directories and calls any stage, or `all`, in
any order. `host` is the Windows build, with the native pre-pass and the table generators
that are skipped when certain files exist. `gcc` and `clang` name the invocation that
installed that part of the prefix, and an archive records both, so that archives of
different builds can be told apart; a new invocation takes a name that nothing on the disk
carries, which keeps the state finite without a bound on the number of calls. `make newlib`
is one install with a begin and an end: `gcc_build_into` removes the stamps first, and
StampBuild shows that a make from there that succeeds is complete. `Stop` is a failed command
or a kill; in `git apply` it may leave the file cut at any point (`Sources`), and in `strip`,
which writes in place, either part of the prefix (`Stripped`). A `strip` or `dedup-dir.sh` that fails by
itself is ignored by the script and taken to leave its files alone. The checks of `LLVM_MINGW_ROOT` and
of its tools are commands that may fail (`Stop` in `FindTools`). `InstallClang` includes the trial
runs of the installed clang: until they have succeeded the part counts as torn.
Assumed of the tools: a truncated source file does not compile, and an incomplete
native toolchain may or may not get the cross build through.

### ReleasePipeline

Jobs and their `needs` and `if` conditions, artifacts identified by the attempt that
uploaded them, GitHub releases per tag, Beget versions. GitHub is external and is
modelled by what the workflow uses: a job runs when all it needs succeeded; a re-run
takes all jobs, the failed ones or one of them, with their dependents; an upload of
an artifact's name replaces the one of an earlier attempt; `gh release create`
fails for a tag with a release. `aspect-publisher` is external too: a publication
takes effect in one step, and its answer can be lost. `TypeOK` says beside the types that a
platform job counts as successful only with both archives uploaded, which `if-no-files-found: error` and the
order of its last steps see to. The tags `v1.0` and `1.0`
are two releases on GitHub and one version on Beget (`normalize_version`).

## 3. Runs

`tlc -config <cfg> <module>` in this directory. All take at most a few minutes.

| Run | Module, cfg | Checks | Shows |
|---|---|---|---|
| `newlib` | MCNewlib, `MCNewlib.cfg` | TypeOK, StampSound, ExitOkSound, NoTornReads, Converges | parallel make with 1 fault, 1 masked failure, 1 source update and any number of cleans: stamps can be trusted, and make, run again, ends with a complete toolchain |
| `linux` | MCLinux, `MCLinux.cfg` | InputsNeverTorn, InstallsExclude | glibc with two multilibs, 2 faults and 1 update: retries never build with torn tools, graph and lock together serialise the installs; ASSUMEs about all other toolchains |
| `sources` | MCSourcePrep, `MCSourcePrep.cfg` | TypeOK, BuildSeesPatched, NoHalfCloneAccepted, PatchedTreesKept | the real table of components, mirrors and attempts, two revisions, unbounded faults |
| `sources_report` | MCSourcePrep, `MCSourcePrep_report.cfg` | AllPatchedPrepared | **violated**: see section 6 |
| `fetch` | FetchSource, `MCFetchSource.cfg` | FetchTypeOK, NoPartAfterReturn, MirrorsInOrder, IsAtomicFetch | the refinement and the order of the mirrors, up to 3 of them, unbounded kills |
| `llvm_mingw` | LlvmMingw, `MCLlvmMingw.cfg` | TypeOK, PrintedIsWhole, StraysOnlyFromCuts, MarkerArrivesWhole, UsesAtomicFetch, Heals | the cached compiler through kills, failed commands, wrong downloads, lost tools; failing runs leave no directories behind |
| `host_deps` | MCHostDeps, `MCHostDeps.cfg` | TypeOK, PrintedIsWhole, OnlyLastUnfinished, BuildsOnWhole | both scripts with two sets of versions: the marker makes the seven libraries safe to reuse; without it all but the last are |
| `submodules` | Submodules, `MCSubmodules.cfg` | TypeOK, AcceptedIsFetched, FetchConverges | three submodules, 2 faults: the leaky lock costs a retry, never a wrong tree |
| `reports` | MCTestReports, `MCTestReports.cfg` | TypeOK, ResultsOfInstalled, OkIsEarned | newlib and newlib-nano on two boards, three settings, 1 fault: what a successful report stands on; an ASSUME evaluates on all strings of up to six characters what the theorems of section 5 say of every string |
| `reports_asked` | MCTestReports, `MCTestReports_asked.cfg` | ReportsAsAsked | **violated**: see section 6 |
| `baremetal` | BareMetal, `MCBareMetal.cfg` | TypeOK, ArchivesAgree, ReportedIsWhole, ClangIsPatched, Rebuilds | the stages, in CI and in a developer's directories, with 2 failures or kills |
| `pipeline` | MCReleasePipeline, `MCReleasePipeline.cfg` | TypeOK, ReleasedIsOneBuild, BegetServesRelease, ReleasedWasTested | two racing runs, one of them re-run |

Bounds. Faults, masked failures and updates are counted in StampBuild because each
multiplies the states. Two faults allow a failure during the recovery from a kill
(`linux`); `newlib` has one, with a masked failure and an update beside it and liveness
on top. One update, after which stale stamps meet torn components, is what the
stamp invariant is about; the proofs in section 5 have no bound. In Submodules three
recipes are enough for two that hold different inodes and one that waits; two faults
allow a transfer that fails while another recipe is past its clone, and a kill in the
recovery. In TestReports two boards tell complete from partial results, and one
has two long extensions; one result is enough since results are excused one by
one, by lists that differ in library, base, extension and tool; the three
settings are two simulators and a selection of tests; a fault is a check or a build
that dies. In LlvmMingw three faults allow a kill, a failed command and a lost tool in any order;
they have to be finite, or nothing would ever heal. SourcePrep, FetchSource and
HostDeps need no fault bound: their state is finite. In ReleasePipeline two platforms (the
tested one and another), two tags of one version, two runs, and two attempts of the first run. Only one run is re-run: the
interference between runs is through `github` and `beget` alone, and a
first attempt of the second run already writes both. A version that
`prepare-beget-release.py` refuses is a failed deploy job, which `FailJob` covers.
In BareMetal two faults allow one that leaves a bad state and one that interrupts the
recovery from it.

The order in which the modules were written is the order of this document: the stamp
machinery first, since every toolchain depends on it.

Deadlock is checked everywhere except in `pipeline`, where all runs may be over.

## 4. Fairness and liveness

`Converges` (StampBuild): a user who keeps running make gets exit status 0 again and
again. Fair are the steps of recipes (commands end), make's exit, and the next
start of make; faults are finite. Plain retries
without `make clean` are enough only as long as no source is updated. If the install of
gcc stage 2 is killed, and newlib's source is then updated, newlib is out of date
and is rebuilt before stage 2, with a half-installed compiler under a valid stage 1
stamp; it fails, and so does every retry. `make clean` leads out of this, since
it removes the stamp of stage 1. Hence the strong fairness of `CleanAfterError`: a user
who meets errors again and again after an update or a lost copy cleans some day. Without either,
plain retries have to be enough, which the same run shows.

`Converges` also depends on `download_prerequisites` running before the stamp is
touched: it may add entries to the directory that is a prerequisite of that very
stamp.

`Heals` (LlvmMingw): weak fairness of the script, which is started again, and strong
fairness of a good download: a mirror that is asked again and again serves the
pinned archive some day, and a curl that runs comes to an end. The code gives curl a
connect timeout and retries but no limit for a stalled transfer, so the latter is an
assumption about the network.

`FetchConverges` (Submodules): commands end, make exits and is run again (weak fairness);
that a recipe fails on `config.lock` is not fair to anyone, yet a recipe that waits for a
lock gets it, and once all submodules are registered nobody writes the file.
The property names the two states that retries do not leave: `%/.git` without a working
tree, after a checkout that failed or was killed, and a `config.lock` whose owner was killed.

`Rebuilds` (BareMetal): commands end (weak fairness of the script's steps), and a developer
calls `all` again and again, whatever else he calls in between (strong fairness of that
call). The property names the two states that retries do not leave: an LLVM file cut short
by an interrupted `git apply`, which the script refuses or cannot compile, and a native
pre-pass that was killed after its stage 1 had installed gcc, since the test for the
pre-pass looks for that file alone (`build-baremetal.sh:119`). Both need a person to
remove the file or directory. CI, which starts on an empty disk, is not exposed to either.

Nothing is claimed to happen eventually in the other modules. In the pipeline it
would be wrong: if the reply to `gh release create` is lost, the release exists,
every re-run of the job fails on it, and the deployment is never reached without
someone deleting the release.

## 5. Proofs

`tlapm <module>` checks them. Assumptions about constants are named ASSUMEs; TLC
evaluates them for the instances above.

**StampBuildProofs**, for every acyclic graph and any bounds.

- `TypeCorrect`: `Spec => []TypeOK`, with the origin of every installed component.
- `StampsAreSound`: `Spec => []StampSound`. If make would skip a target and all it
  depends on, the target was made from what is installed, and the components it is the
  last to write are its own.
- `SuccessIsComplete`: `Spec => []ExitOkSound`.
- `ReadersUndisturbed`: `Spec => []NoTornReads`.
- `InstallersExclude`: `Spec => []InstallsExclude`.
- `InputsAreWhole`: `Spec => []InputsNeverTorn`.

None of these is inductive. For the first four the invariant is
`IInv == TypeOK /\ RunInv /\ StampInv /\ ExitOkSound`. `RunInv` says what a running make
knows: while a recipe of `t` runs, everything `t` depends on is done and up to date,
and a stamp that is being rebuilt is missing or stale. So two recipes that run at
the same time are never one below the other (which gives NoTornReads from
`InstallAssumption`), and when `t` installs over what others read, those above it
cannot be up to date: if they were, so would be `t`, and `t` would not run (lemmas
`RunningInvalidates`, `AncUpToDate`). `StampInv` extends StampSound to the moment between install and
touch. InstallsExclude needs one more fact, `LockInv`: at most one locked target installs.
InputsNeverTorn needs `WholeInv`: a component that some target uses is torn only as long as one of the
targets before it that write the component has still to be rebuilt, or while the
user of the component is itself up to date and will not run, as newlib is
when the install of gcc stage 2 is killed. It rests on two lemmas about
validity: without a source update, a recipe of one target outdates no other that is up to
date (`StaysUpToDate`), and only touching a stamp makes a target up to date (`BecomesUpToDate`). The assumptions: `GraphAssumption` (the
graph is acyclic, `Anc` is its closure), `InstallAssumption` (whoever uses a component
is ordered with everyone who writes it), `UsesAssumption` (what a recipe uses is written by a target before it,
not by itself) and `DownloadAssumption` (whoever shares a
source tree that a recipe downloads into depends on that recipe).
MCLinux evaluates them for every table of ToolchainGraphs. The first three hold for all. The last one fails for two:
with `--enable-host-gcc` a second recipe downloads into the gcc tree, and the native gcc,
last of its toolchain, does so unconditionally. Only the steps that add to a source tree depend
on it: make then ends with success although the stage 1 stamp is older than its source
directory, and the next make builds the compiler again.

**SourcePrepProofs**: `CISourcesPatched`, `Spec => []BuildSeesPatched` for every table of
components, number of mirrors and attempts, and any history of jobs. The invariant
`CIInv` adds that every cache entry holds trees patched with the revision of its key
(`CacheInv`), that in CI every tree before the loop index is patched with the job's
revision and every one after it is absent (`ScriptInv`: so `SkipPrepared` is never taken
there), and that the index is in the table while git runs (`InTable`); `TypeCorrect` needs
it too. `NoHalfClone` (`[]NoHalfCloneAccepted`) and `PatchedTreesSafe` (`PatchedTreesKept`) are
about a developer's directory as well. Their invariant `DirInv` says that HEAD
resolves in every tree the loop has passed, and that the tree it works on is none of
those and carries no patches: so neither `rm -rf` nor `git am` meets a patched tree.

**LlvmMingwProofs**, for any number of mirrors and faults, has the theorems about
`fetch_source` and about its caller.

- Of `fetch_source`, under any caller (`FetchSpec`): `FetchTypeCorrect`, `NothingLeftBehind` (`[]NoPartAfterReturn`), `MirrorsTriedInOrder`
  (`[]MirrorsInOrder`) and `FetchIsAtomic`, the refinement of AtomicFetch, for a destination
  with a known suffix. `FetchInv` says that a call is under way exactly when the answer is
  "busy", that what is about to be moved was checked, and that the mirrors before the present
  one are those that failed.
- `FetchStaysAtomic` is the composition: every step of the script is a step of `fetch_source`
  or leaves it alone (`CallsFetch`, `Spec => FetchSpec`), hence the refinement carries over to
  `UsesAtomicFetch`.
- `PrintedOnlyWhole`, `StraysBounded`, `MarkerLast` and `TypeCorrect` follow from `MingwInv`:
  behind the checksum the archive is the pinned one and nobody touches it (`ArchiveInv`), the
  temporary directory is complete before it is marked and marked before it is moved, to a place
  that is free (`TempInv`), and a directory that would be found installed is whole, since
  `rm -rf` starts only on one that would not (`RootInv`). `StraysBounded` needs `TrapInv`: a
  directory that exists is named, and the statement after `mktemp` sets the trap, which stays
  until `mv` has taken the directory away.

`FetchAssumption` and `MingwAssumption` give the constants their types, `KnownSuffix = TRUE` is a hypothesis of the
two refinements; the archive of llvm-mingw is a `.tar.xz`.

**HostDepsProofs**, for any lists of libraries and any versions: `PrefixIsWhole`
(`[]PrintedIsWhole`), `SysrootIsWhole` (`[]OnlyLastUnfinished`), `DependenciesWhole`
(`[]BuildsOnWhole`), `TypeCorrect`. `DepsInv` says that what a run has passed is whole and
of its versions (`RunInv`), that the marker stands only while no run is under way (`MarkerInv`), and that
in the sysroot the archive of the last library appears when the others are
whole, after which no run begins (`SysrootInv`). The last part is why the script without a marker is
nearly as safe as the one with it. `OrderAssumption`: a list names a library once, after those it
depends on; both scripts' lists satisfy it.

**SubmodulesProofs**, for any finite set of submodules and any number of faults:
`AcceptedAreFetched` (`[]AcceptedIsFetched`) and `TypeCorrect`. `RecipeInv` says that `%/.git` does not
exist before the clone begins: the rule cannot be in its first steps for a submodule that is there.
TypeOK bounds the inodes, and needs `GitInv`: every rename of `config.lock` adds a key to
`.git/config`, hence the inode's number is one more than the number of entries.

**BareMetalProofs**, for any number of faults: `ArchivesNeverDiffer`
(`[]ArchivesAgree`), `ReportsAreWhole` (`[]ReportedIsWhole`), `ClangFromPatched` (`[]ClangIsPatched`),
`TypeCorrect`. `MetalInv` says where an invocation of a stage can be (`StageInv`), what the later stages of `all`,
or the later steps of a CI job, find in the prefix (`PrefixInv`), that no
whole zip stands beside a tar.gz that is being made (`ArchiveInv`), and that the patch is in before the
compiler is built (`PatchInv`). `NewNameExists` is the lemma behind the
naming of builds: prefix and archives carry at most six names, and there are more
(`BuildsAssumption`).

**ReleasePipelineProofs**, for any runs, platforms, tags, versions and attempts:
`ReleasesAreOneBuild` (`[]ReleasedIsOneBuild`), `ReleasesAreTested` (`ReleasedWasTested`),
`BegetAgrees` (`[]BegetServesRelease`), `TypeCorrect`. That successful platform jobs have uploaded
both archives needs two facts: a job that has done its first upload has that artifact (`UploadInv`), and
jobs make progress only in a run that was started, whose attempts count from 1 (`QueueInv`). The heart of `PipelineInv` is `NeedsInv`: a
job that counts as successful, or is under way, still has all it needs successful. A re-run
keeps this because it takes the dependents along, and three rounds reach all of
them (lemma `DependentsClosed`). So an artifact can only be replaced while neither
the test of it nor the release counts as successful: a passed test is of the archive that is
there (`SmokeInv`), and while the release job counts as successful GitHub has the very archives
that the deploy job takes (`ReleaseInv`). `NoneAssumption` tells a missing release from a release.

**TestReportsProofs**, for any C libraries, boards, results, allowlists and settings.

- `ParserFollowsRule`: for every architecture string, `Exts(arch) = ReferenceExts(arch)`. The
  loop of `Arch.__init__` finds the single letters outside long extensions and the maximal long
  extensions, and nothing else. The proof has two parts. That `ExtsFrom` satisfies its own
  recursion (`ExtsFromIs`): a recursive function is a CHOOSE, so one has to exist, which is
  built from the end of the string backwards. That loop and rule agree at every
  position the loop comes to (`LoopFollowsRule`): the rule takes the same turns as the loop
  (`RuleTurns`). Both are inductions over positions, by the least
  counterexample (`LeastNumber`, from the well-foundedness of `<`), since the induction schemes of
  the library cannot be instantiated by the provers.
- `FilesFollowRule`: `WhiteListFiles = ReferenceFiles`. The fifteen patterns that
  `get_white_list_files` writes out beside `common` are all the combinations of the parts of a name.
- `TypeCorrect`, `ResultsAreOfInstalled` (`[]ResultsOfInstalled`) and `ReportsAreEarned`
  (`OkIsEarned`, with the filter and its allowlists in full) follow from `ReportsInv`. Its
  parts: checks and reports come after the builds (`MakeInv`); a running check had to run, and
  as long as the files are its own they hold what it has done, with no build since (`RunInv`); the
  directory of a tool that is being built is new (`FreshInv`); results that are gone went with a build
  that make knows it has to repeat or that made the stamp old (`GoneInv`: why a report never
  meets an empty directory); under a stamp that would be taken for new, the library's own
  results are complete, and what was built since is newer than the stamp (`OwnInv`). TLC has
  checked `ReportsInv` on the instance of the run `reports`.

`ReportsAssumption`: architectures are sequences of characters, and what stands for no unit
and for no `.sum` file is neither.

Only model-checked: liveness (`Converges`, `FetchConverges`, `Heals`, `Rebuilds`), since fairness is
out of the prover's reach, and the two properties that are violated (section 6). Every other
property that a run checks is proved.

## 6. Where the code and its words disagree

1. `sources_report`. "ALL PATCHED GNU SOURCES PREPARED" is printed over trees whose
   checkout or `git am` failed or was interrupted in an earlier run, or that carry other
   patches: a resolvable HEAD is taken for a patched tree. CI is not affected
   (`BuildSeesPatched`), since it never resumes in an old directory.
2. `reports_asked`. "make report-newlib SIM=gdb # Run with gdb simulator" (`README.md:290`).
   The stamp of a check depends neither on `SIM` nor on `RUNTESTFLAGS`. After
   `RUNTESTFLAGS=riscv.exp make report`, a plain `make report` ("This will run all tests",
   `README.md:326`) runs nothing and reports the selection's results; so does a report
   with another simulator whose stamp, if it has one, is older than that of the check.

Things the models show that no document contradicts, or that properties name as exceptions:

- `merge-newlib-nano` is stamped without having copied when `gcc --print-multi-lib` or the
  copy of `newlib.h` fails (`Makefile.in:827`, `:843`), and `LLVM_BUILD_OPENMP` likewise
  without its shared library (`Makefile.in:27`): `masked` in StampBuild.
- After a checkout that failed, `%/.git` is there and make never fetches that submodule
  again ("submodules will fetch automatically on demand", `README.md:10`): `Wedged` in
  Submodules.
- prepare-mingw-deps.sh accepts a sysroot whose ncurses, the last library, is torn or
  has no headers: `OnlyLastUnfinished` in HostDeps.
- Reports for newlib and newlib-nano read the same directory, and the one that is made
  last may be of the other library's results: `Own` in TestReports. A check of binutils that
  died is stamped (`|| true`) and reported from what it left: `broken`. With no `.sum`
  file the filter prints its usage and exits with 0: the first conjunct of `OkIsEarned`
  shows that this happens after such a dead check only.
- `report-gdb-*` compares with `test/gdb-newlib/*.log` or `test/gdb-linux/*.log`, which the
  repository does not have, and always fails (`Makefile.in:1429`).
- The sysroot lock of `make linux` is not taken by the target that installs glibc's
  headers into `$(SYSROOT)/usr`, so they may be installed while a multilib installs the same
  headers.

## 7. Not modelled

- `configure.ac`: substitution of options, no state. Patches and documents: data.
- Kernel headers make up nearly all lines of the repository (`linux-headers/include`): declarations
  imported from Linux that the Makefile copies (`LinuxHeaders` in ToolchainGraphs).
- The dhrystone checks, whose stamp files hold their own results; the glibc checks, which
  have no report; the gdb checks, whose reports always fail (section 6). `generate_target_board` formats the list of boards.
- The upstream workflows `build.yaml` and `nightly-release.yaml`; `march-to-cpu-opt`.
- The artifact checks (`check-host-runtime.sh`, `verify-multilib.sh`,
  `verify-cloudbear-fix.sh`, `test-windows-clang.ps1`): they inspect files; the pipeline
  sees whether they succeed.
- The contents of the release manifest and the validation of the deploy environment,
  reduced to their outcome in ReleasePipeline.
- What the components build. A component is whole, torn, absent or another's.

## 8. Plan

1. The nightly release workflow as a second pipeline; `march-to-cpu-opt` as a pure function
   against a reference definition.
2. Proofs: every safety property, action property and refinement that a passing run checks
   is proved. What liveness rests on could be proved without fairness: that `Wedged`, in
   Submodules, and the two states `Rebuilds` names are the only ones from which no sequence of
   retries ends well.
