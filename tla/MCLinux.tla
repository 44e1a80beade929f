------------------------------ MODULE MCLinux -------------------------------
(* The stamp machinery on the glibc graph with two multilibs, the least    *)
(* number for which the lock matters; and the assumptions of the theorems  *)
(* of StampBuildProofs for every other toolchain the Makefile builds.      *)
EXTENDS StampBuild, ToolchainGraphs

RunRules == LinuxRules({"glibc-ml1", "glibc-ml2"})

RunTargets    == DOMAIN RunRules
RunDeps       == DepsOf(RunRules)
RunAnc        == AncOf(RunRules)
RunSources    == SourcesOf(RunRules)
RunSrc        == SrcOf(RunRules)
RunReads      == ReadsOf(RunRules)
RunComponents == ComponentsOf(RunRules)
RunWrites     == WritesOf(RunRules)
RunUses       == UsesOf(RunRules)
RunLocal      == LocalOf(RunRules)
RunLocked     == With(RunRules, "locks")
RunDownloads  == With(RunRules, "downloads")
RunKeepsStamp == With(RunRules, "keeps")
RunMaskedLoss == MaskedLossOf(RunRules)

-----------------------------------------------------------------------------
On(R) == INSTANCE StampBuild WITH
    Targets <- DOMAIN R, Deps <- DepsOf(R), Anc <- AncOf(R), Sources <- SourcesOf(R),
    Src <- SrcOf(R), Reads <- ReadsOf(R), Components <- ComponentsOf(R),
    Uses <- UsesOf(R), Writes <- WritesOf(R), Local <- LocalOf(R),
    Locked <- With(R, "locks"), Downloads <- With(R, "downloads"),
    KeepsStamp <- With(R, "keeps"), MaskedLoss <- MaskedLossOf(R)

\* The graphs are acyclic, whoever uses a component is ordered with everyone
\* who writes it, and comes after one of them.
ASSUME GraphsOrdered ==
    \A R \in {NewlibRules, SimRules, HostGccRules, LinuxLlvmRules, NativeRules,
              MuslRules, UclibcRules} :
        On(R)!GraphAssumption /\ On(R)!InstallAssumption /\ On(R)!UsesAssumption

\* In all but two of them nobody downloads into a source directory under a
\* stamp that was already made from it.
ASSUME DownloadsFirst ==
    \A R \in {NewlibRules, SimRules, LinuxLlvmRules, MuslRules, UclibcRules} :
        On(R)!DownloadAssumption

\* gcc for RISC-V itself is the last target of its toolchain and downloads
\* unconditionally; with --enable-host-gcc two recipes download.
ASSUME DownloadsLate ==
    \A R \in {HostGccRules, NativeRules} : ~On(R)!DownloadAssumption
=============================================================================
