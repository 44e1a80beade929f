------------------------------ MODULE MCNewlib ------------------------------
(* The stamp machinery on the bare-metal graph, gdb included. *)
EXTENDS StampBuild, ToolchainGraphs

RunRules == NewlibRules

RunTargets    == DOMAIN RunRules
RunDeps       == DepsOf(RunRules)
RunAnc        == AncOf(RunRules)
RunSources    == SourcesOf(RunRules)
RunSrc        == SrcOf(RunRules)
RunReads      == ReadsOf(RunRules)
RunComponents == ComponentsOf(RunRules)
RunWrites     == WritesOf(RunRules)
RunUses       == UsesOf(RunRules)
RunLocal      == LocalOf(RunRules)
RunLocked     == With(RunRules, "locks")
RunDownloads  == With(RunRules, "downloads")
RunKeepsStamp == With(RunRules, "keeps")
RunMaskedLoss == MaskedLossOf(RunRules)
=============================================================================
