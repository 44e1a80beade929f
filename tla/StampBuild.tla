----------------------------- MODULE StampBuild -----------------------------
(***************************************************************************)
(* The stamp machinery of Makefile.in.  Every component of a toolchain is  *)
(* a target stamps/build-X whose recipe is                                 *)
(*                                                                         *)
(*    [download_prerequisites]  rm -rf stamp builddir;  configure;  make;  *)
(*    make install  [under flock];  touch stamp                            *)
(*                                                                         *)
(* A parallel make decides from the stamps alone, their existence and      *)
(* their modification times, what it may skip.  Recipes of different       *)
(* targets install into one shared prefix, where some overwrite what       *)
(* others installed (gcc stage 2 over stage 1, newlib-nano's crt0.o over   *)
(* newlib's).  Any command may fail, make may be killed between any two    *)
(* commands, and the user may then run it again, update a source tree, or  *)
(* run `make clean', which removes stamps and build directories but never  *)
(* what is installed in the prefix.                                        *)
(*                                                                         *)
(* The dependency graph is a parameter: ToolchainGraphs holds the graphs   *)
(* of the toolchains the Makefile builds.                                  *)
(***************************************************************************)
EXTENDS Naturals, FiniteSets

CONSTANTS
    Targets,      \* the stamps the goal needs
    Deps,         \* Deps[t]: the stamps in t's prerequisite list
    Anc,          \* Anc[t]: the targets t depends on, directly or not
    Sources,      \* the source directories (GCC_SRCDIR, NEWLIB_SRCDIR, ...)
    Src,          \* Src[t]: the source directories in t's prerequisite list
    Reads,        \* Reads[t]: the targets whose products t's product is made from
    Components,   \* the parts of the prefix (and build directory) written
    Uses,         \* Uses[t]: the components t's commands run, link or copy
    Writes,       \* Writes[t]: the components t's install step writes
    Local,        \* the components in the build directory: `make clean' removes them
    Locked,       \* the targets that install under flock $(SYSROOT)/.lock
    Downloads,    \* the targets that run contrib/download_prerequisites
    KeepsStamp,   \* the targets whose recipe does not begin with rm -rf $@
    MaskedLoss,   \* MaskedLoss[t]: sets of components t may fail to write and still be stamped
    MaxFaults,    \* bound: command failures and kills
    MaxMasked,    \* bound: masked failures
    MaxUpdates,   \* bound: updates of a source tree
    None, Torn    \* contents of a component: never written; half written

ASSUME GraphAssumption ==
    /\ Deps  \in [Targets -> SUBSET Targets]
    /\ Anc   \in [Targets -> SUBSET Targets]
    /\ Reads \in [Targets -> SUBSET Targets]
    /\ Src   \in [Targets -> SUBSET Sources]
    /\ \A t \in Targets : /\ t \notin Anc[t]
                          /\ Anc[t] = Deps[t] \cup UNION {Anc[d] : d \in Deps[t]}
                          /\ Reads[t] \subseteq Anc[t]
    /\ \A t \in Targets : \A a \in Anc[t] :
          /\ Anc[a] \subseteq Anc[t]
          /\ \E x \in Anc[t] \cup {t} : a \in Deps[x]

ASSUME InstallAssumption ==
    /\ Writes \in [Targets -> SUBSET Components]
    /\ Uses \in [Targets -> SUBSET Components]
    /\ \A t, u \in Targets : (t # u /\ Writes[u] \cap Uses[t] # {})
                              => (u \in Anc[t] \/ t \in Anc[u])
    /\ MaskedLoss \in [Targets -> SUBSET SUBSET Components]
    /\ Local \subseteq Components
    /\ Locked \subseteq Targets
    /\ Downloads \subseteq Targets
    /\ KeepsStamp \subseteq Targets
    /\ None \notin Targets /\ Torn \notin Targets /\ None # Torn

\* What a recipe uses, some target before it installs and it does not
\* itself overwrite.
ASSUME UsesAssumption ==
    \A t \in Targets : \A c \in Uses[t] :
        /\ c \in Components \ Writes[t]
        /\ \E a \in Anc[t] : c \in Writes[a]

\* Whoever shares a source tree that t's recipe downloads into depends on t.
ASSUME DownloadAssumption ==
    \A t \in Downloads, u \in Targets :
        (u # t /\ Src[t] \cap Src[u] # {}) => t \in Anc[u]

ASSUME BoundAssumption ==
    MaxFaults \in Nat /\ MaxMasked \in Nat /\ MaxUpdates \in Nat

VARIABLES
    stamp,    \* stamp[t]: the stamp file exists                     (on disk)
    stale,    \* stale[t]: a prerequisite is newer than t's stamp    (on disk)
    content,  \* content[c]: the target that wrote c, None or Torn   (on disk)
    pc,       \* pc[t]: where make is with t
    up,       \* a make is running
    outcome,  \* exit status of the last make, if nothing happened since
    faults, masked, updates,   \* counters for the bounds
    good      \* history: t's product was made from the present products of Reads[t]

disk  == <<stamp, stale, content>>
count == <<faults, masked, updates>>
vars  == <<stamp, stale, content, pc, up, outcome, faults, masked, updates, good>>

Phase == {"todo", "clear", "build", "install", "stamp", "done", "failed"}

\* The types; and a component comes from a target whose install step writes
\* it, also where one source tree is built twice with different prefixes
\* (newlib and newlib-nano, the two stages of gcc).
TypeOK ==
    /\ stamp \in [Targets -> BOOLEAN]
    /\ stale \in [Targets -> BOOLEAN]
    /\ content \in [Components -> Targets \cup {None, Torn}]
    /\ \A c \in Components : content[c] \in Targets => c \in Writes[content[c]]
    /\ pc \in [Targets -> Phase]
    /\ up \in BOOLEAN
    /\ outcome \in {"none", "ok", "error"}
    /\ faults \in Nat /\ masked \in Nat /\ updates \in Nat
    /\ good \in [Targets -> BOOLEAN]

Init ==
    /\ stamp = [t \in Targets |-> FALSE]
    /\ stale = [t \in Targets |-> FALSE]
    /\ content = [c \in Components |-> None]
    /\ pc = [t \in Targets |-> "todo"]
    /\ up = FALSE
    /\ outcome = "none"
    /\ faults = 0 /\ masked = 0 /\ updates = 0
    /\ good = [t \in Targets |-> FALSE]

-----------------------------------------------------------------------------
(* What make looks at, and what a recipe needs.                            *)

\* make skips t: the stamp is there and no prerequisite is newer.
Valid(t) == stamp[t] /\ ~stale[t]

Running(t) == pc[t] \in {"clear", "build", "install", "stamp"}

\* make reaches t when its prerequisites are done; after an error it starts
\* nothing new (no -k) and only waits for the recipes that run.
Ready(t) ==
    /\ up
    /\ pc[t] = "todo"
    /\ \A d \in Deps[t] : pc[d] = "done"
    /\ \A u \in Targets : pc[u] # "failed"

InputsWhole(t) == \A c \in Uses[t] : content[c] \notin {None, Torn}

\* Faulty variant: no lock is taken.
LockFree_Ignored(t) == TRUE

LockFree(t) == t \in Locked => \A u \in Locked : pc[u] # "install"

\* A prerequisite of every target in S is newer than that target's stamp.
Outdate(S) == [t \in Targets |-> stale[t] \/ t \in S]

-----------------------------------------------------------------------------
(* make                                                                    *)

StartMake ==
    /\ ~up
    /\ up' = TRUE
    /\ outcome' = "none"
    /\ pc' = [t \in Targets |-> "todo"]
    /\ UNCHANGED <<disk, count, good>>

Skip(t) ==
    /\ Ready(t) /\ Valid(t)
    /\ pc' = [pc EXCEPT ![t] = "done"]
    /\ UNCHANGED <<disk, up, outcome, count, good>>

\* The first command of a gcc recipe.  The script is part of gcc: it may add
\* entries to the source directory, which makes that directory newer.
Download(t) ==
    /\ t \in Downloads /\ Ready(t) /\ ~Valid(t)
    /\ \E touched \in BOOLEAN :
          stale' = IF touched
                   THEN Outdate({u \in Targets : Src[u] \cap Src[t] # {}})
                   ELSE stale
    /\ pc' = [pc EXCEPT ![t] = "clear"]
    /\ UNCHANGED <<stamp, content, up, outcome, count, good>>

\* Faulty variant: the recipe touches its stamp first.
Clear_StampFirst(t) ==
    /\ IF t \in Downloads THEN up /\ pc[t] = "clear" ELSE Ready(t) /\ ~Valid(t)
    /\ stamp' = [stamp EXCEPT ![t] = TRUE]
    /\ stale' = [u \in Targets |-> u # t /\ (stale[u] \/ t \in Deps[u])]
    /\ pc' = [pc EXCEPT ![t] = "build"]
    /\ UNCHANGED <<content, up, outcome, count, good>>

\* Faulty variant: the rule has lost its prerequisites.
Clear_NoPrerequisites(t) ==
    /\ IF t \in Downloads THEN up /\ pc[t] = "clear" ELSE up /\ pc[t] = "todo" /\ ~Valid(t)
    /\ stamp' = [stamp EXCEPT ![t] = FALSE]
    /\ pc' = [pc EXCEPT ![t] = "build"]
    /\ UNCHANGED <<stale, content, up, outcome, count, good>>

\* rm -rf $@ $(notdir $@); mkdir $(notdir $@)
Clear(t) ==
    /\ IF t \in Downloads THEN up /\ pc[t] = "clear" ELSE Ready(t) /\ ~Valid(t)
    /\ stamp' = IF t \in KeepsStamp THEN stamp ELSE [stamp EXCEPT ![t] = FALSE]
    /\ pc' = [pc EXCEPT ![t] = "build"]
    /\ UNCHANGED <<stale, content, up, outcome, count, good>>

\* configure and make have succeeded; the install step takes its lock and
\* begins to overwrite the components.
BeginInstall(t) ==
    /\ up /\ pc[t] = "build" /\ InputsWhole(t) /\ LockFree(t)
    /\ content' = [c \in Components |-> IF c \in Writes[t] THEN Torn ELSE content[c]]
    /\ good' = [u \in Targets |-> good[u] /\ u # t /\ t \notin Reads[u]]
    /\ pc' = [pc EXCEPT ![t] = "install"]
    /\ UNCHANGED <<stamp, stale, up, outcome, count>>

\* Faulty variant: configure is given the --prefix of the other build of the
\* same source tree.
EndInstall_OtherPrefix(t) ==
    /\ up /\ pc[t] = "install"
    /\ content' = [c \in Components |->
                     IF \E u \in Targets : c \in Writes[u] /\ Src[u] = Src[t] THEN t ELSE content[c]]
    /\ good' = [good EXCEPT ![t] = \A r \in Reads[t] : good[r]]
    /\ pc' = [pc EXCEPT ![t] = "stamp"]
    /\ UNCHANGED <<stamp, stale, up, outcome, count>>

\* A component that another recipe is installing at this moment stays torn.
EndInstall(t) ==
    /\ up /\ pc[t] = "install"
    /\ content' = [c \in Components |->
                     IF /\ c \in Writes[t]
                        /\ \A u \in Targets : (u # t /\ c \in Writes[u]) => pc[u] # "install"
                     THEN t ELSE content[c]]
    /\ good' = [good EXCEPT ![t] = \A r \in Reads[t] : good[r]]
    /\ pc' = [pc EXCEPT ![t] = "stamp"]
    /\ UNCHANGED <<stamp, stale, up, outcome, count>>

\* A copy fails in a command line whose status make never sees: the recipe
\* goes on without the components in loss.  Torn inputs are hidden like that
\* only where all of the copies may be.
InstallMasked(t) ==
    /\ up /\ pc[t] = "build" /\ LockFree(t)
    /\ masked < MaxMasked
    /\ masked' = masked + 1
    /\ \E loss \in MaskedLoss[t] :
          /\ InputsWhole(t) \/ loss = Writes[t]
          /\ content' = [c \in Components |-> IF c \in Writes[t] \ loss THEN t ELSE content[c]]
    /\ good' = [u \in Targets |-> IF u = t THEN \A r \in Reads[t] : good[r]
                                  ELSE good[u] /\ t \notin Reads[u]]
    /\ pc' = [pc EXCEPT ![t] = "stamp"]
    /\ UNCHANGED <<stamp, stale, up, outcome, faults, updates>>

\* Faulty variant: the stamp is no prerequisite of anything.
Touch_AloneOnly(t) ==
    /\ up /\ pc[t] = "stamp"
    /\ stamp' = [stamp EXCEPT ![t] = TRUE]
    /\ stale' = [stale EXCEPT ![t] = FALSE]
    /\ pc' = [pc EXCEPT ![t] = "done"]
    /\ UNCHANGED <<content, up, outcome, count, good>>

\* mkdir -p $(dir $@) && touch $@: t is now newer than everything, so what
\* has t as a prerequisite is out of date.
Touch(t) ==
    /\ up /\ pc[t] = "stamp"
    /\ stamp' = [stamp EXCEPT ![t] = TRUE]
    /\ stale' = [u \in Targets |-> u # t /\ (stale[u] \/ t \in Deps[u])]
    /\ pc' = [pc EXCEPT ![t] = "done"]
    /\ UNCHANGED <<content, up, outcome, count, good>>

\* Faulty variant: the failure is ignored, as by `|| true'.
Fail_Ignored(t) ==
    /\ up /\ Running(t)
    /\ faults < MaxFaults
    /\ faults' = faults + 1
    /\ pc' = [pc EXCEPT ![t] = "done"]
    /\ UNCHANGED <<disk, up, outcome, masked, updates, good>>

\* A command of the recipe fails.
Fail(t) ==
    /\ up /\ Running(t)
    /\ faults < MaxFaults
    /\ faults' = faults + 1
    /\ pc' = [pc EXCEPT ![t] = "failed"]
    /\ UNCHANGED <<disk, up, outcome, masked, updates, good>>

\* A half-installed tool or library does not run or link.
FailOnTornInput(t) ==
    /\ up /\ pc[t] = "build" /\ ~InputsWhole(t)
    /\ pc' = [pc EXCEPT ![t] = "failed"]
    /\ UNCHANGED <<disk, up, outcome, count, good>>

ExitOk ==
    /\ up
    /\ \A t \in Targets : pc[t] = "done"
    /\ up' = FALSE
    /\ outcome' = "ok"
    /\ pc' = [t \in Targets |-> "todo"]
    /\ UNCHANGED <<disk, count, good>>

ExitError ==
    /\ up
    /\ \E t \in Targets : pc[t] = "failed"
    /\ \A t \in Targets : ~Running(t)
    /\ up' = FALSE
    /\ outcome' = "error"
    /\ pc' = [t \in Targets |-> "todo"]
    /\ UNCHANGED <<disk, count, good>>

-----------------------------------------------------------------------------
(* The environment                                                         *)

\* make and its recipes are killed; the locks they held go with them.
Kill ==
    /\ up
    /\ faults < MaxFaults
    /\ faults' = faults + 1
    /\ up' = FALSE
    /\ outcome' = "error"
    /\ pc' = [t \in Targets |-> "todo"]
    /\ UNCHANGED <<disk, masked, updates, good>>

\* Another revision is checked out in a source directory.
UpdateSource(s) ==
    /\ ~up
    /\ updates < MaxUpdates
    /\ updates' = updates + 1
    /\ stale' = Outdate({t \in Targets : s \in Src[t]})
    /\ good' = [t \in Targets |-> good[t] /\ s \notin Src[t]]
    /\ outcome' = IF outcome = "ok" THEN "none" ELSE outcome
    /\ UNCHANGED <<stamp, content, pc, up, faults, masked>>

\* Faulty variant: rm -rf build-* install-*, without the stamps.
Clean_KeepsStamps ==
    /\ ~up
    /\ outcome' = "none"
    /\ content' = [c \in Components |-> IF c \in Local THEN None ELSE content[c]]
    /\ good' = [t \in Targets |-> good[t] /\ Writes[t] \cap Local = {}]
    /\ UNCHANGED <<stamp, stale, pc, up, count>>

\* make clean: rm -rf build-* install-* stamps
Clean ==
    /\ ~up
    /\ outcome' = "none"
    /\ stamp' = [t \in Targets |-> FALSE]
    /\ stale' = [t \in Targets |-> FALSE]
    /\ content' = [c \in Components |-> IF c \in Local THEN None ELSE content[c]]
    /\ good' = [t \in Targets |-> good[t] /\ Writes[t] \cap Local = {}]
    /\ UNCHANGED <<pc, up, count>>

Recipe(t) ==
    \/ Skip(t) \/ Download(t) \/ Clear(t) \/ BeginInstall(t) \/ EndInstall(t)
    \/ Touch(t) \/ FailOnTornInput(t)

Fault(t) == Fail(t) \/ InstallMasked(t)

Next ==
    \/ StartMake \/ ExitOk \/ ExitError \/ Kill \/ Clean
    \/ \E t \in Targets : Recipe(t) \/ Fault(t)
    \/ \E s \in Sources : UpdateSource(s)

Spec == Init /\ [][Next]_vars

\* make failed, with a source tree updated or a copy lost before: plain
\* retries may then fail for ever, and the user runs `make clean'.
CleanAfterError == outcome = "error" /\ (updates > 0 \/ masked > 0) /\ Clean

\* Commands that run come to an end, make exits when nothing is left to do,
\* and the user runs it again.  He need not clean after an error, but one who
\* meets such errors again and again does so some day.
FairSpec ==
    /\ Spec
    /\ WF_vars(StartMake) /\ WF_vars(ExitOk) /\ WF_vars(ExitError)
    /\ SF_vars(CleanAfterError)
    /\ \A t \in Targets : WF_vars(Recipe(t))
-----------------------------------------------------------------------------
(* Properties                                                              *)

\* make would skip t and everything t depends on.
UpToDate(t) == Valid(t) /\ \A a \in Anc[t] : Valid(a)

\* t writes c after every other target that writes c.
LastWriter(t, c) ==
    /\ c \in Writes[t]
    /\ \A u \in Targets : (u # t /\ c \in Writes[u]) => u \in Anc[t]

\* A stamp can be trusted, whatever was killed, failed, updated or cleaned
\* before: if make would skip a target and all it depends on, then the target
\* was built from the products that are installed now, and every component it
\* is the last to write is whole and its own (unless a masked failure lost it).
StampSound ==
    \A t \in Targets : UpToDate(t) =>
        /\ good[t]
        /\ \A c \in Components :
              (LastWriter(t, c) /\ (masked = 0 \/ c \notin UNION MaskedLoss[t]))
                  => content[c] = t

\* When make exits with success everything is up to date: running it again
\* runs no recipe.
ExitOkSound == outcome = "ok" => \A t \in Targets : UpToDate(t)

\* No recipe installs over a component that a recipe running beside it uses:
\* gcc stage 2 replaces the compiler only when newlib, newlib-nano and the
\* merge no longer need stage 1's.
NoTornReads ==
    \A t, u \in Targets :
        (t # u /\ pc[t] \in {"build", "install"} /\ pc[u] = "install")
            => Writes[u] \cap Uses[t] = {}

\* Two recipes that install the same component are never at it at the same
\* time if the graph orders them or both take the sysroot lock: newlib and the
\* merge (crt0.o), the two stages of gcc, the C libraries of two multilibs.
\* (glibc's headers do neither and may meet a multilib in the sysroot.)
InstallsExclude ==
    \A t, u \in Targets :
        /\ t # u /\ Writes[t] \cap Writes[u] # {}
        /\ t \in Anc[u] \/ u \in Anc[t] \/ {t, u} \subseteq Locked
        => ~(pc[t] = "install" /\ pc[u] = "install")

\* As long as no source tree is updated and no failure masked, a recipe that
\* runs finds every component it uses whole, even after a make that was killed half way
\* through an install: what the kill tore is reinstalled first.
InputsNeverTorn ==
    (updates = 0 /\ masked = 0) =>
        \A t \in Targets : pc[t] = "build" => InputsWhole(t)

\* A user who runs make again and again gets a complete toolchain, once the
\* faults stop; after a source update a failed make may need `make clean'.
Converges == []<>(outcome = "ok")
=============================================================================
