----------------------------- MODULE SourcePrep -----------------------------
(***************************************************************************)
(* build/prepare-sources.sh: pinned GNU sources are cloned from a list of  *)
(* mirrors, checked out at their base commit and patched with `git am'.    *)
(* The script runs in a directory that may hold what an earlier run left:  *)
(* on a developer's machine always, in CI whatever actions/cache restored  *)
(* (niiet-toolchain.yaml).  A command may fail and the script may be       *)
(* killed at any point.                                                    *)
(*                                                                         *)
(* One script run is one job.  A job works on a revision of the patches;   *)
(* the cache key is a hash of the patches and of the script.               *)
(***************************************************************************)
EXTENDS Naturals, Sequences

CONSTANTS
    Names,       \* Names[i]: the COMPONENTS table, in order
    Mirrors,     \* Mirrors[n]: number of mirrors of component n
    Attempts,    \* clones tried per mirror: 3 in the script
    Revisions,   \* revisions of patch/riscv-*.patch and prepare-sources.sh
    None

Comps == {Names[i] : i \in 1 .. Len(Names)}

(* A source tree is absent; half cloned (HEAD does not resolve); cloned    *)
(* (HEAD is the mirror's branch, nothing checked out); at the base commit, *)
(* perhaps with a part of the series applied; or patched with the patches  *)
(* of a revision.                                                          *)
Trees == {"absent", "half", "cloned", "base"} \cup Revisions

ASSUME ConfigAssumption ==
    /\ Names \in Seq(Comps) /\ Len(Names) > 0
    /\ Mirrors \in [Comps -> Nat \ {0}]
    /\ Attempts \in Nat \ {0}
    /\ None \notin [Comps -> Trees]
    /\ Revisions \cap {"absent", "half", "cloned", "base"} = {}

VARIABLES
    fresh,    \* TRUE: CI jobs, each on an empty disk; FALSE: a developer's directory
    tree,     \* tree[n]: what is in $SOURCES/$name
    cache,    \* cache[r]: the trees saved under the key of revision r, or None
    rev,      \* the revision this job has checked out
    pc,       \* "off", "main", "clone", "checkout", "am", "build", "post"
    i,        \* the loop over COMPONENTS
    mirror, attempt,   \* the loops of clone_checkout
    result    \* "none", "ok" or "error": how the last run of the script ended

vars == <<fresh, tree, cache, rev, pc, i, mirror, attempt, result>>

TypeOK ==
    /\ fresh \in BOOLEAN
    /\ tree \in [Comps -> Trees]
    /\ cache \in [Revisions -> [Comps -> Trees] \cup {None}]
    /\ rev \in Revisions
    /\ pc \in {"off", "main", "clone", "checkout", "am", "build", "post"}
    /\ i \in 1 .. Len(Names) + 1
    /\ mirror \in Nat /\ attempt \in Nat
    /\ result \in {"none", "ok", "error"}

Empty == [n \in Comps |-> "absent"]

Init ==
    /\ fresh \in BOOLEAN
    /\ tree = Empty
    /\ cache = [r \in Revisions |-> None]
    /\ rev \in Revisions
    /\ pc = "off" /\ i = 1 /\ mirror = 1 /\ attempt = 1
    /\ result = "none"

name == Names[i]

\* Faulty variant: any directory will do.
HeadResolves_DirExists(n) == tree[n] # "absent"

\* Faulty variant: HEAD must be the base commit.
HeadResolves_AtBase(n) == tree[n] = "base"

\* [ -e .git ] && git rev-parse HEAD.  A clone that was cut short has a .git
\* without a commit; one cut short before git init has written .git/HEAD would
\* be searched for in the directories above, where none is assumed.
HeadResolves(n) == tree[n] \notin {"absent", "half"}

\* The script aborts (set -e): what is on the disk stays there.
Abort ==
    /\ pc' = "off"
    /\ result' = "error"

-----------------------------------------------------------------------------
(* The job                                                                 *)

\* Faulty variant: the key does not hash the patches, any entry will do.
StartJob_OneKey(r) ==
    /\ pc = "off"
    /\ rev' = r
    /\ i' = 1
    /\ \E q \in Revisions :
         LET hit == fresh /\ cache[q] # None
         IN  /\ tree' = IF hit THEN cache[q] ELSE IF fresh THEN Empty ELSE tree
             /\ pc' = IF hit THEN "build" ELSE "main"
    /\ result' = "none"
    /\ UNCHANGED <<fresh, cache, mirror, attempt>>

\* A job checks out revision r.  In CI the disk is empty, and actions/cache
\* restores the entry of the key, if there is one; the script runs only
\* without a cache hit.
StartJob(r) ==
    /\ pc = "off"
    /\ rev' = r
    /\ i' = 1
    /\ LET hit == fresh /\ cache[r] # None
       IN  /\ tree' = IF hit THEN cache[r] ELSE IF fresh THEN Empty ELSE tree
           /\ pc' = IF hit THEN "build" ELSE "main"
    /\ result' = "none"
    /\ UNCHANGED <<fresh, cache, mirror, attempt>>

(* The loop over COMPONENTS                                                *)

SkipPrepared ==
    /\ pc = "main" /\ i <= Len(Names)
    /\ HeadResolves(name)
    /\ i' = i + 1
    /\ UNCHANGED <<fresh, tree, cache, rev, pc, mirror, attempt, result>>

StartClone ==
    /\ pc = "main" /\ i <= Len(Names)
    /\ ~HeadResolves(name)
    /\ tree' = [tree EXCEPT ![name] = "absent"]
    /\ mirror' = 1 /\ attempt' = 1
    /\ pc' = "clone"
    /\ UNCHANGED <<fresh, cache, rev, i, result>>

\* ALL PATCHED GNU SOURCES PREPARED
AllPrepared ==
    /\ pc = "main" /\ i > Len(Names)
    /\ result' = "ok"
    /\ pc' = "build"
    /\ UNCHANGED <<fresh, tree, cache, rev, i, mirror, attempt>>

(* clone_checkout                                                          *)

\* The next attempt, the next mirror, or `return 1', which set -e turns into
\* the end of the script.
RetryOrGiveUp ==
    \/ /\ attempt < Attempts
       /\ attempt' = attempt + 1
       /\ pc' = "clone" /\ UNCHANGED <<mirror, result>>
    \/ /\ attempt = Attempts /\ mirror < Mirrors[name]
       /\ attempt' = 1 /\ mirror' = mirror + 1
       /\ pc' = "clone" /\ UNCHANGED result
    \/ /\ attempt = Attempts /\ mirror = Mirrors[name]
       /\ Abort /\ UNCHANGED <<attempt, mirror>>

\* rm -rf "$dir"; git clone --no-checkout
Clone ==
    /\ pc = "clone"
    /\ tree' = [tree EXCEPT ![name] = "cloned"]
    /\ pc' = "checkout"
    /\ UNCHANGED <<fresh, cache, rev, i, mirror, attempt, result>>

\* git removes the directory of a clone that fails.
CloneFails ==
    /\ pc = "clone"
    /\ tree' = [tree EXCEPT ![name] = "absent"]
    /\ RetryOrGiveUp
    /\ UNCHANGED <<fresh, cache, rev, i>>

Checkout ==
    /\ pc = "checkout"
    /\ tree' = [tree EXCEPT ![name] = "base"]
    /\ pc' = "am"
    /\ UNCHANGED <<fresh, cache, rev, i, mirror, attempt, result>>

\* The clone is treeless: the checkout fetches, and may fail, like the clone.
CheckoutFails ==
    /\ pc = "checkout"
    /\ RetryOrGiveUp
    /\ UNCHANGED <<fresh, tree, cache, rev, i>>

(* git am -3                                                               *)

\* Faulty variant: the loop index is advanced twice.
ApplyPatch_Twice ==
    /\ pc = "am"
    /\ tree' = [tree EXCEPT ![name] = rev]
    /\ i' = i + 2
    /\ pc' = "main"
    /\ UNCHANGED <<fresh, cache, rev, mirror, attempt, result>>

ApplyPatch ==
    /\ pc = "am"
    /\ tree' = [tree EXCEPT ![name] = rev]
    /\ i' = i + 1
    /\ pc' = "main"
    /\ UNCHANGED <<fresh, cache, rev, mirror, attempt, result>>

ApplyFails ==
    /\ pc = "am"
    /\ Abort
    /\ UNCHANGED <<fresh, tree, cache, rev, i, mirror, attempt>>

(* The rest of the job: the build reads the trees; the post step of        *)
(* actions/cache saves them, only if every step succeeded, and never over  *)
(* an existing entry.                                                      *)

BuildSucceeds ==
    /\ pc = "build"
    /\ pc' = "post"
    /\ UNCHANGED <<fresh, tree, cache, rev, i, mirror, attempt, result>>

BuildFails ==
    /\ pc = "build"
    /\ pc' = "off"
    /\ UNCHANGED <<fresh, tree, cache, rev, i, mirror, attempt, result>>

SaveCache ==
    /\ pc = "post"
    /\ cache' = IF fresh /\ cache[rev] = None THEN [cache EXCEPT ![rev] = tree] ELSE cache
    /\ pc' = "off"
    /\ UNCHANGED <<fresh, tree, rev, i, mirror, attempt, result>>

\* What a command that is killed may leave of the tree it works on.
Interrupted ==
    CASE pc = "clone"    -> {"absent", "half", "cloned"}
      [] pc = "checkout" -> {"cloned", "base"}
      [] pc = "am"       -> {"base", rev}

\* The runner is lost, or the user interrupts the script.
Kill ==
    /\ \/ pc = "main" /\ UNCHANGED tree
       \/ /\ pc \in {"clone", "checkout", "am"}
          /\ \E left \in Interrupted : tree' = [tree EXCEPT ![name] = left]
    /\ Abort
    /\ UNCHANGED <<fresh, cache, rev, i, mirror, attempt>>

Next ==
    \/ \E r \in Revisions : StartJob(r)
    \/ SkipPrepared \/ StartClone \/ AllPrepared
    \/ Clone \/ CloneFails \/ Checkout \/ CheckoutFails
    \/ ApplyPatch \/ ApplyFails
    \/ BuildSucceeds \/ BuildFails \/ SaveCache
    \/ Kill

Spec == Init /\ [][Next]_vars

-----------------------------------------------------------------------------
(* Properties                                                              *)

\* A CI job builds only from trees that carry the patches of the revision it
\* has checked out, whatever earlier jobs were killed or failed: the script
\* starts from an empty disk or not at all, and only a job that succeeded
\* saves its trees, under the key of its own patches.
BuildSeesPatched ==
    (fresh /\ pc \in {"build", "post"}) => \A n \in Comps : tree[n] = rev

\* When the script reports success no tree is missing or half cloned, even in
\* a directory where earlier runs were killed.
NoHalfCloneAccepted ==
    result = "ok" => \A n \in Comps : tree[n] \notin {"absent", "half"}

\* The script never removes or rewrites a tree that is patched: rm -rf is
\* reached only for a tree that `git rev-parse HEAD' rejects.
PatchedTreesKept ==
    [][~fresh => \A n \in Comps : tree[n] \in Revisions => tree'[n] = tree[n]]_vars

\* The script's own report, "ALL PATCHED GNU SOURCES PREPARED": every tree
\* carries the patches.
AllPatchedPrepared ==
    result = "ok" => \A n \in Comps : tree[n] = rev
=============================================================================
