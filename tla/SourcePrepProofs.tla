-------------------------- MODULE SourcePrepProofs --------------------------
(***************************************************************************)
(* For any table of components and mirrors and any number of jobs: a CI    *)
(* job builds only from trees patched with its own revision; and in a      *)
(* developer's directory, whatever earlier runs left there, the script     *)
(* rewrites no patched tree and reports success over no half clone.        *)
(***************************************************************************)
EXTENDS SourcePrep, TLAPS

AllAt(f, r) == \A n \in Comps : f[n] = r

\* While the script runs in a CI job, a tree whose HEAD resolves, other than
\* the one it is working on, is patched; so are all the trees it has passed.
ScriptInv ==
    /\ pc \in {"main", "clone", "checkout", "am"} =>
          /\ \A n \in Comps : (n # name \/ pc = "main") => tree[n] \in {"absent", rev}
          /\ \A j \in 1 .. i - 1 : tree[Names[j]] = rev
    /\ pc \in {"clone", "checkout", "am"} => \A j \in 1 .. i - 1 : Names[j] # name

\* Every cache entry holds the trees of its key.
CacheInv == \A r \in Revisions : cache[r] # None => AllAt(cache[r], r)

\* The component being cloned or patched is one of the table.
InTable == pc \in {"clone", "checkout", "am"} => i <= Len(Names)

\* The inductive invariant, for CI jobs.
CIInv ==
    /\ i \in 1 .. Len(Names) + 1
    /\ InTable
    /\ rev \in Revisions
    /\ tree \in [Comps -> Trees]
    /\ cache \in [Revisions -> [Comps -> Trees] \cup {None}]
    /\ CacheInv
    /\ fresh => ScriptInv
    /\ BuildSeesPatched

-----------------------------------------------------------------------------

\* The first state has no job and no cache entry.
LEMMA InitCI == Init => CIInv
<1> SUFFICES ASSUME Init PROVE CIInv
  OBVIOUS
<1>1. pc = "off" /\ i = 1 /\ rev \in Revisions /\ i \in 1 .. Len(Names) + 1
  BY ConfigAssumption DEF Init
<1>2. tree \in [Comps -> Trees]
  BY DEF Init, Empty, Trees
<1>3. cache \in [Revisions -> [Comps -> Trees] \cup {None}] /\ CacheInv
  BY DEF Init, CacheInv
<1>4. ScriptInv /\ BuildSeesPatched
  BY <1>1 DEF ScriptInv, BuildSeesPatched
<1>5. QED BY <1>1, <1>2, <1>3, <1>4 DEF CIInv, InTable

\* The start of a job: an empty disk, or the trees of its own key.
LEMMA StartCI == ASSUME CIInv, NEW r \in Revisions, StartJob(r) PROVE CIInv'
<1> USE ConfigAssumption DEF CIInv, InTable
<1>1. /\ i' = 1 /\ i' \in 1 .. Len(Names) + 1 /\ rev' = r /\ rev' \in Revisions
      /\ cache' = cache /\ fresh' = fresh
  BY DEF StartJob
<1>2. tree' \in [Comps -> Trees]
  BY DEF StartJob, Empty, Trees
<1>3. CacheInv'
  BY <1>1 DEF CacheInv, AllAt
<1>4. CASE ~fresh
  BY <1>1, <1>2, <1>3, <1>4 DEF BuildSeesPatched
<1>5. CASE fresh /\ cache[r] # None
  <2>1. tree' = cache[r] /\ pc' = "build"
    BY <1>5 DEF StartJob
  <2>2. AllAt(tree', rev')
    BY <1>1, <1>5, <2>1 DEF CacheInv, AllAt
  <2>3. QED BY <1>1, <1>2, <1>3, <2>1, <2>2 DEF BuildSeesPatched, ScriptInv, AllAt
<1>6. CASE fresh /\ cache[r] = None
  <2>1. tree' = Empty /\ pc' = "main"
    BY <1>6 DEF StartJob
  <2>2. ScriptInv'
    BY <1>1, <2>1 DEF ScriptInv, Empty, name
  <2>3. QED BY <1>1, <1>2, <1>3, <2>1, <2>2 DEF BuildSeesPatched
<1>7. QED BY <1>4, <1>5, <1>6

\* The script's own steps.
LEMMA ScriptCI ==
  ASSUME CIInv,
         SkipPrepared \/ StartClone \/ AllPrepared \/ Clone \/ CloneFails
           \/ Checkout \/ CheckoutFails \/ ApplyPatch \/ ApplyFails \/ Kill
  PROVE  CIInv'
<1> USE ConfigAssumption DEF CIInv, InTable
<1>1. cache' = cache /\ rev' = rev /\ fresh' = fresh /\ CacheInv'
  BY DEF SkipPrepared, StartClone, AllPrepared, Clone, CloneFails, Checkout, CheckoutFails,
         ApplyPatch, ApplyFails, Kill, CacheInv, AllAt
<1>2. \A k \in 1 .. Len(Names) : Names[k] \in Comps
  BY DEF Comps
<1>3. i \in Nat /\ Len(Names) \in Nat
  OBVIOUS
<1>a. ASSUME pc' = "off", i' = i, tree' \in [Comps -> Trees] PROVE CIInv'
  BY <1>1, <1>a DEF ScriptInv, BuildSeesPatched
<1>4. CASE SkipPrepared
  <2>1. /\ pc' = "main" /\ pc = "main" /\ i <= Len(Names) /\ i' = i + 1 /\ tree' = tree
        /\ HeadResolves(name)
    BY <1>4 DEF SkipPrepared
  <2>2. i' \in 1 .. Len(Names) + 1
    BY <1>3, <2>1
  <2>3. fresh => ScriptInv'
    <3> SUFFICES ASSUME fresh PROVE ScriptInv'
      OBVIOUS
    <3>1. tree[name] = rev
      BY <1>2, <2>1 DEF ScriptInv, HeadResolves, name
    <3>2. \A j \in 1 .. i' - 1 : tree'[Names[j]] = rev'
      BY <1>1, <1>3, <2>1, <3>1 DEF ScriptInv, name
    <3>3. QED BY <1>1, <2>1, <3>2 DEF ScriptInv
  <2>4. QED BY <1>1, <2>1, <2>2, <2>3 DEF BuildSeesPatched
<1>5. CASE StartClone
  <2>1. /\ pc' = "clone" /\ pc = "main" /\ i <= Len(Names) /\ i' = i
        /\ tree' = [tree EXCEPT ![name] = "absent"] /\ ~HeadResolves(name)
    BY <1>5 DEF StartClone
  <2>2. name' = name /\ name \in Comps
    BY <1>2, <1>3, <2>1 DEF name
  <2>3. tree' \in [Comps -> Trees]
    BY <2>1 DEF Trees
  <2>4. fresh => ScriptInv'
    <3> SUFFICES ASSUME fresh PROVE ScriptInv'
      OBVIOUS
    <3>1. \A j \in 1 .. i - 1 : Names[j] # name
      BY <2>1 DEF ScriptInv, HeadResolves
    <3>2. \A j \in 1 .. i - 1 : tree'[Names[j]] = rev
      BY <1>2, <1>3, <2>1, <3>1 DEF ScriptInv
    <3>3. \A n \in Comps : n # name => tree'[n] \in {"absent", rev}
      BY <2>1 DEF ScriptInv
    <3>4. QED BY <1>1, <2>1, <2>2, <3>1, <3>2, <3>3 DEF ScriptInv
  <2>5. QED BY <1>1, <2>1, <2>3, <2>4 DEF BuildSeesPatched
<1>6. CASE AllPrepared
  <2>1. pc' = "build" /\ pc = "main" /\ i > Len(Names) /\ i' = i /\ tree' = tree
    BY <1>6 DEF AllPrepared
  <2>2. fresh => \A n \in Comps : tree[n] = rev
    <3> SUFFICES ASSUME fresh, NEW n \in Comps PROVE tree[n] = rev
      OBVIOUS
    <3>1. PICK k \in 1 .. Len(Names) : n = Names[k]
      BY DEF Comps
    <3>2. k \in 1 .. i - 1
      BY <1>3, <2>1
    <3>3. QED BY <2>1, <3>1, <3>2 DEF ScriptInv
  <2>3. QED BY <1>1, <2>1, <2>2 DEF BuildSeesPatched, ScriptInv
<1>7. CASE Clone \/ CloneFails \/ Checkout \/ CheckoutFails
  <2>1. /\ pc \in {"clone", "checkout"} /\ i' = i
        /\ pc' \in {"clone", "checkout", "am", "off"}
        /\ \/ tree' = tree
           \/ \E x \in {"absent", "cloned", "base"} : tree' = [tree EXCEPT ![name] = x]
    BY <1>7 DEF Clone, CloneFails, Checkout, CheckoutFails, RetryOrGiveUp, Abort
  <2>2. tree' \in [Comps -> Trees]
    BY <2>1 DEF Trees
  <2>3. fresh => ScriptInv'
    <3> SUFFICES ASSUME fresh, pc' # "off" PROVE ScriptInv'
      BY DEF ScriptInv
    <3>1. name' = name
      BY <2>1 DEF name
    <3>2. \A n \in Comps : n # name => tree'[n] = tree[n]
      BY <2>1
    <3>3. \A j \in 1 .. i - 1 : Names[j] # name /\ Names[j] \in Comps
      BY <1>2, <1>3, <2>1 DEF ScriptInv
    <3>4. QED BY <1>1, <2>1, <3>1, <3>2, <3>3 DEF ScriptInv
  <2>4. QED BY <1>1, <2>1, <2>2, <2>3 DEF BuildSeesPatched
<1>8. CASE ApplyPatch
  <2>1. /\ pc' = "main" /\ pc = "am" /\ i' = i + 1
        /\ tree' = [tree EXCEPT ![name] = rev]
    BY <1>8 DEF ApplyPatch
  <2>2. tree' \in [Comps -> Trees]
    BY <2>1 DEF Trees
  <2>a. i <= Len(Names) /\ i' \in 1 .. Len(Names) + 1
    BY <1>3, <2>1
  <2>3. fresh => ScriptInv'
    <3> SUFFICES ASSUME fresh PROVE ScriptInv'
      OBVIOUS
    <3>1. i <= Len(Names) /\ name \in Comps
      BY <1>2, <1>3, <2>a DEF name
    <3>2. \A n \in Comps : tree'[n] \in {"absent", rev}
      BY <2>1, <3>1 DEF ScriptInv
    <3>3. \A j \in 1 .. i' - 1 : tree'[Names[j]] = rev
      <4> SUFFICES ASSUME NEW j \in 1 .. i' - 1 PROVE tree'[Names[j]] = rev
        OBVIOUS
      <4>1. CASE j = i
        BY <2>1, <3>1, <4>1 DEF name
      <4>2. CASE j # i
        <5>1. j \in 1 .. i - 1 /\ Names[j] \in Comps
          BY <1>2, <1>3, <2>1, <3>1, <4>2
        <5>2. QED BY <2>1, <5>1 DEF ScriptInv
      <4>3. QED BY <4>1, <4>2
    <3>4. QED BY <1>1, <2>1, <3>1, <3>2, <3>3 DEF ScriptInv
  <2>4. QED BY <1>1, <2>1, <2>2, <2>a, <2>3 DEF BuildSeesPatched
<1>9. CASE ApplyFails \/ Kill
  <2>1. pc' = "off" /\ i' = i
    BY <1>9 DEF ApplyFails, Kill, Abort
  <2>2. tree' \in [Comps -> Trees]
    BY <1>9 DEF ApplyFails, Kill, Interrupted, Trees
  <2>3. QED BY <1>a, <2>1, <2>2
<1>10. QED BY <1>4, <1>5, <1>6, <1>7, <1>8, <1>9

\* The rest of the job: the entry saved is the trees that were built.
LEMMA JobCI == ASSUME CIInv, BuildSucceeds \/ BuildFails \/ SaveCache PROVE CIInv'
<1> USE DEF CIInv
<1>1. /\ i' = i /\ tree' = tree /\ rev' = rev /\ fresh' = fresh
      /\ pc \in {"build", "post"} /\ pc' \in {"post", "off"}
  BY DEF BuildSucceeds, BuildFails, SaveCache
<1>2. cache' \in [Revisions -> [Comps -> Trees] \cup {None}]
  BY DEF BuildSucceeds, BuildFails, SaveCache
<1>3. CacheInv'
  <2>1. CASE BuildSucceeds \/ BuildFails
    BY <2>1 DEF BuildSucceeds, BuildFails, CacheInv, AllAt
  <2>2. CASE SaveCache /\ fresh /\ cache[rev] = None
    <3>1. cache' = [cache EXCEPT ![rev] = tree] /\ AllAt(tree, rev)
      BY <1>1, <2>2 DEF SaveCache, BuildSeesPatched, AllAt
    <3>2. QED BY <3>1 DEF CacheInv, AllAt
  <2>3. CASE SaveCache /\ ~(fresh /\ cache[rev] = None)
    BY <2>3 DEF SaveCache, CacheInv, AllAt
  <2>4. QED BY <2>1, <2>2, <2>3
<1>4. QED BY <1>1, <1>2, <1>3 DEF ScriptInv, BuildSeesPatched, InTable

\* The inductive invariant holds in every reachable state.
LEMMA CIInductive == Spec => []CIInv
<1>1. Init => CIInv
  BY InitCI
<1>2. CIInv /\ [Next]_vars => CIInv'
  <2> SUFFICES ASSUME CIInv, [Next]_vars PROVE CIInv'
    OBVIOUS
  <2>1. CASE \E r \in Revisions : StartJob(r)
    BY <2>1, StartCI
  <2>2. CASE BuildSucceeds \/ BuildFails \/ SaveCache
    BY <2>2, JobCI
  <2>3. CASE SkipPrepared \/ StartClone \/ AllPrepared \/ Clone \/ CloneFails
               \/ Checkout \/ CheckoutFails \/ ApplyPatch \/ ApplyFails \/ Kill
    BY <2>3, ScriptCI
  <2>4. CASE UNCHANGED vars
    BY <2>4 DEF vars, CIInv, InTable, CacheInv, AllAt, ScriptInv, BuildSeesPatched, name
  <2>5. QED BY <2>1, <2>2, <2>3, <2>4 DEF Next
<1>3. QED BY <1>1, <1>2, PTL DEF Spec

\* A CI job builds only from trees that carry the patches of its own
\* revision, whatever happened to earlier jobs: for every table of components
\* and mirrors, and every history of jobs killed, failed, retried or served
\* from the cache.
THEOREM CISourcesPatched == Spec => []BuildSeesPatched
BY CIInductive, PTL DEF CIInv

-----------------------------------------------------------------------------
(* Any directory, also one where earlier runs were killed                  *)

\* The loops of clone_checkout and of the script stay in their bounds.
THEOREM TypeCorrect == Spec => []TypeOK
<1> USE ConfigAssumption DEF TypeOK
<1>1. Init => TypeOK
  BY DEF Init, Empty, Trees
<1>2. CIInv /\ CIInv' /\ TypeOK /\ [Next]_vars => TypeOK'
  <2> SUFFICES ASSUME CIInv, CIInv', TypeOK, [Next]_vars PROVE TypeOK'
    OBVIOUS
  <2>1. /\ tree' \in [Comps -> Trees] /\ rev' \in Revisions /\ i' \in 1 .. Len(Names) + 1
        /\ cache' \in [Revisions -> [Comps -> Trees] \cup {None}]
    BY DEF CIInv
  <2>2. fresh' = fresh
    BY DEF Next, vars, StartJob, SkipPrepared, StartClone, AllPrepared, Clone, CloneFails,
           Checkout, CheckoutFails, ApplyPatch, ApplyFails, BuildSucceeds, BuildFails,
           SaveCache, Kill
  <2>3. mirror' \in Nat /\ attempt' \in Nat
    BY DEF Next, vars, StartJob, SkipPrepared, StartClone, AllPrepared, Clone, CloneFails,
           Checkout, CheckoutFails, ApplyPatch, ApplyFails, BuildSucceeds, BuildFails,
           SaveCache, Kill, RetryOrGiveUp
  <2>4. /\ pc' \in {"off", "main", "clone", "checkout", "am", "build", "post"}
        /\ result' \in {"none", "ok", "error"}
    BY DEF Next, vars, StartJob, SkipPrepared, StartClone, AllPrepared, Clone, CloneFails,
           Checkout, CheckoutFails, ApplyPatch, ApplyFails, BuildSucceeds, BuildFails,
           SaveCache, Kill, RetryOrGiveUp, Abort
  <2>5. QED BY <2>1, <2>2, <2>3, <2>4
<1>3. QED BY <1>1, <1>2, CIInductive, PTL DEF Spec

\* HEAD resolves in every tree the loop has passed; the tree it works on is
\* none of those and carries no patches; after a reported success HEAD
\* resolves everywhere.
DirInv ==
    /\ pc \in {"main", "clone", "checkout", "am"} =>
          result # "ok" /\ \A j \in 1 .. i - 1 : HeadResolves(Names[j])
    /\ pc \in {"clone", "checkout", "am"} =>
          tree[name] \notin Revisions /\ \A j \in 1 .. i - 1 : Names[j] # name
    /\ NoHalfCloneAccepted

\* The steps of the script that do not end it.
LEMMA DirStep == CIInv /\ DirInv /\ [Next]_vars => DirInv'
<1> SUFFICES ASSUME CIInv, DirInv, [Next]_vars PROVE DirInv'
  OBVIOUS
<1> USE ConfigAssumption DEF DirInv
<1>1. /\ i \in Nat /\ i >= 1 /\ i <= Len(Names) + 1 /\ Len(Names) \in Nat
      /\ tree \in [Comps -> Trees] /\ rev \in Revisions
      /\ \A k \in 1 .. Len(Names) : Names[k] \in Comps
  BY DEF CIInv, Comps
<1>2. pc \in {"clone", "checkout", "am"} => name \in Comps
  BY <1>1 DEF CIInv, InTable, name
<1>3. CASE (\E r \in Revisions : StartJob(r)) \/ BuildSucceeds \/ BuildFails \/ SaveCache
  <2>1. CASE \E r \in Revisions : StartJob(r)
    BY <2>1 DEF StartJob, NoHalfCloneAccepted
  <2>2. CASE BuildSucceeds \/ BuildFails \/ SaveCache
    BY <2>2 DEF BuildSucceeds, BuildFails, SaveCache, NoHalfCloneAccepted
  <2>3. QED BY <1>3, <2>1, <2>2
<1>4. CASE SkipPrepared
  <2>1. /\ pc = "main" /\ pc' = "main" /\ i <= Len(Names) /\ i' = i + 1
        /\ tree' = tree /\ result' = result /\ HeadResolves(Names[i])
    BY <1>4 DEF SkipPrepared, name
  <2>2. \A j \in 1 .. i' - 1 : j \in 1 .. i - 1 \/ j = i
    BY <1>1, <2>1
  <2>3. QED BY <2>1, <2>2 DEF HeadResolves, NoHalfCloneAccepted
<1>5. CASE StartClone
  <2>1. /\ pc = "main" /\ pc' = "clone" /\ i <= Len(Names) /\ i' = i /\ ~HeadResolves(name)
        /\ tree' = [tree EXCEPT ![name] = "absent"] /\ result' = result
    BY <1>5 DEF StartClone
  <2>2. name' = name /\ name \in Comps
    BY <1>1, <2>1 DEF name
  <2>3. \A j \in 1 .. i - 1 : Names[j] # name /\ Names[j] \in Comps
    BY <1>1, <2>1
  <2>4. tree'[name] = "absent"
    BY <1>1, <2>1, <2>2
  <2>5. QED BY <1>1, <2>1, <2>2, <2>3, <2>4 DEF HeadResolves, NoHalfCloneAccepted
<1>6. CASE AllPrepared
  <2>1. pc = "main" /\ pc' = "build" /\ i > Len(Names) /\ tree' = tree
    BY <1>6 DEF AllPrepared
  <2>2. ASSUME NEW n \in Comps PROVE tree[n] \notin {"absent", "half"}
    <3>1. PICK k \in 1 .. Len(Names) : n = Names[k]
      BY DEF Comps
    <3>2. k \in 1 .. i - 1
      BY <1>1, <2>1
    <3>3. QED BY <2>1, <3>1, <3>2 DEF HeadResolves
  <2>3. QED BY <2>1, <2>2 DEF NoHalfCloneAccepted
<1>7. CASE Clone \/ CloneFails \/ Checkout \/ CheckoutFails
  <2>1. /\ pc \in {"clone", "checkout"} /\ i' = i
        /\ \/ pc' \in {"clone", "checkout", "am"} /\ result' = result
           \/ pc' = "off" /\ result' = "error"
        /\ \/ tree' = tree
           \/ \E x \in {"absent", "cloned", "base"} : tree' = [tree EXCEPT ![name] = x]
    BY <1>7 DEF Clone, CloneFails, Checkout, CheckoutFails, RetryOrGiveUp, Abort
  <2>2. name' = name /\ name \in Comps
    BY <1>2, <2>1 DEF name
  <2>3. \A n \in Comps : n # name => tree'[n] = tree[n]
    BY <1>1, <2>1
  <2>4. tree'[name] \notin Revisions
    BY <1>1, <2>1, <2>2
  <2>5. \A j \in 1 .. i - 1 : Names[j] # name /\ Names[j] \in Comps
    BY <1>1, <2>1
  <2>6. QED BY <2>1, <2>2, <2>3, <2>4, <2>5 DEF HeadResolves, NoHalfCloneAccepted
<1>8. CASE ApplyPatch
  <2>1. /\ pc = "am" /\ pc' = "main" /\ i' = i + 1 /\ result' = result
        /\ tree' = [tree EXCEPT ![name] = rev] /\ name \in Comps /\ name = Names[i]
    BY <1>2, <1>8 DEF ApplyPatch, name
  <2>2. ASSUME NEW j \in 1 .. i' - 1 PROVE HeadResolves(Names[j])'
    <3>1. CASE j = i
      BY <1>1, <2>1, <3>1 DEF HeadResolves
    <3>2. CASE j # i
      <4>1. j \in 1 .. i - 1 /\ j \in 1 .. Len(Names)
        BY <1>1, <2>1, <3>2
      <4>2. Names[j] # name /\ Names[j] \in Comps /\ HeadResolves(Names[j])
        BY <1>1, <2>1, <4>1
      <4>3. QED BY <1>1, <2>1, <4>2 DEF HeadResolves
    <3>3. QED BY <3>1, <3>2
  <2>3. QED BY <2>1, <2>2 DEF NoHalfCloneAccepted
<1>9. CASE ApplyFails \/ Kill
  BY <1>9 DEF ApplyFails, Kill, Abort, NoHalfCloneAccepted
<1>10. CASE UNCHANGED vars
  BY <1>10 DEF vars, HeadResolves, NoHalfCloneAccepted, name
<1>11. QED BY <1>3, <1>4, <1>5, <1>6, <1>7, <1>8, <1>9, <1>10 DEF Next

\* In every reachable state, of CI jobs and developers' directories alike.
LEMMA DirInductive == Spec => []DirInv
<1>1. Init => DirInv
  BY DEF Init, DirInv, NoHalfCloneAccepted
<1>2. QED BY <1>1, DirStep, CIInductive, PTL DEF Spec

\* When the script reports success no tree is missing or half cloned, for any
\* table of components, even where earlier runs were killed.
THEOREM NoHalfClone == Spec => []NoHalfCloneAccepted
BY DirInductive, PTL DEF DirInv

\* The script never removes or rewrites a patched tree of a developer.
THEOREM PatchedTreesSafe == Spec => PatchedTreesKept
<1>1. CIInv /\ DirInv /\ [Next]_vars
        => [~fresh => \A n \in Comps : tree[n] \in Revisions => tree'[n] = tree[n]]_vars
  <2> SUFFICES ASSUME CIInv, DirInv, Next, ~fresh, NEW n \in Comps, tree[n] \in Revisions
               PROVE  tree'[n] = tree[n]
    OBVIOUS
  <2>1. tree' = tree \/ \E x \in Trees : tree' = [tree EXCEPT ![name] = x]
    BY DEF Next, StartJob, SkipPrepared, StartClone, AllPrepared, Clone, CloneFails, Checkout,
           CheckoutFails, ApplyPatch, ApplyFails, BuildSucceeds, BuildFails, SaveCache, Kill,
           Interrupted, Trees, CIInv
  <2>2. CASE pc \in {"clone", "checkout", "am"}
    BY <2>1, <2>2 DEF DirInv, CIInv
  <2>3. CASE StartClone
    <3>1. tree[name] \notin Revisions
      BY <2>3, ConfigAssumption DEF StartClone, HeadResolves
    <3>2. QED BY <2>1, <3>1 DEF CIInv
  <2>4. CASE pc \notin {"clone", "checkout", "am"} /\ ~StartClone
    BY <2>4 DEF Next, StartJob, SkipPrepared, AllPrepared, Clone, CloneFails, Checkout,
           CheckoutFails, ApplyPatch, ApplyFails, BuildSucceeds, BuildFails, SaveCache, Kill
  <2>5. QED BY <2>2, <2>3, <2>4
<1>2. QED BY <1>1, CIInductive, DirInductive, PTL DEF Spec, PatchedTreesKept
=============================================================================
