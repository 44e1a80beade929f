-------------------------- MODULE SubmodulesProofs --------------------------
(***************************************************************************)
(* For any set of submodules and any number of faults: git never rewrites  *)
(* .git/config more than once per key, and make accepts only submodules    *)
(* that are checked out unless a checkout failed or something was killed.  *)
(***************************************************************************)
EXTENDS Submodules, FiniteSetTheorems, TLAPS

\* The keys .git/config holds.
Entries == {e \in Subs \X Keys : e[2] \in config[e[1]]}

\* The keys of a submodule are written one after the other, each by one
\* rename, hence one new inode; config.lock belongs to a recipe in its init
\* that still has one to write; a flock that holds its lock has the file open.
GitInv ==
    /\ config \in [Subs -> {{}, {"active"}, Keys}]
    /\ inode = 1 + Cardinality(Entries)
    /\ lockfile \in Subs \cup {None, "dead"}
    /\ \A s \in Subs : lockfile = s => pc[s] = "inits" /\ config[s] # Keys
    /\ fd \in [Subs -> 0 .. inode] /\ held \subseteq {s \in Subs : fd[s] # 0}

\* No recipe runs without make, and s/.git appears only when the clone begins.
RecipeInv ==
    /\ pc \in [Subs -> Steps \cup {"todo", "done", "failed"}]
    /\ ~up => \A s \in Subs : pc[s] \notin Steps
    /\ \A s \in Subs : pc[s] \in {"init", "inits", "update"} => ~gitfile[s]

\* Types of what is left.
RestType ==
    /\ clone \in [Subs -> {"none", "partial", "whole"}]
    /\ gitfile \in [Subs -> BOOLEAN] /\ tree \in [Subs -> BOOLEAN]
    /\ up \in BOOLEAN /\ outcome \in {"none", "ok", "error"}
    /\ faults \in 0 .. MaxFaults /\ cut \in BOOLEAN

\* The inductive invariant.
SubsInv == RestType /\ RecipeInv /\ GitInv /\ AcceptedIsFetched

-----------------------------------------------------------------------------

\* There are two keys.
LEMMA KeysFinite == IsFiniteSet(Keys)
<1>1. IsFiniteSet({"active"})
  BY FS_Singleton
<1>2. IsFiniteSet({"active"} \cup {"url"})
  BY <1>1, FS_AddElement
<1>3. Keys = {"active"} \cup {"url"}
  BY DEF Keys
<1>4. QED BY <1>2, <1>3

\* The entries are finitely many.
LEMMA EntriesFinite ==
  /\ IsFiniteSet(Entries) /\ Cardinality(Entries) \in Nat
  /\ Cardinality(Entries) <= Cardinality(Subs) * Cardinality(Keys)
<1>1. IsFiniteSet(Keys)
  BY KeysFinite
<1>2. /\ IsFiniteSet(Subs \X Keys)
      /\ Cardinality(Subs \X Keys) = Cardinality(Subs) * Cardinality(Keys)
  BY <1>1, FS_Product, SubsAssumption
<1>3. Entries \in SUBSET (Subs \X Keys)
  BY DEF Entries
<1>4. IsFiniteSet(Entries) /\ Cardinality(Entries) <= Cardinality(Subs \X Keys)
  BY <1>2, <1>3, FS_Subset
<1>5. QED BY <1>2, <1>4, FS_CardinalityType

\* A fresh clone of the repository.
LEMMA InitSubs == Init => SubsInv
<1> SUFFICES ASSUME Init PROVE SubsInv
  OBVIOUS
<1>1. gitfile \in [Subs -> BOOLEAN] /\ tree \in [Subs -> BOOLEAN] /\ up \in BOOLEAN /\ cut \in BOOLEAN
  BY Zenon DEF Init
<1>2. RestType
  BY <1>1, SubsAssumption DEF Init, RestType
<1>3. RecipeInv
  BY DEF Init, RecipeInv, Steps
<1>4. Entries = {}
  BY DEF Init, Entries
<1>5. Cardinality(Entries) = 0
  BY <1>4, FS_EmptySet
<1>6. GitInv
  BY <1>5, SubsAssumption DEF Init, GitInv
<1>7. AcceptedIsFetched
  BY DEF Init, AcceptedIsFetched
<1>8. QED BY <1>2, <1>3, <1>6, <1>7 DEF SubsInv

\* Every step keeps the types.
LEMMA RestStep == RestType /\ [Next]_vars => RestType'
<1> SUFFICES ASSUME RestType, [Next]_vars PROVE RestType'
  OBVIOUS
<1> USE DEF RestType, disk, flock
<1>1. CASE StartMake \/ Exit
  BY <1>1 DEF StartMake, Exit
<1>2. CASE Interrupt \/ Kill
  <2>1. faults' \in 0 .. MaxFaults
    BY <1>2, SubsAssumption DEF Interrupt, Kill, Fault
  <2>2. gitfile' \in [Subs -> BOOLEAN] /\ tree' \in [Subs -> BOOLEAN] /\ up' \in BOOLEAN /\ cut' \in BOOLEAN
    BY <1>2, Zenon DEF Interrupt, Kill
  <2>3. clone' \in [Subs -> {"none", "partial", "whole"}] /\ outcome' = "error"
    BY <1>2 DEF Interrupt, Kill
  <2>4. QED BY <2>1, <2>2, <2>3
<1>3. ASSUME NEW s \in Subs, Recipe(s) PROVE RestType'
  BY <1>3 DEF Recipe, Accept, Start, Open, Lock, CreateLockfile, RenameLockfile, Collide, InitDone,
              BeginClone, EndClone, Checkout
<1>4. ASSUME NEW s \in Subs, CloneFails(s) \/ CheckoutFails(s) PROVE RestType'
  <2>1. faults' \in 0 .. MaxFaults
    BY <1>4, SubsAssumption DEF CloneFails, CheckoutFails, Fault
  <2>2. /\ cut' \in BOOLEAN /\ tree' = tree /\ up' = up /\ outcome' = outcome
        /\ gitfile' \in [Subs -> BOOLEAN] /\ clone' \in [Subs -> {"none", "partial", "whole"}]
    BY <1>4 DEF CloneFails, CheckoutFails
  <2>3. QED BY <2>1, <2>2
<1>5. CASE UNCHANGED vars
  BY <1>5 DEF vars
<1>6. QED BY <1>1, <1>2, <1>3, <1>4, <1>5 DEF Next

\* Control: each recipe is where its own last step put it.
LEMMA RecipeStep == RestType /\ RecipeInv /\ [Next]_vars => RecipeInv'
<1> SUFFICES ASSUME RestType, RecipeInv, [Next]_vars PROVE RecipeInv'
  OBVIOUS
<1> USE DEF RestType, RecipeInv, disk, flock, Steps
<1>1. CASE StartMake \/ Interrupt \/ Kill
  <2>1. pc' = [s \in Subs |-> "todo"]
    BY <1>1 DEF StartMake, Interrupt, Kill
  <2>2. QED BY <2>1
<1>2. CASE Exit
  BY <1>2 DEF Exit
<1>3. ASSUME NEW s \in Subs, Recipe(s) PROVE RecipeInv'
  <2>1. up
    BY <1>3 DEF Recipe, Accept, Start, Open, Lock, CreateLockfile, RenameLockfile, Collide,
                InitDone, BeginClone, EndClone, Checkout
  <2>2. up' = up
    BY <1>3 DEF Recipe, Accept, Start, Open, Lock, CreateLockfile, RenameLockfile, Collide,
                InitDone, BeginClone, EndClone, Checkout
  <2>3. CASE Accept(s) \/ Start(s) \/ Open(s) \/ Lock(s) \/ CreateLockfile(s) \/ RenameLockfile(s)
    BY <2>1, <2>2, <2>3 DEF Accept, Start, Open, Lock, CreateLockfile, RenameLockfile, Goto
  <2>4. CASE Collide(s) \/ InitDone(s) \/ BeginClone(s) \/ EndClone(s) \/ Checkout(s)
    BY <2>1, <2>2, <2>4 DEF Collide, InitDone, BeginClone, EndClone, Checkout, Goto
  <2>5. QED BY <1>3, <2>3, <2>4 DEF Recipe
<1>4. ASSUME NEW s \in Subs, CloneFails(s) \/ CheckoutFails(s) PROVE RecipeInv'
  <2>1. up /\ up' = up /\ pc' = [pc EXCEPT ![s] = "failed"]
    BY <1>4 DEF CloneFails, CheckoutFails, Goto
  <2>2. gitfile' = gitfile \/ gitfile' = [gitfile EXCEPT ![s] = FALSE]
    BY <1>4 DEF CloneFails, CheckoutFails
  <2>3. QED BY <2>1, <2>2
<1>5. CASE UNCHANGED vars
  BY <1>5 DEF vars
<1>6. QED BY <1>1, <1>2, <1>3, <1>4, <1>5 DEF Next

\* git and flock: a rename adds one key and makes one inode.
LEMMA GitStep == RecipeInv /\ GitInv /\ [Next]_vars => GitInv'
<1> SUFFICES ASSUME RecipeInv, GitInv, [Next]_vars PROVE GitInv'
  OBVIOUS
<1> USE DEF disk, flock
<1>0. inode \in Nat /\ inode >= 1
  BY EntriesFinite DEF GitInv
<1>a. ASSUME UNCHANGED <<config, inode>> PROVE inode' = 1 + Cardinality(Entries')
  <2>1. Entries' = Entries
    BY <1>a DEF Entries
  <2>2. QED BY <1>a, <2>1 DEF GitInv
<1>1. CASE StartMake
  <2>1. \A s \in Subs : lockfile # s
    BY <1>1 DEF StartMake, GitInv, RecipeInv, Steps
  <2>2. QED BY <1>1, <1>a, <2>1 DEF StartMake, GitInv
<1>2. CASE Exit
  BY <1>2, <1>a DEF Exit, GitInv
<1>3. CASE Interrupt \/ Kill
  <2>1. /\ UNCHANGED <<config, inode>> /\ lockfile' \in {None, "dead"}
        /\ fd' = [s \in Subs |-> 0] /\ held' = {}
    BY <1>3 DEF Interrupt, Kill
  <2>2. fd' \in [Subs -> 0 .. inode]
    BY <1>0, <2>1
  <2>3. QED BY <1>a, <2>1, <2>2, SubsAssumption DEF GitInv
<1>4. ASSUME NEW s \in Subs, Recipe(s) PROVE GitInv'
  <2>1. CASE Accept(s) \/ Start(s)
    <3>1. pc[s] = "todo" /\ UNCHANGED <<config, inode, lockfile, fd, held>>
          /\ \E l \in {"done", "init"} : pc' = [pc EXCEPT ![s] = l]
      BY <2>1 DEF Accept, Start, Goto
    <3>2. \A t \in Subs : lockfile = t => t # s
      BY <3>1 DEF GitInv
    <3>3. QED BY <1>a, <3>1, <3>2 DEF GitInv, RecipeInv
  <2>2. CASE Open(s)
    <3>1. UNCHANGED <<config, inode, lockfile, pc, held>> /\ fd' = [fd EXCEPT ![s] = inode]
      BY <2>2 DEF Open
    <3>2. fd' \in [Subs -> 0 .. inode] /\ held' \subseteq {t \in Subs : fd'[t] # 0}
      BY <1>0, <3>1 DEF GitInv
    <3>3. QED BY <1>a, <3>1, <3>2 DEF GitInv
  <2>3. CASE Lock(s)
    <3>1. /\ UNCHANGED <<config, inode, lockfile, fd>> /\ held' = held \cup {s} /\ fd[s] # 0
          /\ pc[s] # "inits" /\ \E l \in {"inits", "updates"} : pc' = [pc EXCEPT ![s] = l]
      BY <2>3 DEF Lock, Goto
    <3>2. \A t \in Subs : lockfile = t => t # s
      BY <3>1 DEF GitInv
    <3>3. held' \subseteq {t \in Subs : fd'[t] # 0}
      BY <3>1 DEF GitInv
    <3>4. QED BY <1>a, <3>1, <3>2, <3>3 DEF GitInv, RecipeInv
  <2>4. CASE CreateLockfile(s)
    BY <1>a, <2>4 DEF CreateLockfile, GitInv
  <2>5. CASE RenameLockfile(s)
    <3>1. /\ UNCHANGED <<pc, fd, held>> /\ lockfile' = None /\ inode' = inode + 1 /\ lockfile = s
          /\ config' = [config EXCEPT ![s] = IF config[s] = {} THEN {"active"} ELSE Keys]
      BY <2>5 DEF RenameLockfile
    <3>2. config[s] # Keys /\ config[s] \in {{}, {"active"}, Keys}
      BY <3>1 DEF GitInv
    <3>3. \E key \in Keys : Entries' = Entries \cup {<<s, key>>} /\ <<s, key>> \notin Entries
      <4>1. CASE config[s] = {}
        <5>1. config' = [config EXCEPT ![s] = {"active"}]
          BY <3>1, <4>1
        <5>2. /\ \A e \in Subs \X Keys : e[2] \in config'[e[1]]
                      <=> (e[2] \in config[e[1]] \/ e = <<s, "active">>)
              /\ <<s, "active">> \in Subs \X Keys /\ <<s, "active">> \notin Entries
          BY <4>1, <5>1 DEF GitInv, Keys, Entries
        <5>3. Entries' = Entries \cup {<<s, "active">>}
          BY <5>2 DEF Entries
        <5>4. QED BY <5>2, <5>3 DEF Keys
      <4>2. CASE config[s] = {"active"}
        <5>1. config' = [config EXCEPT ![s] = Keys]
          BY <3>1, <4>2
        <5>2. /\ \A e \in Subs \X Keys : e[2] \in config'[e[1]]
                      <=> (e[2] \in config[e[1]] \/ e = <<s, "url">>)
              /\ <<s, "url">> \in Subs \X Keys /\ <<s, "url">> \notin Entries
          BY <4>2, <5>1 DEF GitInv, Keys, Entries
        <5>3. Entries' = Entries \cup {<<s, "url">>}
          BY <5>2 DEF Entries
        <5>4. QED BY <5>2, <5>3 DEF Keys
      <4>3. QED BY <3>2, <4>1, <4>2
    <3>4. Cardinality(Entries') = Cardinality(Entries) + 1
      BY <3>3, FS_AddElement, EntriesFinite
    <3>5. inode' = 1 + Cardinality(Entries')
      BY <3>1, <3>4, EntriesFinite DEF GitInv
    <3>6. config' \in [Subs -> {{}, {"active"}, Keys}]
      BY <3>1 DEF GitInv
    <3>7. fd' \in [Subs -> 0 .. inode']
      BY <1>0, <3>1 DEF GitInv
    <3>8. QED BY <3>1, <3>5, <3>6, <3>7, SubsAssumption DEF GitInv
  <2>6. CASE Collide(s) \/ InitDone(s) \/ Checkout(s)
    <3>1. /\ UNCHANGED <<config, inode, lockfile>> /\ fd' = [fd EXCEPT ![s] = 0]
          /\ held' = held \ {s} /\ \E l \in {"failed", "update", "done"} : pc' = [pc EXCEPT ![s] = l]
      BY <2>6 DEF Collide, InitDone, Checkout, Unlock, Goto
    <3>2. lockfile # s
      BY <2>6 DEF Collide, InitDone, Checkout, GitInv
    <3>3. fd' \in [Subs -> 0 .. inode] /\ held' \subseteq {t \in Subs : fd'[t] # 0}
      BY <1>0, <3>1 DEF GitInv
    <3>4. \A t \in Subs : lockfile = t => pc'[t] = pc[t]
      BY <3>1, <3>2 DEF RecipeInv
    <3>5. QED BY <1>a, <3>1, <3>3, <3>4 DEF GitInv
  <2>7. CASE BeginClone(s) \/ EndClone(s)
    <3>1. /\ UNCHANGED <<config, inode, lockfile, fd, held>> /\ pc[s] = "updates"
          /\ (pc' = pc \/ pc' = [pc EXCEPT ![s] = "checkout"])
      BY <2>7 DEF BeginClone, EndClone, Goto
    <3>2. \A t \in Subs : lockfile = t => pc'[t] = pc[t]
      BY <3>1 DEF RecipeInv, GitInv
    <3>3. QED BY <1>a, <3>1, <3>2 DEF GitInv
  <2>8. QED BY <1>4, <2>1, <2>2, <2>3, <2>4, <2>5, <2>6, <2>7 DEF Recipe
<1>5. ASSUME NEW s \in Subs, CloneFails(s) \/ CheckoutFails(s) PROVE GitInv'
  <2>1. /\ UNCHANGED <<config, inode, lockfile>> /\ fd' = [fd EXCEPT ![s] = 0]
        /\ held' = held \ {s} /\ pc' = [pc EXCEPT ![s] = "failed"] /\ pc[s] # "inits"
    BY <1>5 DEF CloneFails, CheckoutFails, Unlock, Goto
  <2>2. fd' \in [Subs -> 0 .. inode] /\ held' \subseteq {t \in Subs : fd'[t] # 0}
    BY <1>0, <2>1 DEF GitInv
  <2>3. \A t \in Subs : lockfile = t => pc'[t] = pc[t]
    BY <2>1 DEF RecipeInv, GitInv
  <2>4. QED BY <1>a, <2>1, <2>2, <2>3 DEF GitInv
<1>6. CASE UNCHANGED vars
  BY <1>6, <1>a DEF vars, GitInv
<1>7. QED BY <1>1, <1>2, <1>3, <1>4, <1>5, <1>6 DEF Next

\* Nothing but a failed checkout or a kill leaves s/.git without a tree.
LEMMA AcceptStep == RestType /\ RecipeInv /\ AcceptedIsFetched /\ [Next]_vars => AcceptedIsFetched'
<1> SUFFICES ASSUME RestType, RecipeInv, AcceptedIsFetched, [Next]_vars, ~cut'
             PROVE  \A s \in Subs :
                       (pc'[s] = "done" \/ (gitfile'[s] /\ pc'[s] \notin Steps)) => tree'[s]
  BY DEF AcceptedIsFetched
<1> USE DEF disk, flock, RestType, RecipeInv
<1>0. ~cut
  BY DEF Next, Recipe, Accept, Start, Open, Lock, CreateLockfile, RenameLockfile, Collide, InitDone,
         BeginClone, EndClone, Checkout, CloneFails, CheckoutFails, StartMake, Exit, Interrupt, Kill,
         vars
<1>1. \A s \in Subs : (pc[s] = "done" \/ (gitfile[s] /\ pc[s] \notin Steps)) => tree[s]
  BY <1>0 DEF AcceptedIsFetched
<1>2. CASE StartMake \/ Exit
  BY <1>1, <1>2 DEF StartMake, Exit
<1>3. CASE Interrupt
  <2>1. tree' = tree /\ \A s \in Subs : pc'[s] = "todo" /\ (gitfile'[s] => gitfile[s] /\ pc[s] \notin Steps)
    BY <1>3 DEF Interrupt
  <2>2. QED BY <1>1, <2>1
<1>4. CASE Kill
  BY <1>4 DEF Kill
<1>5. ASSUME NEW s \in Subs, Recipe(s) \/ CloneFails(s) \/ CheckoutFails(s),
             NEW t \in Subs, pc'[t] = "done" \/ (gitfile'[t] /\ pc'[t] \notin Steps)
      PROVE  tree'[t]
  <2>1. CASE t # s
    <3>1. pc'[t] = pc[t] /\ gitfile'[t] = gitfile[t] /\ tree'[t] = tree[t]
      BY <1>5, <2>1 DEF Recipe, Accept, Start, Open, Lock, CreateLockfile, RenameLockfile, Collide,
           InitDone, BeginClone, EndClone, Checkout, CloneFails, CheckoutFails, Goto
    <3>2. QED BY <1>1, <1>5, <3>1
  <2>2. CASE t = s
    <3>1. CASE Accept(s)
      BY <1>1, <2>2, <3>1 DEF Accept, Goto, Steps
    <3>2. CASE Checkout(s)
      BY <2>2, <3>2 DEF Checkout
    <3>3. CASE Collide(s)
      BY <1>5, <2>2, <3>3 DEF Collide, Goto
    <3>4. CASE CloneFails(s)
      BY <1>5, <2>2, <3>4 DEF CloneFails, Goto
    <3>5. CASE CheckoutFails(s)
      BY <3>5 DEF CheckoutFails
    <3>6. CASE Start(s) \/ Open(s) \/ Lock(s) \/ CreateLockfile(s) \/ RenameLockfile(s)
                 \/ InitDone(s) \/ BeginClone(s) \/ EndClone(s)
      <4>1. pc'[s] \in Steps
        BY <3>6 DEF Start, Open, Lock, CreateLockfile, RenameLockfile, InitDone, BeginClone,
                    EndClone, Goto, Steps
      <4>2. QED BY <1>5, <2>2, <4>1 DEF Steps
    <3>7. QED BY <1>5, <3>1, <3>2, <3>3, <3>4, <3>5, <3>6 DEF Recipe
  <2>3. QED BY <2>1, <2>2
<1>6. CASE UNCHANGED vars
  BY <1>1, <1>6 DEF vars
<1>7. QED BY <1>2, <1>3, <1>4, <1>5, <1>6 DEF Next

\* The inductive invariant holds in every reachable state.
LEMMA SubsInductive == Spec => []SubsInv
<1>1. SubsInv /\ [Next]_vars => SubsInv'
  BY RestStep, RecipeStep, GitStep, AcceptStep DEF SubsInv
<1>2. QED BY InitSubs, <1>1, PTL DEF Spec

\* .git/config is replaced at most once for every key of every submodule, and
\* only a recipe that has the file open holds its lock.
THEOREM TypeCorrect == Spec => []TypeOK
<1>1. SubsInv => TypeOK
  <2> SUFFICES ASSUME SubsInv PROVE TypeOK
    OBVIOUS
  <2>1. inode \in 1 .. 1 + Cardinality(Subs) * Cardinality(Keys)
    <3>1. Cardinality(Subs) * Cardinality(Keys) \in Nat
      <4>1. Cardinality(Subs) \in Nat /\ Cardinality(Keys) \in Nat
        BY FS_CardinalityType, KeysFinite, SubsAssumption
      <4>2. QED BY <4>1
    <3>2. QED BY <3>1, EntriesFinite DEF SubsInv, GitInv
  <2>2. config \in [Subs -> SUBSET Keys]
    BY DEF SubsInv, GitInv, Keys
  <2>3. QED BY <2>1, <2>2 DEF SubsInv, GitInv, RecipeInv, RestType, TypeOK
<1>2. QED BY SubsInductive, <1>1, PTL

\* However many recipes get past the lock together, fail in a transfer or are
\* interrupted, make accepts only submodules that are checked out.
THEOREM AcceptedAreFetched == Spec => []AcceptedIsFetched
BY SubsInductive, PTL DEF SubsInv
=============================================================================
