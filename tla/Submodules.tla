----------------------------- MODULE Submodules -----------------------------
(***************************************************************************)
(* The rule of Makefile.in that fetches a submodule on demand; in short:   *)
(*                                                                         *)
(*    $(srcdir)/%/.git:                                                    *)
(*        flock GITDIR/config git submodule init % &&                      *)
(*        flock GITDIR/config git submodule update --depth 1 %             *)
(*                                                                         *)
(* A parallel make runs it for several submodules at once, and a file      *)
(* %/.git is all it looks at to see whether a submodule is there.  flock   *)
(* locks the inode it has opened, and git never writes .git/config in      *)
(* place: it creates .git/config.lock, gives up if that file exists, and   *)
(* renames it to .git/config, a new inode.  So two recipes can both hold   *)
(* `the' lock, and one of them fails on config.lock.                       *)
(*                                                                         *)
(* git is external: its steps are those the rule's two commands take.      *)
(***************************************************************************)
EXTENDS Naturals, FiniteSets

CONSTANTS
    Subs,        \* the submodules the goal needs
    MaxFaults,   \* bound: failed transfers and checkouts, interrupts, kills
    None         \* nobody

ASSUME SubsAssumption ==
    /\ IsFiniteSet(Subs) /\ MaxFaults \in Nat
    /\ None \notin Subs /\ "dead" \notin Subs /\ None # "dead"

VARIABLES
    config,    \* config[s]: what .git/config says of s                (on disk)
    inode,     \* the inode .git/config names now                      (on disk)
    lockfile,  \* who created .git/config.lock, None, or "dead"        (on disk)
    clone,     \* clone[s]: .git/modules/s: "none", "partial", "whole" (on disk)
    gitfile,   \* gitfile[s]: the file s/.git exists                   (on disk)
    tree,      \* tree[s]: s is checked out                            (on disk)
    pc,        \* pc[s]: where the recipe of s is
    fd,        \* fd[s]: the inode flock opened for s, 0 when closed
    held,      \* held: the recipes whose flock has its lock
    up,        \* a make is running
    outcome,   \* exit status of the last make
    faults, cut   \* counter; a checkout failed or something was killed

disk  == <<config, inode, lockfile, clone, gitfile, tree>>
flock == <<fd, held>>
vars  == <<disk, pc, flock, up, outcome, faults, cut>>

Keys == {"active", "url"}    \* what git submodule init registers, one write each

Steps == {"init", "inits", "update", "updates", "checkout"}

TypeOK ==
    /\ config \in [Subs -> SUBSET Keys]
    /\ inode \in 1 .. 1 + Cardinality(Subs) * Cardinality(Keys)
    /\ lockfile \in Subs \cup {None, "dead"}
    /\ clone \in [Subs -> {"none", "partial", "whole"}]
    /\ gitfile \in [Subs -> BOOLEAN] /\ tree \in [Subs -> BOOLEAN]
    /\ pc \in [Subs -> Steps \cup {"todo", "done", "failed"}]
    /\ fd \in [Subs -> 0 .. inode] /\ held \subseteq {s \in Subs : fd[s] # 0}
    /\ up \in BOOLEAN /\ outcome \in {"none", "ok", "error"}
    /\ faults \in 0 .. MaxFaults /\ cut \in BOOLEAN

Init ==
    /\ config = [s \in Subs |-> {}] /\ inode = 1 /\ lockfile = None
    /\ clone = [s \in Subs |-> "none"]
    /\ gitfile = [s \in Subs |-> FALSE] /\ tree = [s \in Subs |-> FALSE]
    /\ pc = [s \in Subs |-> "todo"]
    /\ fd = [s \in Subs |-> 0] /\ held = {}
    /\ up = FALSE /\ outcome = "none"
    /\ faults = 0 /\ cut = FALSE

Goto(s, l) == pc' = [pc EXCEPT ![s] = l]

\* Faulty variant: a process that git leaves behind inherits the lock.
Unlock_Leaks(s) == fd' = [fd EXCEPT ![s] = 0] /\ UNCHANGED held

\* The command under flock ends, and its descriptor is closed.
Unlock(s) == fd' = [fd EXCEPT ![s] = 0] /\ held' = held \ {s}

-----------------------------------------------------------------------------
(* make                                                                    *)

StartMake ==
    /\ ~up
    /\ up' = TRUE /\ outcome' = "none"
    /\ pc' = [s \in Subs |-> "todo"]
    /\ UNCHANGED <<disk, flock, faults, cut>>

NoneFailed == \A s \in Subs : pc[s] # "failed"

\* Faulty variant: the rule is for the directory %, which a checkout of the
\* repository makes, instead of %/.git.
Accept_Directory(s) ==
    /\ up /\ pc[s] = "todo" /\ NoneFailed
    /\ Goto(s, "done")
    /\ UNCHANGED <<disk, flock, up, outcome, faults, cut>>

\* The target exists.
Accept(s) ==
    /\ up /\ pc[s] = "todo" /\ NoneFailed /\ gitfile[s]
    /\ Goto(s, "done")
    /\ UNCHANGED <<disk, flock, up, outcome, faults, cut>>

Start(s) ==
    /\ up /\ pc[s] = "todo" /\ NoneFailed /\ ~gitfile[s]
    /\ Goto(s, "init")
    /\ UNCHANGED <<disk, flock, up, outcome, faults, cut>>

Exit ==
    /\ up
    /\ \/ (\A s \in Subs : pc[s] = "done") /\ outcome' = "ok"
       \/ ~NoneFailed /\ (\A s \in Subs : pc[s] \notin Steps) /\ outcome' = "error"
    /\ up' = FALSE
    /\ UNCHANGED <<disk, pc, flock, faults, cut>>

-----------------------------------------------------------------------------
(* The recipe                                                              *)

\* flock opens the file that has the name at this moment ...
Open(s) ==
    /\ pc[s] \in {"init", "update"} /\ fd[s] = 0
    /\ fd' = [fd EXCEPT ![s] = inode]
    /\ UNCHANGED <<disk, pc, held, up, outcome, faults, cut>>

\* ... and waits until no one else holds that inode.
Lock(s) ==
    /\ pc[s] \in {"init", "update"} /\ fd[s] # 0
    /\ \A t \in held : fd[t] # fd[s]
    /\ held' = held \cup {s}
    /\ Goto(s, IF pc[s] = "init" THEN "inits" ELSE "updates")
    /\ UNCHANGED <<disk, fd, up, outcome, faults, cut>>

\* git submodule init: a key that is missing is written through config.lock.
CreateLockfile(s) ==
    /\ pc[s] = "inits" /\ config[s] # Keys /\ lockfile = None
    /\ lockfile' = s
    /\ UNCHANGED <<config, inode, clone, gitfile, tree, pc, flock, up, outcome, faults, cut>>

RenameLockfile(s) ==
    /\ pc[s] = "inits" /\ lockfile = s
    /\ config' = [config EXCEPT ![s] = IF @ = {} THEN {"active"} ELSE Keys]
    /\ inode' = inode + 1
    /\ lockfile' = None
    /\ UNCHANGED <<clone, gitfile, tree, pc, flock, up, outcome, faults, cut>>

\* could not lock config file: File exists.  && ends the recipe.
Collide(s) ==
    /\ pc[s] = "inits" /\ config[s] # Keys /\ lockfile \notin {None, s}
    /\ Unlock(s) /\ Goto(s, "failed")
    /\ UNCHANGED <<disk, up, outcome, faults, cut>>

\* Faulty variant: the rule registers the submodule and does not fetch it.
InitDone_NoUpdate(s) ==
    /\ pc[s] = "inits" /\ config[s] = Keys
    /\ Unlock(s) /\ Goto(s, "done")
    /\ UNCHANGED <<disk, up, outcome, faults, cut>>

InitDone(s) ==
    /\ pc[s] = "inits" /\ config[s] = Keys
    /\ Unlock(s) /\ Goto(s, "update")
    /\ UNCHANGED <<disk, up, outcome, faults, cut>>

\* The clone writes s/.git when it begins; an earlier clone is connected again.
BeginClone(s) ==
    /\ pc[s] = "updates" /\ ~gitfile[s]
    /\ gitfile' = [gitfile EXCEPT ![s] = TRUE]
    /\ clone' = [clone EXCEPT ![s] = IF @ = "whole" THEN @ ELSE "partial"]
    /\ UNCHANGED <<config, inode, lockfile, tree, pc, flock, up, outcome, faults, cut>>

EndClone(s) ==
    /\ pc[s] = "updates" /\ gitfile[s]
    /\ clone' = [clone EXCEPT ![s] = "whole"]
    /\ Goto(s, "checkout")
    /\ UNCHANGED <<config, inode, lockfile, gitfile, tree, flock, up, outcome, faults, cut>>

Checkout(s) ==
    /\ pc[s] = "checkout"
    /\ tree' = [tree EXCEPT ![s] = TRUE]
    /\ Unlock(s) /\ Goto(s, "done")
    /\ UNCHANGED <<config, inode, lockfile, clone, gitfile, up, outcome, faults, cut>>

-----------------------------------------------------------------------------
(* Faults                                                                  *)

Fault == faults < MaxFaults /\ faults' = faults + 1

\* The transfer fails: git clone removes what it made.
CloneFails(s) ==
    /\ pc[s] = "updates" /\ clone[s] = "partial" /\ gitfile[s] /\ Fault
    /\ clone' = [clone EXCEPT ![s] = "none"]
    /\ gitfile' = [gitfile EXCEPT ![s] = FALSE]
    /\ Unlock(s) /\ Goto(s, "failed")
    /\ UNCHANGED <<config, inode, lockfile, tree, up, outcome, cut>>

\* The pinned commit cannot be fetched or checked out: s/.git stays.
CheckoutFails(s) ==
    /\ pc[s] = "checkout" /\ Fault
    /\ cut' = TRUE
    /\ Unlock(s) /\ Goto(s, "failed")
    /\ UNCHANGED <<disk, up, outcome>>

\* ^C: git removes its lock file and a clone it had begun, make the targets
\* of the recipes it interrupts.
Interrupt ==
    /\ up /\ Fault
    /\ lockfile' = IF lockfile = "dead" THEN "dead" ELSE None
    /\ clone' = [s \in Subs |-> IF clone[s] = "partial" /\ pc[s] \in Steps THEN "none" ELSE clone[s]]
    /\ gitfile' = [s \in Subs |-> gitfile[s] /\ pc[s] \notin Steps]
    /\ pc' = [s \in Subs |-> "todo"]
    /\ fd' = [s \in Subs |-> 0] /\ held' = {}
    /\ up' = FALSE /\ outcome' = "error"
    /\ UNCHANGED <<config, inode, tree, cut>>

\* SIGKILL, or the machine stops: nobody removes anything.
Kill ==
    /\ up /\ Fault
    /\ lockfile' = IF lockfile = None THEN None ELSE "dead"
    /\ cut' = TRUE
    /\ pc' = [s \in Subs |-> "todo"]
    /\ fd' = [s \in Subs |-> 0] /\ held' = {}
    /\ up' = FALSE /\ outcome' = "error"
    /\ UNCHANGED <<config, inode, clone, gitfile, tree>>

-----------------------------------------------------------------------------
Recipe(s) ==
    \/ Accept(s) \/ Start(s) \/ Open(s) \/ Lock(s)
    \/ CreateLockfile(s) \/ RenameLockfile(s) \/ Collide(s) \/ InitDone(s)
    \/ BeginClone(s) \/ EndClone(s) \/ Checkout(s)

Next ==
    \/ StartMake \/ Exit \/ Interrupt \/ Kill
    \/ \E s \in Subs : Recipe(s) \/ CloneFails(s) \/ CheckoutFails(s)

\* Commands that run come to an end, and the user runs make again.
Spec ==
    /\ Init /\ [][Next]_vars
    /\ WF_vars(StartMake) /\ WF_vars(Exit)
    /\ \A s \in Subs : WF_vars(Recipe(s))

-----------------------------------------------------------------------------
(* Properties                                                              *)

\* Recipes that get past the lock together, a transfer that fails and ^C do
\* no harm: as long as no checkout failed and nothing was killed, make accepts
\* only submodules that are checked out.
AcceptedIsFetched ==
    ~cut => \A s \in Subs :
                (pc[s] = "done" \/ (gitfile[s] /\ pc[s] \notin Steps)) => tree[s]

\* Two states that no make leaves: s/.git without a working tree, which the
\* rule takes for a submodule that is there, and a config.lock whose owner is
\* dead.
Wedged == lockfile = "dead" \/ \E s \in Subs : gitfile[s] /\ ~tree[s]

\* A parallel make that is run again and again ends with all submodules
\* checked out, although recipes may collide on config.lock, or for ever in
\* one of the two states above.
FetchConverges ==
    []<>(outcome = "ok" /\ \A s \in Subs : tree[s]) \/ <>[]Wedged
=============================================================================
