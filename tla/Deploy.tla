------------------------------- MODULE Deploy -------------------------------
(***************************************************************************)
(* scripts/deploy.sh, started by the bot's /deploy or by hand: both        *)
(* repositories are brought to origin/main, built, and only then restarted *)
(* together; the revision of the last successful deploy is kept in a file  *)
(* per repository.                                                         *)
(*                                                                         *)
(* A deploy is a process of its own that may fail or be killed after every *)
(* command.  A process of production that falls over meanwhile is started  *)
(* by pm2 from what lies on the disk.                                      *)
(***************************************************************************)
EXTENDS Naturals

CONSTANTS
  Runs,      \* invocations of the script
  Forced,    \* those with --force
  None,      \* no revision: the state file is missing
  Nobody,    \* the lock is free
  MaxRev,    \* bound: commits on main of a repository
  MaxCrashes \* bound: crashes of production and kills of the script

DeployAssumption ==
  /\ Forced \subseteq Runs /\ Nobody \notin Runs
  /\ MaxRev \in Nat /\ MaxCrashes \in Nat /\ None \notin Nat

Repos == {"server", "client"}
Revs  == 0..MaxRev

VARIABLES
  main,      \* origin/main of each repository
  checkout,  \* HEAD of the production directory
  built,     \* revision of the build on the disk, None when a build broke it
  running,   \* revision that runs
  deployed,  \* $STATE_DIR/<name>.rev
  run,       \* run[d]: the next command of invocation d
  changed,   \* changed[d]: repositories in state "changed"
  flock,     \* who holds the lock
  crashes,
  (* history *)
  fresh,     \* fresh[d]: origin/main as d fetched it, per repository
  torn       \* repositories that a failed forced build broke, until a restart
             \* after a build that succeeds

vars == <<main, checkout, built, running, deployed, run, changed, flock, crashes, fresh, torn>>

Steps == ({"update", "build", "mark"} \X Repos)
           \cup ({"new", "decide", "restart", "same", "done", "failed"} \X {"all"})
At(d, step, r) == run[d] = <<step, r>>
Go(d, step, r) == run' = [run EXCEPT ![d] = <<step, r>>]
Exit(d, how)   == Go(d, how, "all") /\ flock' = Nobody

TypeOK ==
  /\ main \in [Repos -> Revs] /\ checkout \in [Repos -> Revs]
  /\ built \in [Repos -> Revs \cup {None}] /\ running \in [Repos -> Revs \cup {None}]
  /\ deployed \in [Repos -> Revs \cup {None}]
  /\ run \in [Runs -> Steps] /\ changed \in [Runs -> SUBSET Repos]
  /\ flock \in Runs \cup {Nobody}
  /\ crashes \in 0..MaxCrashes
  /\ fresh \in [Runs -> [Repos -> Revs]] /\ torn \subseteq Repos

Init ==
  /\ main = [r \in Repos |-> 0] /\ checkout = main /\ built = main /\ running = main
  /\ deployed = [r \in Repos |-> None]
  /\ run = [d \in Runs |-> <<"new", "all">>]
  /\ changed = [d \in Runs |-> {}]
  /\ flock = Nobody /\ crashes = 0
  /\ fresh = [d \in Runs |-> main] /\ torn = {}

\* A commit is merged into main of r.
Merge(r) ==
  /\ main[r] < MaxRev
  /\ main' = [main EXCEPT ![r] = @ + 1]
  /\ UNCHANGED <<checkout, built, running, deployed, run, changed, flock, crashes, fresh, torn>>

\* startDeploy spawns the script; flock -n lets one in and turns others away.
Start(d) ==
  /\ At(d, "new", "all")
  /\ IF flock = Nobody THEN flock' = d /\ Go(d, "update", "server")
     ELSE Go(d, "failed", "all") /\ UNCHANGED flock
  /\ UNCHANGED <<main, checkout, built, running, deployed, changed, crashes, fresh, torn>>

\* Mutant: a comparison with what was checked out before the pull.
UpdateRepoByHead(d, r) ==
  /\ At(d, "update", r)
  /\ checkout' = [checkout EXCEPT ![r] = main[r]]
  /\ fresh' = [fresh EXCEPT ![d][r] = main[r]]
  /\ changed' = IF main[r] = checkout[r] /\ d \notin Forced THEN changed
                ELSE [changed EXCEPT ![d] = @ \cup {r}]
  /\ IF r = "server" THEN Go(d, "update", "client") ELSE Go(d, "decide", "all")
  /\ UNCHANGED <<main, built, running, deployed, flock, crashes, torn>>

\* update_repo: fetch, reset --hard, and a comparison with the revision of
\* the last successful deploy.
UpdateRepo(d, r) ==
  /\ At(d, "update", r)
  /\ checkout' = [checkout EXCEPT ![r] = main[r]]
  /\ fresh' = [fresh EXCEPT ![d][r] = main[r]]
  /\ changed' = IF main[r] = deployed[r] /\ d \notin Forced THEN changed
                ELSE [changed EXCEPT ![d] = @ \cup {r}]
  /\ IF r = "server" THEN Go(d, "update", "client") ELSE Go(d, "decide", "all")
  /\ UNCHANGED <<main, built, running, deployed, flock, crashes, torn>>

\* Two unchanged repositories end the deploy: "nothing to do".
Decide(d) ==
  /\ At(d, "decide", "all")
  /\ IF changed[d] = {} THEN Exit(d, "same") ELSE Go(d, "build", "server") /\ UNCHANGED flock
  /\ UNCHANGED <<main, checkout, built, running, deployed, changed, crashes, fresh, torn>>

AfterBuild(d, r) ==
  IF r = "server" THEN Go(d, "build", "client") ELSE Go(d, "restart", "all")

\* build_repo of a changed repository; npm run build empties dist first, so
\* a build that fails leaves nothing that runs.
BuildRepo(d, r) ==
  /\ At(d, "build", r)
  /\ \/ /\ r \in changed[d]
        /\ built' = [built EXCEPT ![r] = checkout[r]]
        /\ AfterBuild(d, r) /\ UNCHANGED <<flock, torn>>
     \/ /\ r \in changed[d]
        /\ built' = [built EXCEPT ![r] = None] /\ Exit(d, "failed")
        /\ torn' = IF d \in Forced THEN torn \cup {r} ELSE torn
     \/ /\ r \notin changed[d]
        /\ AfterBuild(d, r) /\ UNCHANGED <<built, flock, torn>>
  /\ UNCHANGED <<main, checkout, running, deployed, changed, crashes, fresh>>

\* pm2 restart all: both parts run what is built.
Restart(d) ==
  /\ At(d, "restart", "all")
  /\ running' = built /\ Go(d, "mark", "server")
  /\ torn' = {r \in torn : built[r] = None}
  /\ UNCHANGED <<main, checkout, built, deployed, changed, flock, crashes, fresh>>

\* mark_deployed writes HEAD of a changed repository to its state file.
MarkDeployed(d, r) ==
  /\ At(d, "mark", r)
  /\ deployed' = IF r \in changed[d] THEN [deployed EXCEPT ![r] = checkout[r]] ELSE deployed
  /\ IF r = "server" THEN Go(d, "mark", "client") /\ UNCHANGED flock ELSE Exit(d, "done")
  /\ UNCHANGED <<main, checkout, built, running, changed, crashes, fresh, torn>>

\* fail() after a command of git, npm or pm2 that did not succeed.
Fail(d) ==
  /\ run[d][1] \in {"update", "build", "restart"}
  /\ Exit(d, "failed")
  /\ UNCHANGED <<main, checkout, built, running, deployed, changed, crashes, fresh, torn>>

\* The script is killed; the lock goes with its descriptor.
Kill(d) ==
  /\ flock = d /\ crashes < MaxCrashes
  /\ crashes' = crashes + 1 /\ Exit(d, "failed")
  /\ UNCHANGED <<main, checkout, built, running, deployed, changed, fresh, torn>>

\* A part of production falls over and is started from the disk.
Crash(r) ==
  /\ crashes < MaxCrashes
  /\ crashes' = crashes + 1
  /\ running' = [running EXCEPT ![r] = built[r]]
  /\ UNCHANGED <<main, checkout, built, deployed, run, changed, flock, fresh, torn>>

Next ==
  \/ \E r \in Repos : Merge(r) \/ Crash(r)
  \/ \E d \in Runs : Start(d) \/ Decide(d) \/ Restart(d) \/ Fail(d) \/ Kill(d)
  \/ \E d \in Runs, r \in Repos : UpdateRepo(d, r) \/ BuildRepo(d, r) \/ MarkDeployed(d, r)

Spec == Init /\ [][Next]_vars

-----------------------------------------------------------------------------
\* A deploy that ends with "nothing to do" is right: both parts run what
\* main held when it looked, and what is built is that too.  A build that
\* failed, a script that was killed and a crash in between must not make a
\* stale part look up to date.  The exception is a forced build that failed:
\* the state file says its revision is deployed already, also when a later
\* build succeeds and its deploy ends before the restart.
NothingToDo ==
  [][\A d \in Runs : At(d, "decide", "all") /\ run'[d][1] = "same" =>
       \A r \in Repos \ torn : running[r] = fresh[d][r] /\ built[r] = fresh[d][r]]_vars

\* pm2 restart all starts two parts that are both built from what is
\* checked out, never one new part beside one that was not rebuilt; the
\* exception is the same.
RestartsWhole ==
  [][\A d \in Runs : At(d, "restart", "all") /\ run'[d][1] = "mark" =>
       \A r \in Repos \ torn' : running'[r] = checkout[r]]_vars
=============================================================================
