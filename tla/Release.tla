------------------------------ MODULE Release -------------------------------
(***************************************************************************)
(* scripts/bump-version.py, the release protocol behind `make bump-*`, on  *)
(* a git repository whose owner goes on working, is interrupted, and runs  *)
(* it again.                                                               *)
(*                                                                         *)
(* A release writes the new version to Cargo.toml, syncs Cargo.lock,       *)
(* commits, tags, and builds at the tagged tree; a failed build deletes    *)
(* the tag and resets the commit away. Every command is a step of its own  *)
(* and may fail; a Ctrl-C between any two of them ends the script.         *)
(***************************************************************************)
EXTENDS Integers, Sequences, SequencesExt

CONSTANTS
  Parts,      \* which of major, minor, patch the owner bumps
  LockEdits,  \* whether the owner may leave Cargo.lock modified
  Concurrent, \* whether the owner works on while the script runs
  Interrupts, \* whether the script may be interrupted
  Faults,     \* the commands that may fail
  MaxRuns,    \* bound: runs of the script
  MaxEdits    \* bound: edits by the owner

ASSUME PartsAssumption == Parts \subseteq {"major", "minor", "patch"}
ASSUME ModesAssumption ==
  LockEdits \in BOOLEAN /\ Concurrent \in BOOLEAN /\ Interrupts \in BOOLEAN
ASSUME FaultsAssumption ==
  Faults \subseteq {"update", "add", "commit", "tag", "build", "untag", "reset"}
ASSUME BoundsAssumption == MaxRuns \in Nat /\ MaxEdits \in Nat

VARIABLES
  hist,      \* the branch: the content of each commit, oldest first
  tree,      \* the content of the working tree
  tags,      \* the release tags: from versions to the branch they point at
  pushed,    \* the branch and tags the remote has
  artifact,  \* the last package built: its version and RPM release
  pc,        \* the next command of the script, "idle" outside a run
  new,       \* the version being released
  verify,    \* FALSE under --no-verify
  before,    \* the repository when the run began
  staged,    \* what git add has put in the index for the release commit
  outcome,   \* how the last run ended
  told,      \* releases whose printed push instruction is not followed yet
  exposed,   \* history: the last push took the commit of a run under way
  meddled,   \* history: the owner has changed something during the run
  runs, edits

repoVars == <<hist, tree, tags>>
runVars == <<pc, new, verify, before, staged, outcome, told, runs>>
vars == <<repoVars, pushed, exposed, artifact, runVars, meddled, edits>>

\* What a commit or the tree holds: the version in Cargo.toml, the version and
\* the dependencies in Cargo.lock, and all the other tracked files.
First == [toml |-> <<0, 1, 0>>, lockv |-> <<0, 1, 0>>, deps |-> 0, source |-> 0]

HeadOf(h) == h[Len(h)]
NoTags == [v \in {} |-> <<>>]

TypeOK ==
  /\ hist # <<>>
  /\ \A i \in DOMAIN hist : DOMAIN hist[i] = DOMAIN First
  /\ \A v \in DOMAIN tags : tags[v] # <<>>
  /\ pc \in {"idle", "update", "add", "commit", "tag", "build", "untag", "reset"}
  /\ outcome \in {"none", "dry", "refused", "failed", "reverted", "killed", "ok"}
  /\ artifact.release \in
       {"none", "1", "1.dirty", "snapshot", "snapshot.dirty"}
  /\ told \subseteq DOMAIN tags /\ exposed \in BOOLEAN
  /\ runs \in 0..MaxRuns /\ edits \in 0..MaxEdits

Init ==
  /\ hist = <<First>>
  /\ tree = First
  /\ tags = NoTags
  /\ pushed = [hist |-> <<First>>, tags |-> NoTags]
  /\ artifact = [version |-> First.toml, release |-> "none"]
  /\ pc = "idle" /\ new = First.toml /\ verify = TRUE
  /\ before = [hist |-> hist, tree |-> tree, tags |-> tags]
  /\ staged = First
  /\ outcome = "none"
  /\ told = {} /\ exposed = FALSE
  /\ meddled = FALSE
  /\ runs = 0 /\ edits = 0

-----------------------------------------------------------------------------
(* The owner. *)

AtWork ==
  /\ pc = "idle" \/ Concurrent
  /\ meddled' = (meddled \/ pc # "idle")

Edit ==
  /\ AtWork /\ edits < MaxEdits
  /\ \/ tree' = [tree EXCEPT !.source = edits + 1]
     \/ LockEdits /\ tree' = [tree EXCEPT !.deps = edits + 1]
  /\ edits' = edits + 1
  /\ UNCHANGED <<hist, tags, pushed, exposed, artifact, runVars>>

\* The owner commits everything but an unfinished version bump.
Commit ==
  /\ AtWork
  /\ tree # HeadOf(hist) /\ tree.toml = HeadOf(hist).toml
  /\ hist' = Append(hist, tree)
  /\ UNCHANGED <<tree, tags, pushed, exposed, artifact, runVars, edits>>

\* The owner throws away what is not committed, such as the Cargo.toml that a
\* failed run left behind.
Restore ==
  /\ pc = "idle" /\ tree # HeadOf(hist)
  /\ tree' = HeadOf(hist)
  /\ UNCHANGED <<hist, tags, pushed, exposed, artifact, runVars, meddled, edits>>

\* A release commit that its run may still unwind is on the branch.
UnwindableCommit == pc \in {"tag", "build", "untag", "reset"}

\* git push && git push origin vTOLD, as a run that succeeded printed it: at any
\* later time, the build of a later run included. git push takes the branch as
\* it is then, and is refused unless that only adds to what the remote has.
Push ==
  /\ pc = "idle" \/ Concurrent
  /\ IsPrefix(pushed.hist, hist)
  /\ \E v \in told :
       /\ pushed' = [hist |-> hist,
                     tags |-> [w \in DOMAIN pushed.tags \union {v} |->
                                 IF w = v THEN tags[v] ELSE pushed.tags[w]]]
       /\ told' = told \ {v}
  /\ exposed' = UnwindableCommit
  /\ UNCHANGED <<repoVars, artifact, pc, new, verify, before, staged, outcome,
                 runs, meddled, edits>>

-----------------------------------------------------------------------------
(* The script. *)

Bump(v, part) ==
  CASE part = "major" -> <<v[1] + 1, 0, 0>>
    [] part = "minor" -> <<v[1], v[2] + 1, 0>>
    [] part = "patch" -> <<v[1], v[2], v[3] + 1>>

\* git status, Cargo.lock and untracked files ignored.
Clean == tree.toml = HeadOf(hist).toml /\ tree.source = HeadOf(hist).source

Begin(part, noVerify) ==
  /\ pc = "idle" /\ runs < MaxRuns
  /\ runs' = runs + 1
  /\ new' = Bump(tree.toml, part)
  /\ verify' = ~noVerify
  /\ before' = [hist |-> hist, tree |-> tree, tags |-> tags]
  /\ meddled' = FALSE

\* --dry-run, or ensure_clean_worktree or ensure_tag_available says no.
Refuse(part, noVerify) ==
  /\ Begin(part, noVerify)
  /\ \/ outcome' = "dry"
     \/ outcome' = "refused" /\ (~Clean \/ new' \in DOMAIN tags)
  /\ UNCHANGED <<repoVars, pushed, exposed, artifact, pc, staged, told, edits>>

WriteVersion(part, noVerify) ==
  /\ Begin(part, noVerify)
  /\ Clean /\ new' \notin DOMAIN tags
  /\ tree' = [tree EXCEPT !.toml = new']
  /\ pc' = "update"
  /\ UNCHANGED <<hist, tags, pushed, exposed, artifact, staged, outcome, told, edits>>

\* One command of the script succeeds and the next one is up.
Step(here, next) ==
  /\ pc = here /\ pc' = next
  /\ UNCHANGED <<new, verify, before, pushed, exposed, meddled, runs, edits>>

\* The run ends well, and says how to push it.
Succeed == outcome' = "ok" /\ told' = told \union {new}

End(how) == pc' = "idle" /\ outcome' = how

\* Faulty variant: Cargo.lock is left to the build to sync.
NoCargoUpdate ==
  /\ Step("update", "add")
  /\ UNCHANGED <<repoVars, artifact, staged, outcome, told>>

CargoUpdate ==
  /\ Step("update", "add")
  /\ tree' = [tree EXCEPT !.lockv = tree.toml]
  /\ UNCHANGED <<hist, tags, artifact, staged, outcome, told>>

GitAdd ==
  /\ Step("add", "commit")
  /\ staged' = tree
  /\ UNCHANGED <<repoVars, artifact, outcome, told>>

\* Cargo.toml and Cargo.lock are committed as staged, other files are not.
GitCommit ==
  /\ Step("commit", "tag")
  /\ hist' = Append(hist, [staged EXCEPT !.source = HeadOf(hist).source])
  /\ UNCHANGED <<tree, tags, artifact, staged, outcome, told>>

\* The tag vNEW put on the head of the branch.
Tagged == [v \in DOMAIN tags \union {new} |-> IF v = new THEN hist ELSE tags[v]]

\* Faulty variant: a tree no tag can be reached from has no release number.
ReleaseOfTagOnly ==
  IF \E v \in DOMAIN tags : tags[v] = hist
  THEN IF tree = HeadOf(hist) THEN "1" ELSE "1.dirty"
  ELSE IF tree = HeadOf(hist) THEN "" ELSE ".dirty"

\* The Makefile's RPM_RELEASE: 1 at a tagged commit, a snapshot id elsewhere,
\* .dirty appended when any tracked file is modified.
RpmRelease ==
  IF \E v \in DOMAIN tags : tags[v] = hist
  THEN IF tree = HeadOf(hist) THEN "1" ELSE "1.dirty"
  ELSE IF tree = HeadOf(hist) THEN "snapshot" ELSE "snapshot.dirty"

\* Faulty variant: the package is built first and its tree tagged then.
BuildThenTag ==
  /\ Step("tag", "idle")
  /\ tags' = Tagged
  /\ artifact' = [version |-> tree.toml, release |-> RpmRelease]
  /\ Succeed
  /\ UNCHANGED <<hist, tree, staged>>

GitTag ==
  /\ Step("tag", IF verify THEN "build" ELSE "idle")
  /\ new \notin DOMAIN tags
  /\ tags' = Tagged
  /\ IF verify THEN UNCHANGED <<outcome, told>> ELSE Succeed
  /\ UNCHANGED <<hist, tree, artifact, staged>>

MakePackage ==
  /\ Step("build", "idle")
  /\ artifact' = [version |-> tree.toml, release |-> RpmRelease]
  /\ Succeed
  /\ UNCHANGED <<repoVars, staged>>

BuildFails ==
  /\ "build" \in Faults
  /\ Step("build", "untag")
  /\ UNCHANGED <<repoVars, artifact, staged, outcome, told>>

\* Faulty variant: the tag of the version the run started from is deleted.
DeleteCurrentTag ==
  /\ Step("untag", "reset")
  /\ tags' = [v \in DOMAIN tags \ {before.tree.toml} |-> tags[v]]
  /\ UNCHANGED <<hist, tree, artifact, staged, outcome, told>>

DeleteTag ==
  /\ Step("untag", "reset")
  /\ tags' = [v \in DOMAIN tags \ {new} |-> tags[v]]
  /\ UNCHANGED <<hist, tree, artifact, staged, outcome, told>>

\* Faulty variant: the commit is dropped but the tree is kept.
ResetSoft ==
  /\ Step("reset", "idle")
  /\ Len(hist) > 1
  /\ hist' = Front(hist)
  /\ outcome' = "reverted"
  /\ UNCHANGED <<tree, tags, artifact, staged, told>>

\* Faulty variant: the branch is reset to the commit before the parent.
ResetTwo ==
  /\ Step("reset", "idle")
  /\ Len(hist) > 2
  /\ hist' = Front(Front(hist))
  /\ tree' = HeadOf(hist')
  /\ outcome' = "reverted"
  /\ UNCHANGED <<tags, artifact, staged, told>>

\* git reset --hard HEAD^: whatever the last commit is goes, and so does
\* everything in the tree that is not committed.
ResetHard ==
  /\ Step("reset", "idle")
  /\ Len(hist) > 1
  /\ hist' = Front(hist)
  /\ tree' = HeadOf(hist')
  /\ outcome' = "reverted"
  /\ UNCHANGED <<tags, artifact, staged, told>>

\* Any other command that fails ends the script where it stands.
CommandFails ==
  /\ pc \in Faults \ {"build"}
  /\ End("failed")
  /\ UNCHANGED <<repoVars, pushed, exposed, artifact, new, verify, before, staged,
                 told, meddled, runs, edits>>

\* KeyboardInterrupt is not caught, nor is anything undone.
Interrupt ==
  /\ Interrupts /\ pc # "idle"
  /\ End("killed")
  /\ UNCHANGED <<repoVars, pushed, exposed, artifact, new, verify, before, staged,
                 told, meddled, runs, edits>>

Owner == Edit \/ Commit \/ Restore \/ Push

Script ==
  \/ \E part \in Parts, noVerify \in BOOLEAN :
       Refuse(part, noVerify) \/ WriteVersion(part, noVerify)
  \/ CargoUpdate \/ GitAdd \/ GitCommit \/ GitTag
  \/ MakePackage \/ BuildFails \/ DeleteTag \/ ResetHard
  \/ CommandFails \/ Interrupt

Next == Owner \/ Script

Spec == Init /\ [][Next]_vars

-----------------------------------------------------------------------------

\* A tag names a commit that carries its version in Cargo.toml and Cargo.lock,
\* after any sequence of failed, interrupted, reverted and repeated runs.
TagsAreReleases ==
  \A v \in DOMAIN tags :
    HeadOf(tags[v]).toml = v /\ HeadOf(tags[v]).lockv = v

\* A release tag is deleted by its own run or stays where it was put.
TagsNeverMove ==
  [][\A v \in DOMAIN tags :
       \/ v \in DOMAIN tags' /\ tags'[v] = tags[v]
       \/ v \notin DOMAIN tags' /\ v = new /\ pc = "untag"]_vars

\* A pushed tag stays, and so does every pushed commit but one: the newest of a
\* branch that was pushed, as an earlier run had said, between the commit of the
\* run under way and its end. No other run reaches into what was pushed.
PushedStays ==
  /\ \A v \in DOMAIN pushed.tags :
       v \in DOMAIN tags /\ tags[v] = pushed.tags[v]
  /\ \/ IsPrefix(pushed.hist, hist)
     \/ exposed /\ IsPrefix(Front(pushed.hist), hist)

\* Unless the owner meddles, a verified release is built from its own tagged
\* commit and nothing else, so its package is release 1 of that version.
VerifiedIsClean ==
  [][pc # "idle" /\ pc' = "idle" /\ outcome' = "ok" /\ verify /\ ~meddled =>
       /\ new \in DOMAIN tags' /\ tags'[new] = hist'
       /\ artifact' = [version |-> new, release |-> "1"]]_vars

\* The last command of a revert.
Reverts == pc = "reset" /\ pc' = "idle" /\ outcome' = "reverted"
Restored == [hist |-> hist', tree |-> tree', tags |-> tags'] = before

\* The script's promise for a failed build: the repository is exactly what it
\* was before the run.
RevertRestores ==
  [][Reverts /\ ~meddled => Restored]_vars

\* The promise is kept if Cargo.lock was not modified when the run began: no
\* trace of the release is left, however earlier runs failed.
CleanRevertRestores ==
  [][Reverts /\ ~meddled /\ before.tree = HeadOf(before.hist) => Restored]_vars

=============================================================================
