---------------------------- MODULE ReleaseProofs ----------------------------
(***************************************************************************)
(* Proofs about Release, for every number of runs and edits, every set of  *)
(* commands that fail and parts that are bumped, with or without an owner  *)
(* who works on while the script runs.                                     *)
(***************************************************************************)
EXTENDS Release, SequenceTheorems, TLAPS

Version == Nat \X Nat \X Nat
Content == [toml : Version, lockv : Version, deps : Nat, source : Nat]

\* Types.
RepoTypes ==
  /\ hist \in Seq(Content) /\ hist # <<>>
  /\ tree \in Content /\ staged \in Content
  /\ new \in Version
  /\ edits \in 0..MaxEdits
  /\ \A v \in DOMAIN tags : tags[v] \in Seq(Content) /\ tags[v] # <<>>
  /\ tags = [v \in DOMAIN tags |-> tags[v]]
  /\ pushed.hist \in Seq(Content) /\ pushed.hist # <<>>

RunTypes ==
  /\ pc \in {"idle", "update", "add", "commit", "tag", "build", "untag", "reset"}
  /\ outcome \in {"none", "dry", "refused", "failed", "reverted", "killed", "ok"}
  /\ artifact.release \in
       {"none", "1", "1.dirty", "snapshot", "snapshot.dirty"}
  /\ runs \in 0..MaxRuns
  /\ meddled \in BOOLEAN /\ exposed \in BOOLEAN

\* What the version in each place is while the script has not committed, and
\* that the commit it then makes carries the new one. Until then the owner
\* cannot commit: the tree is an unfinished bump.
LastCommit == HeadOf(hist)

BumpUnderWay ==
  /\ pc \in {"update", "add", "commit"} => tree.toml = new /\ LastCommit.toml # new
  /\ pc \in {"add", "commit"} => tree.lockv = new
  /\ pc = "commit" => staged.toml = new /\ staged.lockv = new
  /\ pc = "tag" => /\ tree.toml = new /\ tree.lockv = new
                   /\ LastCommit.toml = new /\ LastCommit.lockv = new
  /\ pc \in {"build", "untag"} => new \in DOMAIN tags

\* A run is told of, and its tag pushed, only after it ended well. What it may
\* unwind is one commit, and that has not been pushed unless the last push came
\* while the run was under way.
NotPushed ==
  /\ told \subseteq DOMAIN tags
  /\ pc \in {"build", "untag", "reset"} => new \notin told \union DOMAIN pushed.tags
  /\ UnwindableCommit => /\ Len(pushed.hist) <= Len(hist)
                         /\ ~exposed => Len(pushed.hist) < Len(hist)

IInv == RepoTypes /\ RunTypes /\ BumpUnderWay /\ NotPushed /\ TagsAreReleases /\ PushedStays

USE BoundsAssumption, PartsAssumption, ModesAssumption

\* The last commit of a branch, and what appending and dropping one does.
LEMMA HeadAppend ==
  ASSUME NEW h \in Seq(Content), NEW c \in Content
  PROVE  /\ Append(h, c) \in Seq(Content) /\ Append(h, c) # <<>>
         /\ HeadOf(Append(h, c)) = c
         /\ Len(Append(h, c)) = Len(h) + 1
         /\ Front(Append(h, c)) = h
<1>1. /\ Append(h, c) \in Seq(Content) /\ Append(h, c) # <<>>
      /\ HeadOf(Append(h, c)) = c
      /\ Len(Append(h, c)) = Len(h) + 1
  BY DEF HeadOf
<1>2. /\ Front(Append(h, c)) \in Seq(Content)
      /\ Len(Front(Append(h, c))) = Len(h)
      /\ \A i \in 1..Len(Front(Append(h, c))) : Front(Append(h, c))[i] = h[i]
  BY DEF Front
<1>3. Front(Append(h, c)) = h
  BY <1>2, SeqEqual
<1> QED
  BY <1>1, <1>3

\* The newest commit of a branch is a content.
LEMMA HeadContent ==
  ASSUME NEW h \in Seq(Content), h # <<>>
  PROVE  HeadOf(h) \in Content
BY DEF HeadOf

\* A branch without its newest commit has the same older commits.
LEMMA FrontCommits ==
  ASSUME NEW h \in Seq(Content), h # <<>>
  PROVE  /\ Front(h) \in Seq(Content)
         /\ Len(Front(h)) = Len(h) - 1
         /\ \A i \in 1..(Len(h) - 1) : Front(h)[i] = h[i]
<1>1. PICK n \in Nat : n = Len(h) /\ n > 0
  OBVIOUS
<1>2. Front(h) \in Seq(Content) /\ Len(Front(h)) = Len(h) - 1
  BY <1>1 DEF Front
<1>3. \A i \in 1..(Len(h) - 1) : Front(h)[i] = h[i]
  BY <1>1 DEF Front
<1> QED
  BY <1>2, <1>3

\* If there were several, it is a branch still.
LEMMA FrontBranch ==
  ASSUME NEW h \in Seq(Content), Len(h) > 1
  PROVE  Front(h) \in Seq(Content) /\ Front(h) # <<>>
<1>1. Front(h) \in Seq(Content) /\ Len(Front(h)) = Len(h) - 1
  BY FrontCommits
<1> QED
  BY <1>1

\* A branch is a prefix of another if they agree as far as the shorter goes.
LEMMA PrefixElements ==
  ASSUME NEW s \in Seq(Content), NEW t \in Seq(Content)
  PROVE  IsPrefix(s, t) <=> Len(s) <= Len(t) /\ \A i \in 1..Len(s) : s[i] = t[i]
<1>1. CASE Len(s) <= Len(t)
  <2>1. SubSeq(s, 1, Len(s)) = s
    OBVIOUS
  <2> QED
    BY <1>1, <2>1 DEF IsPrefix
<1>2. CASE ~(Len(s) <= Len(t))
  BY <1>2 DEF IsPrefix
<1> QED
  BY <1>1, <1>2

\* A branch is a prefix of itself.
LEMMA PrefixSelf == ASSUME NEW s \in Seq(Content) PROVE IsPrefix(s, s)
<1>1. Len(s) <= Len(s)
  OBVIOUS
<1> QED
  BY <1>1 DEF IsPrefix

\* A prefix of a branch is one of the branch with a commit more.
LEMMA PrefixAppend ==
  ASSUME NEW s \in Seq(Content), NEW t \in Seq(Content), NEW c \in Content,
         IsPrefix(s, t)
  PROVE  IsPrefix(s, Append(t, c)) /\ Len(s) < Len(Append(t, c))
<1>1. Len(s) <= Len(t) /\ \A i \in 1..Len(s) : s[i] = t[i]
  BY PrefixElements
<1>2. /\ Len(s) < Len(Append(t, c)) /\ Len(s) <= Len(Append(t, c))
      /\ \A i \in 1..Len(s) : s[i] = Append(t, c)[i]
  BY <1>1
<1>3. Append(t, c) \in Seq(Content)
  BY HeadAppend
<1> QED
  BY <1>2, <1>3, PrefixElements

\* A shorter prefix of a branch is one of the branch with a commit less.
LEMMA PrefixFront ==
  ASSUME NEW s \in Seq(Content), NEW t \in Seq(Content), Len(t) > 1,
         IsPrefix(s, t), Len(s) < Len(t)
  PROVE  IsPrefix(s, Front(t))
<1>1. Len(s) <= Len(t) /\ \A i \in 1..Len(s) : s[i] = t[i]
  BY PrefixElements
<1>2. t # <<>>
  OBVIOUS
<1>3. Len(s) <= Len(Front(t)) /\ \A i \in 1..Len(s) : s[i] = Front(t)[i]
  BY <1>1, <1>2, FrontCommits
<1> QED
  BY <1>2, <1>3, PrefixElements, FrontCommits

\* A prefix of a branch is one of the branch without its newest commit, once its
\* own newest commit is left out.
LEMMA BothFronts ==
  ASSUME NEW s \in Seq(Content), NEW t \in Seq(Content), s # <<>>, Len(t) > 1,
         IsPrefix(s, t)
  PROVE  IsPrefix(Front(s), Front(t))
<1>1. Len(s) <= Len(t) /\ \A i \in 1..Len(s) : s[i] = t[i]
  BY PrefixElements
<1>2. t # <<>>
  OBVIOUS
<1>3. /\ Len(Front(s)) <= Len(Front(t))
      /\ \A i \in 1..Len(Front(s)) : Front(s)[i] = Front(t)[i]
  <2>1. PICK m \in Nat, n \in Nat : m = Len(s) /\ n = Len(t)
    OBVIOUS
  <2>2. /\ Len(Front(s)) = m - 1 /\ \A i \in 1..(m - 1) : Front(s)[i] = s[i]
        /\ Len(Front(t)) = n - 1 /\ \A i \in 1..(n - 1) : Front(t)[i] = t[i]
    BY <1>2, <2>1, FrontCommits
  <2>3. m <= n /\ \A i \in 1..m : s[i] = t[i]
    BY <1>1, <2>1
  <2> QED
    BY <2>2, <2>3
<1> QED
  BY <1>2, <1>3, PrefixElements, FrontCommits

\* What PushedStays says of the branch: all of it is there, or after an exposing
\* push all but its newest commit.
Kept(p, h, e) == IsPrefix(p, h) \/ (e /\ IsPrefix(Front(p), h))

\* It goes on being so when a commit is made,
LEMMA KeptByCommit ==
  ASSUME NEW p \in Seq(Content), NEW h \in Seq(Content), NEW e \in BOOLEAN,
         NEW c \in Content, p # <<>>, Kept(p, h, e)
  PROVE  /\ Kept(p, Append(h, c), e)
         /\ Len(p) <= Len(Append(h, c))
         /\ ~e => Len(p) < Len(Append(h, c))
<1>1. CASE IsPrefix(p, h)
  <2>1. IsPrefix(p, Append(h, c)) /\ Len(p) < Len(Append(h, c))
    BY <1>1, PrefixAppend
  <2>2. Append(h, c) \in Seq(Content)
    BY HeadAppend
  <2> QED
    BY <2>1, <2>2 DEF Kept
<1>2. CASE e /\ IsPrefix(Front(p), h)
  <2>1. Front(p) \in Seq(Content) /\ Len(Front(p)) = Len(p) - 1
    BY FrontCommits
  <2>2. IsPrefix(Front(p), Append(h, c)) /\ Len(Front(p)) < Len(Append(h, c))
    BY <1>2, <2>1, PrefixAppend
  <2>3. Append(h, c) \in Seq(Content)
    BY HeadAppend
  <2> QED
    BY <1>2, <2>1, <2>2, <2>3 DEF Kept
<1> QED
  BY <1>1, <1>2 DEF Kept

\* and when one is taken back that was not pushed or whose push was an exposing
\* one.
LEMMA KeptByReset ==
  ASSUME NEW p \in Seq(Content), NEW h \in Seq(Content), NEW e \in BOOLEAN,
         p # <<>>, Len(h) > 1, Kept(p, h, e),
         Len(p) <= Len(h), ~e => Len(p) < Len(h)
  PROVE  Kept(p, Front(h), e)
<1>1. CASE IsPrefix(p, h) /\ Len(p) < Len(h)
  BY <1>1, PrefixFront DEF Kept
<1>2. CASE e /\ IsPrefix(p, h)
  BY <1>2, BothFronts DEF Kept
<1>3. CASE e /\ IsPrefix(Front(p), h)
  <2>1. Front(p) \in Seq(Content) /\ Len(Front(p)) < Len(h)
    BY FrontCommits
  <2> QED
    BY <1>3, <2>1, PrefixFront DEF Kept
<1> QED
  BY <1>1, <1>2, <1>3 DEF Kept

\* A bump is a version, and never the one it starts from.
LEMMA BumpChanges ==
  ASSUME NEW v \in Version, NEW part \in Parts
  PROVE  Bump(v, part) \in Version /\ Bump(v, part) # v
<1>1. v = <<v[1], v[2], v[3]>> /\ v[1] \in Nat /\ v[2] \in Nat /\ v[3] \in Nat
  BY DEF Version
<1>2. CASE part = "major"
  BY <1>1, <1>2 DEF Bump, Version
<1>3. CASE part = "minor"
  BY <1>1, <1>3 DEF Bump, Version
<1>4. CASE part = "patch"
  BY <1>1, <1>4 DEF Bump, Version
<1> QED
  BY <1>2, <1>3, <1>4

-----------------------------------------------------------------------------

\* The invariant holds before the first run.
LEMMA InitEstablishes == Init => IInv
<1> SUFFICES ASSUME Init PROVE IInv
  OBVIOUS
<1>1. First \in Content
  BY DEF First, Content, Version
<1>2. ASSUME NEW c \in Content
      PROVE  <<c>> \in Seq(Content) /\ <<c>> # <<>> /\ IsPrefix(<<c>>, <<c>>)
  <2>1. <<c>> = Append(<<>>, c) /\ <<>> \in Seq(Content)
    OBVIOUS
  <2>2. <<c>> \in Seq(Content) /\ <<c>> # <<>>
    BY <2>1, HeadAppend
  <2> QED
    BY <2>2, PrefixSelf
<1>3. RepoTypes
  <2>1. new \in Version
    BY <1>1 DEF Init, Content
  <2>2. tags = [v \in {} |-> <<>>]
    BY DEF Init, NoTags
  <2>3. edits \in 0..MaxEdits
    BY DEF Init
  <2> QED
    BY <1>1, <1>2, <2>1, <2>2, <2>3 DEF Init, RepoTypes
<1>4. RunTypes
  <2>1. pc = "idle" /\ outcome = "none" /\ artifact.release = "none"
    BY DEF Init
  <2>2. runs \in 0..MaxRuns
    BY DEF Init
  <2>3. meddled \in BOOLEAN /\ exposed \in BOOLEAN
    BY DEF Init
  <2> QED
    BY <2>1, <2>2, <2>3 DEF RunTypes
<1>5. BumpUnderWay /\ NotPushed
  BY DEF Init, BumpUnderWay, NotPushed, UnwindableCommit
<1>6. TagsAreReleases
  BY DEF Init, TagsAreReleases, NoTags
<1>7. PushedStays
  BY <1>1, <1>2 DEF Init, PushedStays, NoTags
<1> QED
  BY <1>3, <1>4, <1>5, <1>6, <1>7 DEF IInv

\* An edit changes no version.
LEMMA EditKeeps == ASSUME IInv, Edit PROVE IInv'
<1>1. /\ tree' \in Content /\ tree'.toml = tree.toml /\ tree'.lockv = tree.lockv
      /\ edits' \in 0..MaxEdits
  <2>1. edits \in 0..MaxEdits /\ edits + 1 \in Nat /\ tree \in Content
    BY DEF IInv, RepoTypes
  <2>2. edits' \in 0..MaxEdits
    BY <2>1 DEF Edit
  <2>3. CASE tree' = [tree EXCEPT !.source = edits + 1]
    BY <2>1, <2>2, <2>3 DEF Content
  <2>4. CASE tree' = [tree EXCEPT !.deps = edits + 1]
    BY <2>1, <2>2, <2>4 DEF Content
  <2> QED
    BY <2>3, <2>4 DEF Edit
<1>2. UNCHANGED <<hist, tags, pushed, exposed, artifact, runVars>> /\ meddled' \in BOOLEAN
  BY DEF Edit, AtWork, IInv, RunTypes
<1>3. RepoTypes' /\ RunTypes'
  BY <1>1, <1>2 DEF IInv, RepoTypes, RunTypes, runVars
<1>4. BumpUnderWay' /\ NotPushed' /\ TagsAreReleases' /\ PushedStays'
  BY <1>1, <1>2 DEF IInv, BumpUnderWay, NotPushed, UnwindableCommit, TagsAreReleases, PushedStays,
                    runVars, LastCommit
<1> QED
  BY <1>3, <1>4 DEF IInv

\* The owner commits no unfinished bump, and only makes the branch longer.
LEMMA CommitKeeps == ASSUME IInv, Commit PROVE IInv'
<1>1. /\ tree.toml = LastCommit.toml /\ hist' = Append(hist, tree)
      /\ UNCHANGED <<tree, tags, pushed, exposed, artifact, runVars, edits>>
      /\ meddled' \in BOOLEAN
  BY DEF Commit, AtWork, LastCommit, IInv, RunTypes
<1>2. /\ hist \in Seq(Content) /\ tree \in Content /\ pushed.hist \in Seq(Content)
      /\ pushed.hist # <<>> /\ exposed \in BOOLEAN /\ Kept(pushed.hist, hist, exposed)
  BY DEF IInv, RepoTypes, RunTypes, PushedStays, Kept
<1>3. hist' \in Seq(Content) /\ hist' # <<>> /\ LastCommit' = tree
  BY <1>1, <1>2, HeadAppend DEF LastCommit
<1>4. /\ Kept(pushed.hist, hist', exposed)
      /\ Len(pushed.hist) <= Len(hist')
      /\ ~exposed => Len(pushed.hist) < Len(hist')
  BY <1>1, <1>2, KeptByCommit
<1>5. RepoTypes' /\ RunTypes'
  BY <1>1, <1>3 DEF IInv, RepoTypes, RunTypes, runVars
<1>6. BumpUnderWay'
  BY <1>1, <1>3 DEF IInv, BumpUnderWay, runVars
<1>7. NotPushed' /\ TagsAreReleases' /\ PushedStays'
  BY <1>1, <1>4 DEF IInv, NotPushed, UnwindableCommit, TagsAreReleases, PushedStays, Kept, runVars
<1> QED
  BY <1>5, <1>6, <1>7 DEF IInv

\* Nothing but the tree changes, and no run is under way.
LEMMA RestoreKeeps == ASSUME IInv, Restore PROVE IInv'
<1>1. /\ pc = "idle" /\ tree' = HeadOf(hist)
      /\ UNCHANGED <<hist, tags, pushed, exposed, artifact, runVars, meddled, edits>>
  BY DEF Restore
<1>2. tree' \in Content
  BY <1>1, HeadContent DEF IInv, RepoTypes
<1>3. RepoTypes' /\ RunTypes'
  BY <1>1, <1>2 DEF IInv, RepoTypes, RunTypes, runVars
<1>4. BumpUnderWay' /\ NotPushed' /\ TagsAreReleases' /\ PushedStays'
  BY <1>1 DEF IInv, BumpUnderWay, NotPushed, UnwindableCommit, TagsAreReleases, PushedStays, runVars
<1> QED
  BY <1>3, <1>4 DEF IInv

\* The branch as it is and the tag of a run that succeeded are pushed; if a run is
\* under way that may unwind its commit, the push is an exposing one.
LEMMA PushKeeps == ASSUME IInv, Push PROVE IInv'
<1>1. PICK v \in told :
        /\ pushed' = [hist |-> hist,
                      tags |-> [w \in DOMAIN pushed.tags \union {v} |->
                                  IF w = v THEN tags[v] ELSE pushed.tags[w]]]
        /\ told' = told \ {v}
        /\ exposed' = UnwindableCommit
        /\ UNCHANGED <<hist, tree, tags, artifact, pc, new, staged, outcome, runs,
                       meddled, edits>>
  BY DEF Push, repoVars
<1>2. /\ pushed'.hist = hist /\ DOMAIN pushed'.tags = DOMAIN pushed.tags \union {v}
      /\ pushed'.tags[v] = tags[v]
      /\ \A w \in DOMAIN pushed.tags \ {v} : pushed'.tags[w] = pushed.tags[w]
  BY <1>1
<1>3. v \in DOMAIN tags /\ hist \in Seq(Content) /\ hist # <<>> /\ IsPrefix(hist, hist)
  BY PrefixSelf DEF IInv, NotPushed, RepoTypes
<1>4. RepoTypes'
  BY <1>1, <1>2, <1>3 DEF IInv, RepoTypes
<1>5. RunTypes' /\ BumpUnderWay' /\ TagsAreReleases'
  BY <1>1 DEF IInv, RunTypes, BumpUnderWay, TagsAreReleases, LastCommit,
              UnwindableCommit
<1>6. NotPushed'
  <2>1. UnwindableCommit' <=> UnwindableCommit
    BY <1>1 DEF UnwindableCommit
  <2>2. Len(hist) \in Nat
    BY <1>3
  <2> QED
    BY <1>1, <1>2, <1>3, <2>1, <2>2 DEF IInv, NotPushed
<1>7. PushedStays'
  BY <1>1, <1>2, <1>3 DEF IInv, PushedStays
<1> QED
  BY <1>4, <1>5, <1>6, <1>7 DEF IInv

\* A run that is refused leaves everything as it is.
LEMMA RefuseKeeps ==
  ASSUME IInv, NEW part \in Parts, NEW noVerify \in BOOLEAN, Refuse(part, noVerify)
  PROVE  IInv'
<1>1. /\ pc = "idle" /\ runs' \in 0..MaxRuns /\ meddled' = FALSE
      /\ new' = Bump(tree.toml, part) /\ outcome' \in {"dry", "refused"}
      /\ UNCHANGED <<hist, tree, tags, pushed, exposed, artifact, pc, staged, told, edits>>
  BY DEF Refuse, Begin, repoVars, IInv, RunTypes
<1>2. new' \in Version
  BY <1>1, BumpChanges DEF IInv, RepoTypes, Content
<1>3. RepoTypes' /\ RunTypes'
  BY <1>1, <1>2 DEF IInv, RepoTypes, RunTypes
<1>4. BumpUnderWay' /\ NotPushed' /\ TagsAreReleases' /\ PushedStays'
  BY <1>1 DEF IInv, BumpUnderWay, NotPushed, UnwindableCommit, TagsAreReleases, PushedStays
<1> QED
  BY <1>3, <1>4 DEF IInv

\* Cargo.toml has the new version, which the clean branch has not.
LEMMA WriteVersionKeeps ==
  ASSUME IInv, NEW part \in Parts, NEW noVerify \in BOOLEAN,
         WriteVersion(part, noVerify)
  PROVE  IInv'
<1>1. /\ pc = "idle" /\ pc' = "update" /\ runs' \in 0..MaxRuns /\ meddled' = FALSE
      /\ new' = Bump(tree.toml, part) /\ tree.toml = LastCommit.toml
      /\ tree' = [tree EXCEPT !.toml = new']
      /\ UNCHANGED <<hist, tags, pushed, exposed, artifact, staged, outcome, told,
                     edits>>
  BY DEF WriteVersion, Begin, Clean, LastCommit, IInv, RunTypes
<1>2. new' \in Version /\ new' # tree.toml
  BY <1>1, BumpChanges DEF IInv, RepoTypes, Content
<1>3. tree' \in Content /\ tree'.toml = new' /\ LastCommit'.toml # new'
  BY <1>1, <1>2 DEF IInv, RepoTypes, Content, LastCommit
<1>4. RepoTypes' /\ RunTypes'
  BY <1>1, <1>2, <1>3 DEF IInv, RepoTypes, RunTypes
<1>5. BumpUnderWay'
  BY <1>1, <1>3 DEF BumpUnderWay
<1>6. NotPushed' /\ TagsAreReleases' /\ PushedStays'
  BY <1>1 DEF IInv, NotPushed, UnwindableCommit, TagsAreReleases, PushedStays
<1> QED
  BY <1>4, <1>5, <1>6 DEF IInv

\* Cargo.lock follows Cargo.toml, and both are staged.
LEMMA UpdateAndAddKeep == ASSUME IInv, CargoUpdate \/ GitAdd PROVE IInv'
<1>1. /\ UNCHANGED <<hist, tags, pushed, exposed, artifact, outcome, told, new, meddled,
                     runs, edits>>
      /\ \/ /\ pc = "update" /\ pc' = "add" /\ UNCHANGED staged
            /\ tree' = [tree EXCEPT !.lockv = tree.toml]
         \/ pc = "add" /\ pc' = "commit" /\ staged' = tree /\ UNCHANGED tree
  BY DEF CargoUpdate, GitAdd, Step, repoVars
<1>2. /\ tree' \in Content /\ staged' \in Content
      /\ tree'.toml = new /\ tree'.lockv = new
      /\ pc' = "commit" => staged'.toml = new /\ staged'.lockv = new
      /\ LastCommit'.toml # new
  BY <1>1 DEF IInv, RepoTypes, Content, BumpUnderWay, LastCommit
<1>3. RepoTypes' /\ RunTypes'
  BY <1>1, <1>2 DEF IInv, RepoTypes, RunTypes
<1>4. BumpUnderWay'
  BY <1>1, <1>2 DEF BumpUnderWay
<1>5. NotPushed' /\ TagsAreReleases' /\ PushedStays'
  BY <1>1 DEF IInv, NotPushed, UnwindableCommit, TagsAreReleases, PushedStays
<1> QED
  BY <1>3, <1>4, <1>5 DEF IInv

\* The release commit carries the new version and is not pushed.
LEMMA GitCommitKeeps == ASSUME IInv, GitCommit PROVE IInv'
<1> DEFINE c == [staged EXCEPT !.source = HeadOf(hist).source]
<1>1. /\ pc = "commit" /\ pc' = "tag" /\ hist' = Append(hist, c)
      /\ UNCHANGED <<tree, tags, pushed, exposed, artifact, staged, outcome, told, new, meddled,
                     runs, edits>>
  BY DEF GitCommit, Step
<1>2. c \in Content /\ c.toml = new /\ c.lockv = new
  <2>1. HeadOf(hist) \in Content
    BY HeadContent DEF IInv, RepoTypes
  <2> QED
    BY <1>1, <2>1 DEF IInv, RepoTypes, BumpUnderWay, Content
<1>3. /\ hist \in Seq(Content) /\ pushed.hist \in Seq(Content)
      /\ pushed.hist # <<>> /\ exposed \in BOOLEAN /\ Kept(pushed.hist, hist, exposed)
  BY DEF IInv, RepoTypes, RunTypes, PushedStays, Kept
<1> HIDE DEF c
<1>4. hist' \in Seq(Content) /\ hist' # <<>> /\ LastCommit' = c
  BY <1>1, <1>2, <1>3, HeadAppend DEF LastCommit
<1>5. /\ Kept(pushed.hist, hist', exposed)
      /\ Len(pushed.hist) <= Len(hist')
      /\ ~exposed => Len(pushed.hist) < Len(hist')
  BY <1>1, <1>2, <1>3, KeptByCommit
<1>6. RepoTypes' /\ RunTypes'
  BY <1>1, <1>4 DEF IInv, RepoTypes, RunTypes
<1>7. BumpUnderWay'
  BY <1>1, <1>2, <1>4 DEF IInv, BumpUnderWay
<1>8. NotPushed' /\ TagsAreReleases' /\ PushedStays'
  BY <1>1, <1>5 DEF IInv, NotPushed, UnwindableCommit, TagsAreReleases, PushedStays, Kept
<1> QED
  BY <1>6, <1>7, <1>8 DEF IInv

\* The tag is put on a commit of its version, and nobody has it yet.
LEMMA GitTagKeeps == ASSUME IInv, GitTag PROVE IInv'
<1>1. /\ pc = "tag" /\ pc' \in {"build", "idle"}
      /\ pc' = "idle" => outcome' = "ok"
      /\ outcome' \in {outcome, "ok"}
      /\ new \notin DOMAIN tags /\ tags' = Tagged
      /\ told' \in {told, told \union {new}}
      /\ pc' # "idle" => told' = told
      /\ UNCHANGED <<hist, tree, pushed, exposed, artifact, staged, new, meddled, runs,
                     edits>>
  BY DEF GitTag, Step, Succeed
<1>2. /\ DOMAIN tags' = DOMAIN tags \union {new}
      /\ tags' = [v \in DOMAIN tags' |-> tags'[v]]
      /\ tags'[new] = hist
      /\ \A v \in DOMAIN tags : tags'[v] = tags[v]
  BY <1>1 DEF Tagged
<1>3. new \notin told \union DOMAIN pushed.tags
  BY <1>1 DEF IInv, NotPushed, PushedStays
<1>4. RepoTypes' /\ RunTypes'
  BY <1>1, <1>2 DEF IInv, RepoTypes, RunTypes
<1>5. BumpUnderWay' /\ NotPushed'
  <2>1. BumpUnderWay'
    BY <1>1, <1>2 DEF IInv, BumpUnderWay
  <2>2. told \subseteq DOMAIN tags
    BY DEF IInv, NotPushed
  <2>3. told' \subseteq DOMAIN tags'
    BY <1>1, <1>2, <2>2
  <2>4. pc' \in {"build", "untag", "reset"} =>
          new' \notin told' \union DOMAIN pushed'.tags
    BY <1>1, <1>3
  <2> QED
    BY <1>1, <2>1, <2>3, <2>4 DEF IInv, NotPushed, UnwindableCommit
<1>6. TagsAreReleases'
  BY <1>1, <1>2 DEF IInv, TagsAreReleases, BumpUnderWay, LastCommit
<1>7. PushedStays'
  BY <1>1, <1>2 DEF IInv, PushedStays
<1> QED
  BY <1>4, <1>5, <1>6, <1>7 DEF IInv

\* The build changes nothing in the repository.
LEMMA BuildKeeps == ASSUME IInv, MakePackage \/ BuildFails PROVE IInv'
<1>1. /\ pc = "build"
      /\ UNCHANGED <<hist, tree, tags, pushed, exposed, staged, new, meddled, runs, edits>>
      /\ \/ pc' = "idle" /\ outcome' = "ok" /\ told' = told \union {new}
         \/ pc' = "untag" /\ UNCHANGED <<outcome, told>>
      /\ artifact'.release \in {"none", "1", "1.dirty", "snapshot", "snapshot.dirty"}
  BY DEF MakePackage, BuildFails, Step, Succeed, repoVars, RpmRelease, IInv, RunTypes
<1>2. RepoTypes' /\ RunTypes'
  BY <1>1 DEF IInv, RepoTypes, RunTypes
<1>3. BumpUnderWay' /\ NotPushed' /\ TagsAreReleases' /\ PushedStays'
  BY <1>1 DEF IInv, BumpUnderWay, NotPushed, UnwindableCommit, TagsAreReleases, PushedStays
<1> QED
  BY <1>2, <1>3 DEF IInv

\* The tag that is deleted is not pushed.
LEMMA DeleteTagKeeps == ASSUME IInv, DeleteTag PROVE IInv'
<1>1. /\ pc = "untag" /\ pc' = "reset"
      /\ tags' = [v \in DOMAIN tags \ {new} |-> tags[v]]
      /\ UNCHANGED <<hist, tree, pushed, exposed, artifact, staged, outcome, told, new, meddled,
                     runs, edits>>
  BY DEF DeleteTag, Step
<1>2. RepoTypes' /\ RunTypes'
  BY <1>1 DEF IInv, RepoTypes, RunTypes
<1>3. BumpUnderWay' /\ NotPushed' /\ TagsAreReleases'
  BY <1>1 DEF IInv, BumpUnderWay, NotPushed, UnwindableCommit, TagsAreReleases
<1>4. PushedStays'
  BY <1>1 DEF IInv, NotPushed, UnwindableCommit, PushedStays
<1> QED
  BY <1>2, <1>3, <1>4 DEF IInv

\* Nor is the commit that is dropped, unless an exposing push took it.
LEMMA ResetKeeps == ASSUME IInv, ResetHard PROVE IInv'
<1>1. /\ pc = "reset" /\ pc' = "idle" /\ outcome' = "reverted"
      /\ Len(hist) > 1 /\ hist' = Front(hist) /\ tree' = HeadOf(hist')
      /\ UNCHANGED <<tags, pushed, exposed, artifact, staged, told, new, meddled, runs, edits>>
  BY DEF ResetHard, Step
<1>2. /\ hist \in Seq(Content) /\ pushed.hist \in Seq(Content)
      /\ pushed.hist # <<>> /\ exposed \in BOOLEAN /\ Kept(pushed.hist, hist, exposed)
      /\ Len(pushed.hist) <= Len(hist)
      /\ ~exposed => Len(pushed.hist) < Len(hist)
  BY <1>1 DEF IInv, RepoTypes, RunTypes, PushedStays, NotPushed, UnwindableCommit, Kept
<1>3. hist' \in Seq(Content) /\ hist' # <<>>
  BY <1>1, <1>2, FrontBranch
<1>4. tree' \in Content
  BY <1>1, <1>3, HeadContent
<1>5. Kept(pushed.hist, hist', exposed)
  BY <1>1, <1>2, KeptByReset
<1>6. RepoTypes' /\ RunTypes'
  BY <1>1, <1>3, <1>4 DEF IInv, RepoTypes, RunTypes
<1>7. BumpUnderWay' /\ NotPushed' /\ TagsAreReleases'
  BY <1>1 DEF IInv, BumpUnderWay, NotPushed, UnwindableCommit, TagsAreReleases
<1>8. PushedStays'
  BY <1>1, <1>5 DEF IInv, PushedStays, Kept
<1> QED
  BY <1>6, <1>7, <1>8 DEF IInv

\* A run that breaks off anywhere, and a step that changes nothing.
LEMMA BreakOffKeeps ==
  ASSUME IInv, CommandFails \/ Interrupt \/ UNCHANGED vars
  PROVE  IInv'
<1>1. /\ UNCHANGED <<hist, tree, tags, pushed, exposed, artifact, staged, told, new, meddled,
                     runs, edits>>
      /\ \/ pc' = "idle" /\ outcome' \in {"failed", "killed"}
         \/ UNCHANGED <<pc, outcome>>
  BY DEF CommandFails, Interrupt, End, repoVars, runVars, vars
<1>2. RepoTypes' /\ RunTypes'
  BY <1>1 DEF IInv, RepoTypes, RunTypes
<1>3. BumpUnderWay' /\ NotPushed' /\ TagsAreReleases' /\ PushedStays'
  BY <1>1 DEF IInv, BumpUnderWay, NotPushed, UnwindableCommit, TagsAreReleases, PushedStays, LastCommit
<1> QED
  BY <1>2, <1>3 DEF IInv

\* IInv is an invariant.
THEOREM ReleaseInvariant == Spec => []IInv
<1>1. IInv /\ [Next]_vars => IInv'
  BY EditKeeps, CommitKeeps, RestoreKeeps, PushKeeps, RefuseKeeps, WriteVersionKeeps,
     UpdateAndAddKeep, GitCommitKeeps, GitTagKeeps, BuildKeeps, DeleteTagKeeps,
     ResetKeeps, BreakOffKeeps
  DEF Next, Owner, Script
<1> QED
  BY InitEstablishes, <1>1, PTL DEF Spec

\* Every variable keeps its type.
THEOREM TypeCorrect == Spec => []TypeOK
<1>1. IInv => TypeOK
  <2> SUFFICES ASSUME IInv PROVE TypeOK
    OBVIOUS
  <2>1. \A i \in DOMAIN hist : DOMAIN hist[i] = DOMAIN First
    <3>1. \A i \in DOMAIN hist : hist[i] \in Content
      BY DEF IInv, RepoTypes
    <3> QED
      BY <3>1 DEF Content, First
  <2>2. told \subseteq DOMAIN tags
    BY DEF IInv, NotPushed
  <2> QED
    BY <2>1, <2>2 DEF IInv, RepoTypes, RunTypes, TypeOK
<1> QED
  BY ReleaseInvariant, <1>1, PTL

\* Every tag names a commit with its version in both files, whatever failed, was
\* interrupted, reverted or repeated: while the bump is unfinished the owner
\* cannot commit, so the head of the branch is the release commit or a later
\* commit of the same version when git tag runs.
THEOREM TagsNameReleases == Spec => []TagsAreReleases
BY ReleaseInvariant, PTL DEF IInv

\* What a run unwinds is one commit and one tag. The tag is never pushed: a push
\* instruction names a tag whose run has ended. The commit is pushed only by a
\* push between git commit and the end of the run, which is lost with a failed
\* build; everything below it stays.
THEOREM PushedIsKept == Spec => []PushedStays
BY ReleaseInvariant, PTL DEF IInv

\* Only its own run deletes a tag, and none moves one.
THEOREM TagsStay == Spec => TagsNeverMove
<1>1. [Next]_vars => [\A v \in DOMAIN tags :
                        \/ v \in DOMAIN tags' /\ tags'[v] = tags[v]
                        \/ v \notin DOMAIN tags' /\ v = new /\ pc = "untag"]_vars
  BY DEF Next, Owner, Script, Edit, Commit, Restore, Push, Refuse, WriteVersion,
         CargoUpdate, GitAdd, GitCommit, GitTag, Tagged, MakePackage, BuildFails,
         DeleteTag, ResetHard, CommandFails, Interrupt, Step, repoVars, vars
<1> QED
  BY <1>1, PTL DEF Spec, TagsNeverMove

-----------------------------------------------------------------------------
(* Runs during which the owner leaves the repository alone.                *)

\* What the run began with.
BeforeTypes ==
  /\ before = [hist |-> before.hist, tree |-> before.tree, tags |-> before.tags]
  /\ before.tags = [v \in DOMAIN before.tags |-> before.tags[v]]

\* Until git commit the branch and the tags are those the run began with; after
\* it the branch is one commit longer, and after git tag there is one more tag.
\* The tree is what was committed.
Undisturbed ==
  /\ pc \in {"update", "add", "commit"} =>
       /\ tree.source = LastCommit.source
       /\ hist = before.hist /\ tags = before.tags
  /\ pc = "commit" => staged = tree
  /\ pc \in {"tag", "build"} => tree = LastCommit
  /\ pc \in {"tag", "build", "untag", "reset"} => Front(hist) = before.hist
  /\ pc \in {"tag", "reset"} => tags = before.tags
  /\ pc = "build" => tree.toml = new
  /\ pc \in {"build", "untag"} =>
       /\ new \notin DOMAIN before.tags
       /\ tags = [v \in DOMAIN before.tags \union {new} |->
                    IF v = new THEN hist ELSE before.tags[v]]

RunInv == BeforeTypes /\ (~meddled => Undisturbed)

\* RunInv holds before the first run, during none.
LEMMA InitEstablishesRun == Init => RunInv
<1> SUFFICES ASSUME Init PROVE RunInv
  OBVIOUS
<1>1. BeforeTypes
  BY DEF Init, BeforeTypes, NoTags
<1>2. Undisturbed
  BY DEF Init, Undisturbed
<1> QED
  BY <1>1, <1>2 DEF RunInv

\* The owner either works between runs or has meddled; a run that ends is over.
LEMMA BetweenRuns ==
  ASSUME RunInv, \/ Owner \/ CommandFails \/ Interrupt \/ MakePackage
                 \/ ResetHard \/ UNCHANGED vars
  PROVE  RunInv'
<1>1. UNCHANGED before
  BY DEF Owner, Edit, Commit, Restore, Push, repoVars, CommandFails, Interrupt, MakePackage,
         ResetHard, Step, runVars, vars
<1>2. meddled' \/ pc' = "idle" \/ UNCHANGED <<repoVars, pc, new, staged, meddled>>
  BY DEF Owner, Edit, Commit, Restore, Push, AtWork, CommandFails, Interrupt, End,
         MakePackage, ResetHard, Step, repoVars, runVars, vars
<1>3. CASE pc' = "idle"
  BY <1>1, <1>3 DEF RunInv, BeforeTypes, Undisturbed
<1>4. CASE UNCHANGED <<repoVars, pc, new, staged, meddled>>
  BY <1>1, <1>4 DEF RunInv, BeforeTypes, Undisturbed, LastCommit, repoVars
<1> QED
  BY <1>1, <1>2, <1>3, <1>4 DEF RunInv, BeforeTypes

\* A run begins with what there is.
LEMMA RunBegins ==
  ASSUME IInv, RunInv, NEW part \in Parts, NEW noVerify \in BOOLEAN,
         Refuse(part, noVerify) \/ WriteVersion(part, noVerify)
  PROVE  RunInv'
<1>1. /\ before' = [hist |-> hist, tree |-> tree, tags |-> tags]
      /\ UNCHANGED <<hist, tags>>
      /\ \/ pc' = "idle"
         \/ /\ pc' = "update" /\ tree.source = LastCommit.source
            /\ tree' = [tree EXCEPT !.toml = new']
  BY DEF Refuse, WriteVersion, Begin, Clean, LastCommit, repoVars
<1>2. BeforeTypes'
  BY <1>1 DEF BeforeTypes, IInv, RepoTypes
<1>3. Undisturbed'
  <2>1. CASE pc' = "idle"
    BY <2>1 DEF Undisturbed
  <2>2. CASE pc' = "update"
    <3>1. tree'.source = LastCommit'.source
      BY <1>1, <2>2 DEF LastCommit, IInv, RepoTypes, Content
    <3> QED
      BY <1>1, <2>2, <3>1 DEF Undisturbed
  <2> QED
    BY <1>1, <2>1, <2>2
<1> QED
  BY <1>2, <1>3 DEF RunInv

\* The commands up to git commit.
LEMMA BumpStepKeeps == ASSUME IInv, RunInv, CargoUpdate \/ GitAdd PROVE RunInv'
<1>1. /\ UNCHANGED <<hist, tags, new, before, meddled>>
      /\ \/ /\ pc = "update" /\ pc' = "add" /\ tree' = [tree EXCEPT !.lockv = tree.toml]
         \/ pc = "add" /\ pc' = "commit" /\ staged' = tree /\ UNCHANGED tree
  BY DEF CargoUpdate, GitAdd, Step, repoVars
<1>2. tree'.source = tree.source
  BY <1>1 DEF IInv, RepoTypes, Content
<1> QED
  BY <1>1, <1>2 DEF RunInv, BeforeTypes, Undisturbed, LastCommit

\* The commit is the tree: nothing else was modified.
LEMMA CommitStepKeeps == ASSUME IInv, RunInv, GitCommit PROVE RunInv'
<1> DEFINE c == [staged EXCEPT !.source = HeadOf(hist).source]
<1>1. /\ pc = "commit" /\ pc' = "tag" /\ hist' = Append(hist, c)
      /\ UNCHANGED <<tree, tags, new, before, meddled>>
  BY DEF GitCommit, Step
<1>2. HeadOf(hist) \in Content /\ hist \in Seq(Content) /\ c \in Content
  <2>1. HeadOf(hist) \in Content
    BY HeadContent DEF IInv, RepoTypes
  <2> QED
    BY <2>1 DEF IInv, RepoTypes, Content
<1>3. ~meddled => c = tree
  <2>1. ~meddled => staged = tree /\ tree.source = HeadOf(hist).source
    BY <1>1 DEF RunInv, Undisturbed, LastCommit
  <2> QED
    BY <2>1 DEF IInv, RepoTypes, Content
<1> HIDE DEF c
<1>4. LastCommit' = c /\ Front(hist') = hist
  BY <1>1, <1>2, HeadAppend DEF LastCommit
<1> QED
  BY <1>1, <1>3, <1>4 DEF RunInv, BeforeTypes, Undisturbed

\* One tag more, and one tag less.
LEMMA TagStepKeeps == ASSUME IInv, RunInv, GitTag \/ BuildFails \/ DeleteTag PROVE RunInv'
<1>1. CASE GitTag
  <2>1. /\ pc = "tag" /\ pc' \in {"build", "idle"} /\ new \notin DOMAIN tags
        /\ tags' = [v \in DOMAIN tags \union {new} |-> IF v = new THEN hist ELSE tags[v]]
        /\ UNCHANGED <<hist, tree, new, before, meddled>>
    BY <1>1 DEF GitTag, Tagged, Step
  <2>2. tree.toml = new
    BY <2>1 DEF IInv, BumpUnderWay
  <2> QED
    BY <2>1, <2>2 DEF RunInv, BeforeTypes, Undisturbed, LastCommit
<1>2. CASE BuildFails
  BY <1>2 DEF BuildFails, Step, repoVars, RunInv, BeforeTypes, Undisturbed
<1>3. CASE DeleteTag
  <2>1. /\ pc = "untag" /\ pc' = "reset"
        /\ tags' = [v \in DOMAIN tags \ {new} |-> tags[v]]
        /\ UNCHANGED <<hist, tree, new, before, meddled>>
    BY <1>3 DEF DeleteTag, Step
  <2>2. ~meddled => tags' = before.tags
    BY <2>1 DEF RunInv, BeforeTypes, Undisturbed
  <2> QED
    BY <2>1, <2>2 DEF RunInv, BeforeTypes, Undisturbed
<1> QED
  BY <1>1, <1>2, <1>3

\* RunInv is an invariant.
THEOREM RunInvariant == Spec => []RunInv
<1>1. IInv /\ RunInv /\ [Next]_vars => RunInv'
  BY BetweenRuns, RunBegins, BumpStepKeeps, CommitStepKeeps, TagStepKeeps
  DEF Next, Script
<1> QED
  BY InitEstablishesRun, ReleaseInvariant, <1>1, PTL DEF Spec

\* What is packaged by a verified run that nobody disturbs is its own tagged
\* commit: release 1, neither snapshot nor dirty.
THEOREM VerifiedReleaseIsClean == Spec => VerifiedIsClean
<1>1. RunInv /\ [Next]_vars =>
        [pc # "idle" /\ pc' = "idle" /\ outcome' = "ok" /\ verify /\ ~meddled =>
           /\ new \in DOMAIN tags' /\ tags'[new] = hist'
           /\ artifact' = [version |-> new, release |-> "1"]]_vars
  <2> SUFFICES ASSUME RunInv, Next, pc # "idle", pc' = "idle", outcome' = "ok",
                      verify, ~meddled
               PROVE  /\ new \in DOMAIN tags' /\ tags'[new] = hist'
                      /\ artifact' = [version |-> new, release |-> "1"]
    BY DEF vars
  <2>1. MakePackage
    BY DEF Next, Owner, Script, Edit, Commit, Restore, Push, Refuse, WriteVersion,
           Begin, CargoUpdate, GitAdd, GitCommit, GitTag, BuildFails, DeleteTag,
           ResetHard, CommandFails, Interrupt, End, Step, runVars
  <2>2. /\ pc = "build" /\ UNCHANGED <<hist, tags>>
        /\ artifact' = [version |-> tree.toml, release |-> RpmRelease]
    BY <2>1 DEF MakePackage, Step, repoVars
  <2>3. /\ tree = HeadOf(hist) /\ tree.toml = new
        /\ new \in DOMAIN tags /\ tags[new] = hist
    BY <2>2 DEF RunInv, Undisturbed, LastCommit
  <2>4. RpmRelease = "1"
    BY <2>3 DEF RpmRelease
  <2> QED
    BY <2>2, <2>3, <2>4
<1> QED
  BY RunInvariant, <1>1, PTL DEF Spec, VerifiedIsClean

\* A failed build that nobody disturbs is undone exactly, if nothing was modified
\* when the run began: the branch and the tags are those of the beginning, and
\* git reset --hard makes the tree their last commit.
THEOREM FailedBuildIsUndone == Spec => CleanRevertRestores
<1>1. RunInv /\ [Next]_vars =>
        [Reverts /\ ~meddled /\ before.tree = HeadOf(before.hist) => Restored]_vars
  <2> SUFFICES ASSUME RunInv, Next, Reverts, ~meddled,
                      before.tree = HeadOf(before.hist)
               PROVE  Restored
    BY DEF vars
  <2>1. ResetHard
    BY DEF Reverts, Next, Owner, Script, Edit, Commit, Restore, Push, Refuse,
           WriteVersion, Begin, CargoUpdate, GitAdd, GitCommit, GitTag, MakePackage,
           BuildFails, DeleteTag, CommandFails, Interrupt, End, Step, runVars
  <2>2. hist' = Front(hist) /\ tree' = HeadOf(hist') /\ tags' = tags
    BY <2>1 DEF ResetHard
  <2>3. Front(hist) = before.hist /\ tags = before.tags
    BY DEF Reverts, RunInv, Undisturbed
  <2>4. before = [hist |-> before.hist, tree |-> before.tree, tags |-> before.tags]
    BY DEF RunInv, BeforeTypes
  <2> QED
    BY <2>2, <2>3, <2>4 DEF Restored
<1> QED
  BY RunInvariant, <1>1, PTL DEF Spec, CleanRevertRestores

=============================================================================
