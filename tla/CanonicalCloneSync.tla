------------------------- MODULE CanonicalCloneSync -------------------------
(***************************************************************************)
(* The canonical clone sync: it keeps a shared clone on its remote's       *)
(* default branch and current with it, and never moves a lane's work       *)
(* (plugins/onex/hooks/lib/canonical_clone_sync.py).                       *)
(*                                                                         *)
(* One clone, the syncs a timer and merges start, the refreshes of lanes,  *)
(* the lanes that work in the clone, and the remote.  A commit is the set  *)
(* of the changes it contains, so that an ancestor is a subset; a change   *)
(* is also the path it touches.  A step of a sync is one git call that     *)
(* reads or moves what others move too, with the checks that follow it.    *)
(*                                                                         *)
(* Remote branches only grow, and every branch of the remote is a tracking *)
(* branch that was fetched before.  Not modelled: clones that are bare,    *)
(* detached or have no upstream, which nothing is done to; lab clones,     *)
(* whose symref stays as it is; a ref guard that refuses the switch half   *)
(* way; tags; the log and the alarm.                                       *)
(***************************************************************************)
EXTENDS Naturals

CONSTANTS
  Syncs, Refreshers,
  Nobody,         \* the holder of a lock that is free
  Branches,       \* TRACKING_BRANCHES of the remote
  Refreshed,      \* the ones that lanes ask a refresh of
  Absent,         \* no commit: a local branch that does not exist; no branch
  Changes,
  LaneChanges,    \* the changes that lanes commit in the clone
  BadChange,      \* leaves a hook script that does not parse ...
  FixChange,      \* ... until this one repairs it
  Cloned,         \* the branches a clone may start with
  SharedTrees,    \* whether the clone has a commit lock
  FaultKinds,     \* what may fail
  MaxTroubles     \* bound: failures and changes lanes make, in one behaviour

ASSUME CloneAssumption ==
  /\ Nobody \notin Syncs \cup Refreshers
  /\ Syncs \cap Refreshers = {}
  /\ \A commit \in SUBSET Changes : Absent # commit
  /\ LaneChanges \subseteq Changes \ {BadChange}
  /\ Refreshed \subseteq Branches
  /\ Cloned \subseteq SUBSET Branches
  /\ SharedTrees \subseteq BOOLEAN
  /\ MaxTroubles \in Nat

VARIABLES
  remote,         \* what each branch of the remote contains
  remoteDefault,  \* the remote's default branch
  tracking,       \* refs/remotes/<remote>/<branch>
  symref,         \* refs/remotes/<remote>/HEAD
  local,          \* the clone's own branches
  head,           \* the branch that is checked out
  shared,         \* the clone has a .onex_state/commit.lock
  overtaken,      \* history: a branch was made from a ref that others have
                  \* moved since a sync had checked it
  unstaged,       \* tracked paths with an uncommitted change
  busy,           \* staged paths, an operation in progress or an index.lock
  stray,          \* an uncommitted hook script that does not parse
  lock,           \* who holds the clone lock
  pc,             \* what each sync does next
  branch,         \* the branch a sync follows
  before, target, \* its result.before and result.target
  result,         \* its result.result, once there is one
  refused,        \* the clone's refusal record exists
  rpc,            \* what each refresh does next
  wanted,         \* the branch each refresh is for
  asked,          \* the remote head each refresh was told
  fresh,          \* the last refresh exited 0
  troubles        \* how many failures and changes there were

remoteVars == <<remote, remoteDefault>>
refs == <<tracking, symref>>
clone == <<local, head, shared, overtaken>>
work == <<unstaged, busy, stray>>
syncVars == <<pc, branch, before, target, result, refused>>
refreshVars == <<rpc, wanted, asked, fresh>>
vars == <<remoteVars, refs, clone, work, lock, syncVars, refreshVars, troubles>>

Commits == SUBSET Changes

InLock == {"heading", "fetching", "merging", "reading", "rolling",
           "returning", "switching", "returned"}
Steps == InLock \cup {"idle", "locking", "tracking"}
Results == {"REFUSED", "FAILED", "ADVANCED", "UP_TO_DATE"}

TypeOK ==
  /\ remote \in [Branches -> Commits]
  /\ remoteDefault \in Branches
  /\ tracking \in [Branches -> Commits]
  /\ symref \in Branches
  /\ local \in [Branches -> Commits \cup {Absent}]
  /\ head \in Branches
  /\ shared \in BOOLEAN /\ overtaken \in BOOLEAN
  /\ unstaged \in Commits /\ busy \in BOOLEAN /\ stray \in BOOLEAN
  /\ lock \in Syncs \cup Refreshers \cup {Nobody}
  /\ pc \in [Syncs -> Steps]
  /\ branch \in [Syncs -> Branches \cup {Absent}]
  /\ before \in [Syncs -> Commits] /\ target \in [Syncs -> Commits]
  /\ result \in [Syncs -> Results \cup {"none"}]
  /\ refused \in BOOLEAN
  /\ rpc \in [Refreshers -> {"idle", "asked", "fetching"}]
  /\ wanted \in [Refreshers -> Branches \cup {Absent}]
  /\ asked \in [Refreshers -> Commits]
  /\ fresh \in [Refreshers -> BOOLEAN]
  /\ troubles \in 0..MaxTroubles

(* A clone made from a remote that has nothing yet, on any of the branches   *)
(* it has; the remote's default may not be what it was then.               *)
Init ==
  /\ remote = [b \in Branches |-> {}]
  /\ remoteDefault \in Branches
  /\ tracking = remote
  /\ symref \in Branches
  /\ \E bs \in Cloned :
       /\ local = [b \in Branches |-> IF b \in bs THEN {} ELSE Absent]
       /\ head \in bs
  /\ shared \in SharedTrees /\ overtaken = FALSE
  /\ unstaged = {} /\ busy = FALSE /\ stray = FALSE
  /\ lock = Nobody
  /\ pc = [s \in Syncs |-> "idle"]
  /\ branch = [s \in Syncs |-> Absent]
  /\ before = [s \in Syncs |-> {}] /\ target = before
  /\ result = [s \in Syncs |-> "none"]
  /\ refused = FALSE
  /\ rpc = [r \in Refreshers |-> "idle"]
  /\ wanted = [r \in Refreshers |-> Absent]
  /\ asked = [r \in Refreshers |-> {}]
  /\ fresh = [r \in Refreshers |-> FALSE]
  /\ troubles = 0

-----------------------------------------------------------------------------
Trouble == troubles < MaxTroubles /\ troubles' = troubles + 1
Fault(kind) == kind \in FaultKinds /\ Trouble

(* bash -n on every hook script of a commit. *)
Parses(commit) == BadChange \in commit => FixChange \in commit

Goto(s, step) == pc' = [pc EXCEPT ![s] = step]

(* A sync leaves nothing behind but its result. *)
End(s, step, r) ==
  /\ Goto(s, step)
  /\ result' = [result EXCEPT ![s] = r]
  /\ branch' = [branch EXCEPT ![s] = Absent]
  /\ before' = [before EXCEPT ![s] = {}]
  /\ target' = [target EXCEPT ![s] = {}]

(* The clone lock is released with the result. *)
Finish(s, r) ==
  /\ End(s, "tracking", r)
  /\ lock' = Nobody
  /\ UNCHANGED refused

GoOn(s, step) ==
  /\ Goto(s, step)
  /\ UNCHANGED <<lock, branch, before, target, result, refused>>

(* fetch +<b>:refs/remotes/<remote>/<b>, and rev-parse of the ref.  Git     *)
(* compares and swaps the ref, so a fetch is one step.                     *)
FetchBranch(b) ==
  /\ tracking' = [tracking EXCEPT ![b] = remote[b]]
  /\ UNCHANGED symref

-----------------------------------------------------------------------------
(* sync_clone *)

(* The branch that is checked out is read before the lock is asked for. *)
Look(s) ==
  /\ pc[s] = "idle"
  /\ branch' = [branch EXCEPT ![s] = head]
  /\ Goto(s, "locking")
  /\ UNCHANGED <<remoteVars, refs, clone, work, lock, before, target, result,
                 refused, refreshVars, troubles>>

(* Mutant of TakeLock: the lock is taken over. *)
TakeAnyLock(s) ==
  /\ pc[s] = "locking"
  /\ lock' = s
  /\ before' = [before EXCEPT ![s] = local[head]]
  /\ Goto(s, "heading")
  /\ UNCHANGED <<remoteVars, refs, clone, work, branch, target, result, refused,
                 refreshVars, troubles>>

TakeLock(s) ==
  /\ pc[s] = "locking"
  /\ lock = Nobody
  /\ lock' = s
  /\ before' = [before EXCEPT ![s] = local[head]]
  /\ Goto(s, "heading")
  /\ UNCHANGED <<remoteVars, refs, clone, work, branch, target, result,
                 refused, refreshVars, troubles>>

(* Somebody has held the lock for CLONE_LOCK_WAIT_SECONDS. *)
LockTimesOut(s) ==
  /\ pc[s] = "locking"
  /\ lock # Nobody
  /\ Fault("slow")
  /\ End(s, "tracking", "REFUSED")
  /\ UNCHANGED <<remoteVars, refs, clone, work, lock, refused, refreshVars>>

(* Mutant of RefreshHead: the symref is not read again from the remote. *)
KeepHead(s) == UNCHANGED symref

(* remote set-head --auto *)
RefreshHead(s) == symref' = remoteDefault

(* The default branch decides which way the sync goes on.  If it cannot be  *)
(* learnt, the sync follows the branch it read.                            *)
SetHead(s) ==
  /\ pc[s] = "heading"
  /\ \/ /\ RefreshHead(s)
        /\ branch' = [branch EXCEPT ![s] = symref']
        /\ Goto(s, IF symref' # branch[s] THEN "returning" ELSE "fetching")
        /\ UNCHANGED troubles
     \/ Fault("set-head") /\ Goto(s, "fetching") /\ UNCHANGED <<symref, branch>>
  /\ UNCHANGED <<remoteVars, tracking, clone, work, lock, before, target,
                 result, refused, refreshVars>>

(* What refuses a fast-forward of the checked-out branch from x to t. *)
Movable(x, t) ==
  /\ x \subseteq t
  /\ ~ busy
  /\ unstaged # {} => shared /\ unstaged \cap (t \ x) = {}
  /\ Parses(t)

(* Mutant of Returnable: the scripts at t are not parsed. *)
ReturnableUnparsed(b, t) ==
  /\ ~ busy /\ ~ shared /\ unstaged = {}
  /\ local[b] # Absent => local[b] \subseteq t

(* What refuses the return of the clone to branch b at t. *)
Returnable(b, t) ==
  /\ ~ busy /\ ~ shared /\ unstaged = {}
  /\ Parses(t)
  /\ local[b] # Absent => local[b] \subseteq t

FetchFails(s) ==
  /\ pc[s] \in {"fetching", "returning"}
  /\ Fault("fetch")
  /\ Finish(s, "FAILED")
  /\ UNCHANGED <<remoteVars, refs, clone, work, refreshVars>>

MoveTo(s, t, step) ==
  /\ target' = [target EXCEPT ![s] = t]
  /\ Goto(s, step)
  /\ UNCHANGED <<lock, branch, before, result, refused>>

Follow(s) ==
  /\ pc[s] = "fetching"
  /\ FetchBranch(branch[s])
  /\ LET t == remote[branch[s]]
     IN \/ before[s] = t /\ Finish(s, "UP_TO_DATE")
        \/ /\ before[s] # t
           /\ IF Movable(before[s], t) THEN MoveTo(s, t, "merging")
                                       ELSE Finish(s, "REFUSED")
  /\ UNCHANGED <<remoteVars, clone, work, refreshVars, troubles>>

(* _return_to_default *)
Return(s) ==
  /\ pc[s] = "returning"
  /\ FetchBranch(branch[s])
  /\ LET t == remote[branch[s]]
     IN IF Returnable(branch[s], t) THEN MoveTo(s, t, "switching")
                                    ELSE Finish(s, "REFUSED")
  /\ UNCHANGED <<remoteVars, clone, work, refreshVars, troubles>>

(* git switch <b>, or switch --track -c <b> from the tracking ref, whatever *)
(* that has become: git carries edits the two trees agree on, and refuses   *)
(* the others.  A refusal that leaves tracked changes is a failure.        *)
Switch(s) ==
  /\ pc[s] = "switching"
  /\ LET b == branch[s]
         to == IF local[b] = Absent THEN tracking[b] ELSE local[b]
         differs == (to \ local[head]) \cup (local[head] \ to)
     IN \/ /\ unstaged \cap differs = {}
           /\ head' = b
           /\ local' = [local EXCEPT ![b] = to]
           /\ overtaken' = (overtaken \/ (local[b] = Absent /\ to # target[s]))
           /\ GoOn(s, "returned")
        \/ /\ unstaged \cap differs # {} \/ busy
           /\ \/ Finish(s, "FAILED")
              \/ busy /\ unstaged = {} /\ Finish(s, "REFUSED")
           /\ UNCHANGED <<head, local, overtaken>>
  /\ UNCHANGED <<remoteVars, refs, shared, work, refreshVars, troubles>>

(* Mutant of FastForward: the branch is reset to the target. *)
ResetToTarget(s) ==
  /\ pc[s] \in {"merging", "returned"}
  /\ local' = [local EXCEPT ![head] = target[s]]
  /\ IF pc[s] = "merging" THEN GoOn(s, "reading") ELSE Finish(s, "ADVANCED")
  /\ UNCHANGED <<remoteVars, refs, head, shared, overtaken, work, refreshVars,
                 troubles>>

(* merge --ff-only of the target into whatever is checked out.  Git looks   *)
(* at the ancestry and at the edits again.                                 *)
FastForward(s) ==
  /\ pc[s] \in {"merging", "returned"}
  /\ local[head] \subseteq target[s]
  /\ unstaged \cap (target[s] \ local[head]) = {}
  /\ local' = [local EXCEPT ![head] = target[s]]
  /\ IF pc[s] = "merging" THEN GoOn(s, "reading") ELSE Finish(s, "ADVANCED")
  /\ UNCHANGED <<remoteVars, refs, head, shared, overtaken, work, refreshVars,
                 troubles>>

(* Git refuses; or says that there is nothing to do, and HEAD, read back,   *)
(* is not the target.                                                      *)
MergeStays(s) ==
  /\ pc[s] \in {"merging", "returned"}
  /\ \/ /\ target[s] \subseteq local[head] /\ target[s] # local[head]
        /\ Finish(s, "FAILED") /\ UNCHANGED troubles
     \/ /\ ~ target[s] \subseteq local[head]
        /\ busy \/ ~ local[head] \subseteq target[s]
             \/ unstaged \cap (target[s] \ local[head]) # {}
        /\ Finish(s, "REFUSED") /\ UNCHANGED troubles
     \/ /\ shared /\ pc[s] = "merging"    \* the commit lock is not free
        /\ Fault("slow") /\ Finish(s, "REFUSED")
  /\ UNCHANGED <<remoteVars, refs, clone, work, refreshVars>>

(* readback_or_roll_back: the scripts in the working tree. *)
ReadBack(s) ==
  /\ pc[s] = "reading"
  /\ IF stray \/ ~ Parses(local[head]) THEN GoOn(s, "rolling")
                                      ELSE Finish(s, "ADVANCED")
  /\ UNCHANGED <<remoteVars, refs, clone, work, refreshVars, troubles>>

(* converge-canonical-clone.sh --to-sha fetches every branch, saves what is *)
(* not committed outside the clone, and resets the checked-out branch; or   *)
(* it refuses, or fails.                                                   *)
RollBack(s) ==
  /\ pc[s] = "rolling"
  /\ \/ /\ head = symref
        /\ before[s] \subseteq remote[head]
        /\ tracking' = remote
        /\ local' = [local EXCEPT ![head] = before[s]]
        /\ unstaged' = {} /\ busy' = FALSE
        /\ Finish(s, "REFUSED")
     \/ /\ tracking' \in {tracking, remote}
        /\ Finish(s, "FAILED")
        /\ UNCHANGED <<local, unstaged, busy>>
  /\ UNCHANGED <<remoteVars, symref, head, shared, overtaken, stray, refreshVars,
                 troubles>>

(* track_refusal: the result is folded into the refusal record, under the   *)
(* clone lock taken once more; a lock that is not to be had leaves it alone. *)
Track(s) ==
  /\ pc[s] = "tracking"
  /\ \/ result[s] = "FAILED" /\ UNCHANGED <<refused, troubles>>
     \/ /\ result[s] # "FAILED" /\ lock = Nobody
        /\ refused' = (result[s] = "REFUSED") /\ UNCHANGED troubles
     \/ /\ result[s] # "FAILED" /\ lock # Nobody /\ Fault("slow")
        /\ UNCHANGED refused
  /\ End(s, "idle", "none")
  /\ UNCHANGED <<remoteVars, refs, clone, work, lock, refreshVars>>

(* A sync is killed: its flock goes with it. *)
Crash(s) ==
  /\ pc[s] # "idle"
  /\ Fault("crash")
  /\ End(s, "idle", "none")
  /\ lock' = IF lock = s THEN Nobody ELSE lock
  /\ UNCHANGED <<remoteVars, refs, clone, work, refused, refreshVars>>

Sync(s) ==
  \/ Look(s) \/ TakeLock(s) \/ LockTimesOut(s) \/ SetHead(s)
  \/ Follow(s) \/ Return(s) \/ FetchFails(s) \/ Switch(s)
  \/ FastForward(s) \/ MergeStays(s) \/ ReadBack(s) \/ RollBack(s) \/ Track(s)

-----------------------------------------------------------------------------
(* refresh_clone, for one branch *)

(* Mutant of AtOrPast: the ref has moved since the remote was asked. *)
HasMoved(r) == tracking[wanted[r]] # {}

AtOrPast(r) == asked[r] \subseteq tracking[wanted[r]]

(* A refresh ends; only of one that exits 0 anything is remembered. *)
Exit(r, ok) ==
  /\ rpc' = [rpc EXCEPT ![r] = "idle"]
  /\ fresh' = [fresh EXCEPT ![r] = ok]
  /\ wanted' = [wanted EXCEPT ![r] = IF ok THEN @ ELSE Absent]
  /\ asked' = [asked EXCEPT ![r] = IF ok THEN @ ELSE {}]

(* ls-remote.  A branch nothing was merged to yet is current at once. *)
Ask(r) ==
  /\ rpc[r] = "idle"
  /\ \E b \in Refreshed :
       /\ remote[b] # {}
       /\ wanted' = [wanted EXCEPT ![r] = b]
       /\ asked' = [asked EXCEPT ![r] = remote[b]]
  /\ rpc' = [rpc EXCEPT ![r] = "asked"]
  /\ fresh' = [fresh EXCEPT ![r] = FALSE]
  /\ UNCHANGED <<remoteVars, refs, clone, work, lock, syncVars, troubles>>

(* A current ref is accepted wherever it is looked at: without the lock, at  *)
(* each poll while another process has the lock, and under the lock.       *)
Accept(r) ==
  /\ rpc[r] = "asked"
  /\ AtOrPast(r)
  /\ Exit(r, TRUE)
  /\ UNCHANGED <<remoteVars, refs, clone, work, lock, syncVars, troubles>>

(* The wait for the lock ends. *)
GiveUp(r) ==
  /\ rpc[r] = "asked"
  /\ ~ AtOrPast(r) /\ lock # Nobody
  /\ Exit(r, FALSE)
  /\ UNCHANGED <<remoteVars, refs, clone, work, lock, syncVars, troubles>>

TakeLockToFetch(r) ==
  /\ rpc[r] = "asked"
  /\ ~ AtOrPast(r) /\ lock = Nobody
  /\ lock' = r
  /\ rpc' = [rpc EXCEPT ![r] = "fetching"]
  /\ UNCHANGED <<remoteVars, refs, clone, work, syncVars, wanted, asked, fresh,
                 troubles>>

RefreshFetch(r) ==
  /\ rpc[r] = "fetching"
  /\ \/ /\ FetchBranch(wanted[r])
        /\ Exit(r, asked[r] \subseteq remote[wanted[r]])
        /\ UNCHANGED troubles
     \/ /\ Fault("fetch")
        /\ Exit(r, FALSE)
        /\ UNCHANGED refs
  /\ lock' = Nobody
  /\ UNCHANGED <<remoteVars, clone, work, syncVars>>

Refresh(r) ==
  Ask(r) \/ Accept(r) \/ GiveUp(r) \/ TakeLockToFetch(r) \/ RefreshFetch(r)

-----------------------------------------------------------------------------
(* The remote: merges on GitHub. *)

OnRemote == UNION {remote[b] : b \in Branches}

Merge(b) ==
  /\ \/ \E c \in Changes \ OnRemote :
          remote' = [remote EXCEPT ![b] = @ \cup {c}]
     \/ \E d \in Branches : remote' = [remote EXCEPT ![b] = @ \cup remote[d]]
  /\ UNCHANGED <<remoteDefault, refs, clone, work, lock, syncVars,
                 refreshVars, troubles>>

(* The lanes that work in the clone. *)

LaneMove ==
  /\ Trouble
  /\ \/ \E c \in Changes :
          /\ unstaged' = unstaged \cup {c}
          /\ UNCHANGED <<busy, stray, local>>
     \/ busy' = TRUE /\ UNCHANGED <<unstaged, stray, local>>
     \/ stray' = TRUE /\ UNCHANGED <<unstaged, busy, local>>
     \/ \E c \in LaneChanges :
          /\ local' = [local EXCEPT ![head] = @ \cup {c}]
          /\ UNCHANGED <<unstaged, busy, stray>>
  /\ UNCHANGED <<remoteVars, refs, head, shared, overtaken, lock, syncVars,
                 refreshVars>>

(* Lanes clean up behind them. *)
LanesDone ==
  /\ unstaged' = {} /\ busy' = FALSE /\ stray' = FALSE
  /\ UNCHANGED <<remoteVars, refs, clone, lock, syncVars, refreshVars, troubles>>

(* A fetch that does not ask for the clone lock: of a lane, or of pull-all. *)
LaneFetch ==
  /\ tracking # remote
  /\ Fault("plain-fetch")
  /\ tracking' = remote
  /\ UNCHANGED <<remoteVars, symref, clone, work, lock, syncVars, refreshVars>>

Next ==
  \/ \E s \in Syncs : Sync(s) \/ Crash(s)
  \/ \E r \in Refreshers : Refresh(r)
  \/ \E b \in Branches : Merge(b)
  \/ LaneMove \/ LanesDone \/ LaneFetch

(* launchd starts a sync again and again, and whoever runs goes on. *)
Fairness ==
  /\ \A s \in Syncs : WF_vars(Sync(s))
  /\ \A r \in Refreshers : WF_vars(RefreshFetch(r))

Spec == Init /\ [][Next]_vars
FairSpec == Spec /\ Fairness

-----------------------------------------------------------------------------
(* The clone lock has one holder, who alone is between its acquisition and  *)
(* its release.                                                            *)
LockExclusive ==
  /\ \A s \in Syncs : pc[s] \in InLock <=> lock = s
  /\ \A r \in Refreshers : rpc[r] = "fetching" <=> lock = r

(* What a sync or a refresh is about to use is there. *)
Resolved ==
  /\ local[head] # Absent
  /\ \A s \in Syncs : pc[s] \in InLock \cup {"locking"} => branch[s] \in Branches
  /\ \A r \in Refreshers : rpc[r] # "idle" \/ fresh[r] => wanted[r] \in Branches

(* No tracking ref is ahead of its branch. *)
RefsBehind == \A b \in Branches : tracking[b] \subseteq remote[b]

(* The inductive invariant: every ref that is read resolves, and of all     *)
(* that move refs or the clone only the holder of the clone lock does.     *)
CloneInv == TypeOK /\ LockExclusive /\ Resolved /\ RefsBehind

(* "So the clone never serves a script that does not parse": neither after  *)
(* a fast-forward nor on the way back to the default branch, unless the     *)
(* branch had to be made and somebody moved its ref, which the sync had    *)
(* checked, before git read it.                                            *)
ServesWhatParses == overtaken \/ (local[head] # Absent /\ Parses(local[head]))

(* A refresh exits 0 "only once each ref is at or past that head", and the  *)
(* ref stays there, whoever fetched it and whoever fetches after it.       *)
FreshIsFresh ==
  \A r \in Refreshers : fresh[r] => asked[r] \subseteq tracking[wanted[r]]

(* "no reset, no stash, no clean, no force": whatever lanes do between a    *)
(* check and the move it allows, no step of a sync but a rollback takes a  *)
(* commit off a branch or an edit out of the tree.                         *)
SyncsDropNothing ==
  [][(\E s \in Syncs : pc[s] # "rolling" /\ Sync(s)) =>
       /\ unstaged \subseteq unstaged'
       /\ \A b \in Branches :
            local[b] # Absent => local[b] \subseteq local'[b]]_vars

(* Nothing keeps a sync from moving the clone. *)
Quiet ==
  /\ unstaged = {} /\ ~ busy /\ ~ stray
  /\ \A b \in Branches : local[b] # Absent => local[b] \subseteq remote[b]
  /\ Parses(remote[remoteDefault])
  /\ shared => head = remoteDefault

(* Once lanes leave nothing behind, the clone gets to the head of the       *)
(* remote's default branch, where it ends after finitely many merges, and   *)
(* its refusal is cleared, whatever was refused, raced or failed before.   *)
Current ==
  /\ head = remoteDefault
  /\ local[head] = remote[head]
  /\ ~ refused
EventuallyCurrent == <>[]Quiet => <>[]Current

(* "advanced ONLY by git merge --ff-only onto the fetched upstream of the   *)
(* branch it has checked out": a branch of the clone contains nothing that *)
(* neither its own upstream has nor a lane committed.                      *)
OnlyOwnUpstream ==
  \A b \in Branches :
    local[b] # Absent => local[b] \ remote[b] \subseteq LaneChanges

=============================================================================
