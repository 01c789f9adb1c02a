--------------------------- MODULE CloneSyncProofs ---------------------------
(***************************************************************************)
(* What holds of the canonical clone sync for any number of syncs,         *)
(* refreshes, branches and changes: the inductive invariant, that syncs    *)
(* drop nothing of a lane's, that fresh refs stay fresh, and when alone the *)
(* clone may serve what does not parse.                                    *)
(***************************************************************************)
EXTENDS CanonicalCloneSync, TLAPS

\* A fresh clone satisfies the inductive invariant.

LEMMA InvInit == Init => CloneInv
<1> SUFFICES ASSUME Init PROVE CloneInv
  OBVIOUS
<1> USE CloneAssumption DEF CloneAssumption, Init
<1>1. TypeOK
  <2>1. {} \in Commits /\ 0 \in 0..MaxTroubles
    BY DEF Commits
  <2>2. PICK bs \in Cloned : /\ local = [b \in Branches |-> IF b \in bs THEN {} ELSE Absent]
                             /\ head \in bs
    OBVIOUS
  <2>3. head \in Branches /\ local \in [Branches -> Commits \cup {Absent}]
    BY <2>1, <2>2
  <2>4. remote \in [Branches -> Commits] /\ tracking \in [Branches -> Commits]
    BY <2>1
  <2>5. /\ pc \in [Syncs -> Steps] /\ branch \in [Syncs -> Branches \cup {Absent}]
        /\ before \in [Syncs -> Commits] /\ target \in [Syncs -> Commits]
        /\ result \in [Syncs -> Results \cup {"none"}]
    BY <2>1 DEF Steps
  <2>6. /\ rpc \in [Refreshers -> {"idle", "asked", "fetching"}]
        /\ wanted \in [Refreshers -> Branches \cup {Absent}]
        /\ asked \in [Refreshers -> Commits] /\ fresh \in [Refreshers -> BOOLEAN]
    BY <2>1
  <2>7. /\ shared \in BOOLEAN /\ unstaged \in Commits /\ busy \in BOOLEAN
        /\ stray \in BOOLEAN /\ refused \in BOOLEAN /\ overtaken \in BOOLEAN
        /\ lock \in Syncs \cup Refreshers \cup {Nobody}
    BY <2>1
  <2>8. QED
    BY <2>1, <2>3, <2>4, <2>5, <2>6, <2>7 DEF TypeOK
<1>2. LockExclusive
  BY DEF LockExclusive, InLock
<1>3. Resolved
  BY DEF Resolved, InLock
<1>4. RefsBehind
  BY DEF RefsBehind
<1>5. QED
  BY <1>1, <1>2, <1>3, <1>4 DEF CloneInv

\* What a sync that ends leaves of itself is well typed.
LEMMA FinishTypes ==
  ASSUME TypeOK, NEW s \in Syncs, NEW r \in Results, Finish(s, r)
  PROVE  /\ pc' \in [Syncs -> Steps]
         /\ branch' \in [Syncs -> Branches \cup {Absent}]
         /\ before' \in [Syncs -> Commits] /\ target' \in [Syncs -> Commits]
         /\ result' \in [Syncs -> Results \cup {"none"}]
         /\ lock' = Nobody /\ refused' \in BOOLEAN
<1>1. {} \in Commits
  BY DEF Commits
<1>2. pc' \in [Syncs -> Steps] /\ branch' \in [Syncs -> Branches \cup {Absent}]
  BY DEF TypeOK, Finish, End, Goto, Steps, InLock
<1>3. before' \in [Syncs -> Commits] /\ target' \in [Syncs -> Commits]
  BY <1>1 DEF TypeOK, Finish, End
<1>4. result' \in [Syncs -> Results \cup {"none"}]
  BY DEF TypeOK, Finish, End
<1>5. lock' = Nobody /\ refused' \in BOOLEAN
  BY DEF TypeOK, Finish
<1>6. QED
  BY <1>2, <1>3, <1>4, <1>5

\* A rollback keeps the types, whichever way it ends.
LEMMA RollBackTypes ==
  ASSUME TypeOK, NEW s \in Syncs, RollBack(s)
  PROVE  TypeOK'
<1>1. "REFUSED" \in Results /\ "FAILED" \in Results /\ {} \in Commits
  BY DEF Results, Commits
<1>2. CASE /\ tracking' = remote
           /\ local' = [local EXCEPT ![head] = before[s]]
           /\ unstaged' = {} /\ busy' = FALSE
           /\ Finish(s, "REFUSED")
  <2>1. /\ local' \in [Branches -> Commits \cup {Absent}]
        /\ tracking' \in [Branches -> Commits]
    BY <1>2 DEF TypeOK
  <2>2. unstaged' \in Commits /\ busy' \in BOOLEAN
    BY <1>1, <1>2
  <2>3. QED
    BY <1>1, <1>2, <2>1, <2>2, FinishTypes
       DEF TypeOK, RollBack, remoteVars, refreshVars
<1>3. CASE /\ tracking' \in {tracking, remote}
           /\ Finish(s, "FAILED")
           /\ UNCHANGED <<local, unstaged, busy>>
  <2>1. tracking' \in [Branches -> Commits]
    BY <1>3 DEF TypeOK
  <2>2. QED
    BY <1>1, <1>3, <2>1, FinishTypes DEF TypeOK, RollBack, remoteVars, refreshVars
<1>4. QED
  BY <1>2, <1>3 DEF RollBack

\* So do a fetch of the default branch and what follows it.
LEMMA ReturnTypes ==
  ASSUME TypeOK, NEW s \in Syncs, branch[s] \in Branches, Return(s)
  PROVE  TypeOK'
<1>1. "REFUSED" \in Results /\ remote[branch[s]] \in Commits
  BY DEF Results, TypeOK
<1>2. tracking' \in [Branches -> Commits]
  BY <1>1 DEF Return, FetchBranch, TypeOK
<1>3. CASE MoveTo(s, remote[branch[s]], "switching")
  <2>1. pc' \in [Syncs -> Steps] /\ target' \in [Syncs -> Commits]
    BY <1>1, <1>3 DEF MoveTo, Goto, Steps, InLock, TypeOK
  <2>2. UNCHANGED <<lock, branch, before, result, refused>>
    BY <1>3 DEF MoveTo
  <2>3. QED
    BY <1>2, <2>1, <2>2
       DEF TypeOK, Return, FetchBranch, remoteVars, clone, work, refreshVars
<1>4. CASE Finish(s, "REFUSED")
  BY <1>1, <1>2, <1>4, FinishTypes
     DEF TypeOK, Return, FetchBranch, remoteVars, clone, work, refreshVars
<1>5. QED
  BY <1>3, <1>4 DEF Return

\* So does a switch, made or refused.
LEMMA SwitchTypes ==
  ASSUME TypeOK, NEW s \in Syncs, branch[s] \in Branches, Switch(s)
  PROVE  TypeOK'
<1>1. "REFUSED" \in Results /\ "FAILED" \in Results
  BY DEF Results
<1>2. overtaken' \in BOOLEAN
  BY Zenon DEF Switch, TypeOK
<1>3. CASE GoOn(s, "returned")
  <2>1. local' \in [Branches -> Commits \cup {Absent}] /\ head' \in Branches
    BY <1>1, <1>3 DEF Switch, TypeOK, Finish, End, GoOn, Goto
  <2>2. QED
    BY <1>2, <1>3, <2>1
       DEF TypeOK, Switch, GoOn, Goto, Steps, InLock, remoteVars, refs, work, refreshVars
<1>4. CASE UNCHANGED <<head, local>> /\ (Finish(s, "FAILED") \/ Finish(s, "REFUSED"))
  BY <1>1, <1>2, <1>4, FinishTypes
     DEF TypeOK, Switch, remoteVars, refs, work, refreshVars
<1>5. QED
  BY <1>3, <1>4 DEF Switch

\* Every step of a sync, and its death, keeps the inductive invariant.
LEMMA SyncStep ==
  ASSUME CloneInv, NEW s \in Syncs, Sync(s) \/ Crash(s)
  PROVE  CloneInv'
<1> USE CloneAssumption DEF CloneAssumption, CloneInv, TypeOK, LockExclusive,
        Resolved, RefsBehind, Commits, Steps, InLock, Results, remoteVars, refs,
        clone, work, syncVars, refreshVars, Goto, Finish, End, GoOn, Fault, Trouble,
        FetchBranch
<1>1. CASE Look(s)
  BY <1>1 DEF Look
<1>2. CASE TakeLock(s)
  BY <1>2 DEF TakeLock
<1>3. CASE LockTimesOut(s)
  BY <1>3 DEF LockTimesOut
<1>4. CASE SetHead(s)
  BY <1>4 DEF SetHead, RefreshHead
<1>5. CASE Follow(s)
  BY <1>5 DEF Follow, MoveTo
<1>6. CASE Return(s)
  <2>1. branch[s] \in Branches
    BY <1>6 DEF Return
  <2>2. TypeOK'
    BY <1>6, <2>1, ReturnTypes
  <2>3. LockExclusive'
    BY <1>6 DEF Return, MoveTo
  <2>4. Resolved'
    BY <1>6 DEF Return, MoveTo
  <2>5. RefsBehind'
    BY <1>6 DEF Return
  <2>6. QED
    BY <2>2, <2>3, <2>4, <2>5
<1>7. CASE FetchFails(s)
  BY <1>7 DEF FetchFails
<1>8. CASE Switch(s)
  <2>1. TypeOK'
    <3>1. branch[s] \in Branches
      BY <1>8 DEF Switch
    <3>2. QED
      BY <1>8, <3>1, SwitchTypes
  <2>2. LockExclusive'
    BY <1>8 DEF Switch
  <2>3. Resolved'
    BY <1>8 DEF Switch
  <2>4. RefsBehind'
    BY <1>8 DEF Switch
  <2>5. QED
    BY <2>1, <2>2, <2>3, <2>4
<1>9. CASE FastForward(s)
  BY <1>9 DEF FastForward
<1>10. CASE MergeStays(s)
  BY <1>10 DEF MergeStays
<1>11. CASE ReadBack(s)
  BY <1>11 DEF ReadBack
<1>12. CASE RollBack(s)
  <2>1. TypeOK'
    BY <1>12, RollBackTypes
  <2>2. LockExclusive'
    BY <1>12 DEF RollBack
  <2>3. Resolved'
    BY <1>12 DEF RollBack
  <2>4. RefsBehind'
    BY <1>12 DEF RollBack
  <2>5. QED
    BY <2>1, <2>2, <2>3, <2>4
<1>13. CASE Track(s)
  <2>0. refused' \in BOOLEAN
    BY <1>13, Zenon DEF Track
  <2>1. TypeOK'
    BY <1>13, <2>0 DEF Track
  <2>2. LockExclusive'
    BY <1>13 DEF Track
  <2>3. Resolved'
    BY <1>13 DEF Track
  <2>4. RefsBehind'
    BY <1>13 DEF Track
  <2>5. QED
    BY <2>1, <2>2, <2>3, <2>4
<1>14. CASE Crash(s)
  BY <1>14 DEF Crash
<1>15. QED
  BY <1>1, <1>2, <1>3, <1>4, <1>5, <1>6, <1>7, <1>8, <1>9, <1>10, <1>11,
     <1>12, <1>13, <1>14 DEF Sync

\* A refresh that ends leaves its record well typed.
LEMMA ExitTypes ==
  ASSUME TypeOK, NEW r \in Refreshers, NEW ok \in BOOLEAN, Exit(r, ok)
  PROVE  /\ rpc' \in [Refreshers -> {"idle", "asked", "fetching"}]
         /\ wanted' \in [Refreshers -> Branches \cup {Absent}]
         /\ asked' \in [Refreshers -> Commits]
         /\ fresh' \in [Refreshers -> BOOLEAN]
<1>1. rpc' \in [Refreshers -> {"idle", "asked", "fetching"}]
  BY DEF TypeOK, Exit
<1>2. wanted' \in [Refreshers -> Branches \cup {Absent}]
  BY DEF TypeOK, Exit
<1>3. asked' \in [Refreshers -> Commits]
  <2>1. {} \in Commits
    BY DEF Commits
  <2>2. QED
    BY <2>1 DEF TypeOK, Exit
<1>4. fresh' \in [Refreshers -> BOOLEAN]
  BY DEF TypeOK, Exit
<1>5. QED
  BY <1>1, <1>2, <1>3, <1>4

\* Every step of a refresh keeps it.
LEMMA RefreshStep ==
  ASSUME CloneInv, NEW r \in Refreshers, Refresh(r)
  PROVE  CloneInv'
<1> USE CloneAssumption DEF CloneAssumption, CloneInv, TypeOK, LockExclusive,
        Resolved, RefsBehind, Commits, Steps, InLock, Results, remoteVars, refs,
        clone, work, syncVars, refreshVars, Exit, Fault, Trouble, FetchBranch
<1>1. CASE Ask(r)
  BY <1>1 DEF Ask
<1>2. CASE Accept(r)
  BY <1>2 DEF Accept
<1>3. CASE GiveUp(r)
  BY <1>3 DEF GiveUp
<1>4. CASE TakeLockToFetch(r)
  BY <1>4 DEF TakeLockToFetch
<1>5. CASE RefreshFetch(r)
  <2> DEFINE ok == asked[r] \subseteq remote[wanted[r]]
  <2>0. Exit(r, TRUE) \/ Exit(r, FALSE)
    <3>1. CASE ok
      <4>1. ok = TRUE
        BY <3>1
      <4>2. QED
        BY <1>5, <4>1, Zenon DEF RefreshFetch
    <3>2. CASE ~ ok
      <4>1. ok = FALSE
        BY <3>2
      <4>2. QED
        BY <1>5, <4>1, Zenon DEF RefreshFetch
    <3>3. QED
      BY <3>1, <3>2
  <2> HIDE DEF ok
  <2>1. TypeOK'
    <3>1. tracking' \in [Branches -> Commits] /\ symref' \in Branches
      BY <1>5 DEF RefreshFetch
    <3>2. /\ rpc' \in [Refreshers -> {"idle", "asked", "fetching"}]
          /\ wanted' \in [Refreshers -> Branches \cup {Absent}]
          /\ asked' \in [Refreshers -> Commits]
          /\ fresh' \in [Refreshers -> BOOLEAN]
      BY <2>0, ExitTypes
    <3>3. /\ troubles' \in 0..MaxTroubles /\ lock' = Nobody
          /\ UNCHANGED <<remoteVars, clone, work, syncVars>>
      BY <1>5 DEF RefreshFetch
    <3>4. QED
      BY <3>1, <3>2, <3>3
  <2>2. LockExclusive'
    BY <1>5, <2>0 DEF RefreshFetch
  <2>3. Resolved'
    <3>1. UNCHANGED <<clone, syncVars>>
      BY <1>5 DEF RefreshFetch
    <3>2. rpc[r] = "fetching"
      BY <1>5 DEF RefreshFetch
    <3>3. QED
      BY <2>0, <3>1, <3>2
  <2>4. RefsBehind'
    BY <1>5 DEF RefreshFetch
  <2>5. QED
    BY <2>1, <2>2, <2>3, <2>4
<1>6. QED
  BY <1>1, <1>2, <1>3, <1>4, <1>5 DEF Refresh

\* What happens on the remote, and what lanes do, moves no lock.
LEMMA OutsideStep ==
  ASSUME CloneInv,
         (\E b \in Branches : Merge(b)) \/ LaneMove \/ LanesDone \/ LaneFetch
  PROVE  CloneInv'
<1> USE CloneAssumption DEF CloneAssumption, CloneInv, TypeOK, LockExclusive,
        Resolved, RefsBehind, Commits, remoteVars, refs, clone, work, syncVars,
        refreshVars, Fault, Trouble
<1>1. ASSUME NEW b \in Branches, Merge(b) PROVE CloneInv'
  BY <1>1 DEF Merge
<1>2. CASE LaneMove
  <2>1. local[head] \in Commits /\ LaneChanges \subseteq Changes
    OBVIOUS
  <2>2. local' \in [Branches -> Commits \cup {Absent}] /\ local'[head] # Absent
    BY <1>2, <2>1 DEF LaneMove
  <2>3. /\ unstaged' \in Commits
        /\ busy' \in BOOLEAN /\ stray' \in BOOLEAN
    <3>1. unstaged' = unstaged \/ \E c \in Changes : unstaged' = unstaged \cup {c}
      BY <1>2 DEF LaneMove
    <3>2. busy' \in {busy, TRUE} /\ stray' \in {stray, TRUE}
      BY <1>2, Zenon DEF LaneMove
    <3>3. unstaged' \in Commits
      BY <3>1
    <3>4. busy' \in BOOLEAN /\ stray' \in BOOLEAN
      BY <3>2, Zenon
    <3>5. QED
      BY <3>3, <3>4
  <2>4. /\ troubles' \in 0..MaxTroubles
        /\ UNCHANGED <<remoteVars, refs, head, shared, overtaken, lock, syncVars,
                       refreshVars>>
    BY <1>2 DEF LaneMove
  <2>5. QED
    BY <2>2, <2>3, <2>4
<1>3. CASE LanesDone
  BY <1>3 DEF LanesDone
<1>4. CASE LaneFetch
  BY <1>4 DEF LaneFetch
<1>5. QED
  BY <1>1, <1>2, <1>3, <1>4

\* Every step of the system keeps it.
LEMMA InvStep == CloneInv /\ [Next]_vars => CloneInv'
<1>1. ASSUME CloneInv, UNCHANGED vars PROVE CloneInv'
  BY <1>1 DEF CloneInv, TypeOK, LockExclusive, Resolved, RefsBehind, vars,
     remoteVars, refs, clone, work, syncVars, refreshVars
<1>2. QED
  BY <1>1, SyncStep, RefreshStep, OutsideStep DEF Next

(* The inductive invariant, for any number of syncs and refreshes.         *)
THEOREM CloneInvariant == Spec => []CloneInv
  BY InvInit, InvStep, PTL DEF Spec

-----------------------------------------------------------------------------
(* Whatever lanes do between a check and the move it allows, no step of a   *)
(* sync but a rollback takes a commit off a branch or an edit out of the   *)
(* tree: git looks again where the sync looked before.                     *)
THEOREM NothingDropped == Spec => SyncsDropNothing
<1>1. ASSUME CloneInv, NEW s \in Syncs, pc[s] # "rolling", Sync(s)
      PROVE  /\ unstaged \subseteq unstaged'
             /\ \A b \in Branches : local[b] # Absent => local[b] \subseteq local'[b]
  <2> USE <1>1 DEF CloneInv, TypeOK
  <2>1. CASE FastForward(s)
    BY <2>1 DEF FastForward, work
  <2>2. CASE Switch(s)
    BY <2>2 DEF Switch, work
  <2>3. CASE RollBack(s)
    BY <2>3 DEF RollBack
  <2>4. CASE Look(s) \/ TakeLock(s) \/ LockTimesOut(s) \/ SetHead(s) \/ Follow(s)
             \/ Return(s) \/ FetchFails(s) \/ MergeStays(s) \/ ReadBack(s) \/ Track(s)
    BY <2>4 DEF Look, TakeLock, LockTimesOut, SetHead, Follow, Return, FetchFails,
       MergeStays, ReadBack, Track, clone, work
  <2>5. QED
    BY <2>1, <2>2, <2>3, <2>4 DEF Sync
<1>2. CloneInv /\ [Next]_vars =>
        [(\E s \in Syncs : pc[s] # "rolling" /\ Sync(s)) =>
           /\ unstaged \subseteq unstaged'
           /\ \A b \in Branches :
                local[b] # Absent => local[b] \subseteq local'[b]]_vars
  BY <1>1
<1>3. QED
  BY <1>2, CloneInvariant, PTL DEF Spec, SyncsDropNothing

-----------------------------------------------------------------------------
\* No fetch takes anything off a tracking ref.
LEMMA TrackingGrows ==
  ASSUME CloneInv, [Next]_vars
  PROVE  \A b \in Branches : tracking[b] \subseteq tracking'[b]
<1> USE DEF CloneInv, TypeOK, RefsBehind, Resolved
<1>1. ASSUME NEW s \in Syncs, Sync(s) \/ Crash(s)
      PROVE  \A b \in Branches : tracking[b] \subseteq tracking'[b]
  <2>1. CASE Follow(s) \/ Return(s)
    <3>1. branch[s] \in Branches
      BY <2>1 DEF Follow, Return, InLock
    <3>2. QED
      BY <2>1, <3>1 DEF Follow, Return, FetchBranch
  <2>2. CASE RollBack(s)
    BY <2>2 DEF RollBack
  <2>3. CASE SetHead(s)
    BY <2>3 DEF SetHead
  <2>4. CASE Look(s) \/ TakeLock(s) \/ LockTimesOut(s) \/ FetchFails(s) \/ Switch(s)
             \/ FastForward(s) \/ MergeStays(s) \/ ReadBack(s) \/ Track(s) \/ Crash(s)
    BY <2>4 DEF Look, TakeLock, LockTimesOut, FetchFails, Switch, FastForward,
       MergeStays, ReadBack, Track, Crash, refs
  <2>5. QED
    BY <1>1, <2>1, <2>2, <2>3, <2>4 DEF Sync
<1>2. ASSUME NEW r \in Refreshers, Refresh(r)
      PROVE  \A b \in Branches : tracking[b] \subseteq tracking'[b]
  <2>1. CASE RefreshFetch(r)
    <3>1. wanted[r] \in Branches
      BY <2>1 DEF RefreshFetch
    <3>2. QED
      BY <2>1, <3>1 DEF RefreshFetch, FetchBranch, refs
  <2>2. QED
    BY <1>2, <2>1 DEF Refresh, Ask, Accept, GiveUp, TakeLockToFetch, refs
<1>3. ASSUME NEW b \in Branches, Merge(b) PROVE UNCHANGED tracking
  BY <1>3 DEF Merge, refs
<1>4. CASE LaneMove \/ LanesDone \/ LaneFetch
  BY <1>4 DEF LaneMove, LanesDone, LaneFetch, refs
<1>5. CASE UNCHANGED vars
  BY <1>5 DEF vars, refs
<1>6. QED
  BY <1>1, <1>2, <1>3, <1>4, <1>5 DEF Next

\* Only a refresh changes what it was told and what it answered.
LEMMA RefreshAlone ==
  ASSUME [Next]_vars
  PROVE  UNCHANGED refreshVars \/ \E r \in Refreshers : Refresh(r)
<1>1. ASSUME NEW s \in Syncs, Sync(s) \/ Crash(s) PROVE UNCHANGED refreshVars
  BY <1>1 DEF Sync, Look, TakeLock, LockTimesOut, SetHead, Follow, Return, FetchFails,
     Switch, FastForward, MergeStays, ReadBack, RollBack, Track, Crash
<1>2. ASSUME NEW b \in Branches, Merge(b) PROVE UNCHANGED refreshVars
  BY <1>2 DEF Merge
<1>3. CASE LaneMove \/ LanesDone \/ LaneFetch \/ UNCHANGED vars
  BY <1>3 DEF LaneMove, LanesDone, LaneFetch, vars
<1>4. QED
  BY <1>1, <1>2, <1>3 DEF Next

\* A refresh ends as fresh only when the ref is there.
LEMMA FreshAnswer ==
  ASSUME CloneInv, FreshIsFresh, NEW r \in Refreshers, Refresh(r)
  PROVE  fresh'[r] => asked'[r] \subseteq tracking'[wanted'[r]]
<1> USE DEF CloneInv, TypeOK, Resolved
<1>1. CASE Ask(r)
  BY <1>1 DEF Ask
<1>2. CASE Accept(r)
  BY <1>2 DEF Accept, Exit, AtOrPast, refs
<1>3. CASE GiveUp(r)
  BY <1>3 DEF GiveUp, Exit
<1>4. CASE TakeLockToFetch(r)
  BY <1>4 DEF TakeLockToFetch, refs, FreshIsFresh
<1>5. CASE RefreshFetch(r)
  <2>1. wanted[r] \in Branches
    BY <1>5 DEF RefreshFetch
  <2>2. CASE FetchBranch(wanted[r]) /\ Exit(r, asked[r] \subseteq remote[wanted[r]])
    <3>1. tracking'[wanted[r]] = remote[wanted[r]]
      BY <2>1, <2>2 DEF FetchBranch
    <3>2. /\ fresh'[r] = (asked[r] \subseteq remote[wanted[r]])
          /\ fresh'[r] => wanted'[r] = wanted[r] /\ asked'[r] = asked[r]
      BY <2>2 DEF Exit
    <3>3. QED
      BY <3>1, <3>2
  <2>3. CASE Exit(r, FALSE)
    BY <2>3 DEF Exit
  <2>4. QED
    BY <1>5, <2>2, <2>3 DEF RefreshFetch
<1>6. QED
  BY <1>1, <1>2, <1>3, <1>4, <1>5 DEF Refresh

(* A refresh that exits 0 leaves its ref at or past the head it was told,   *)
(* and it stays there, whoever fetched it.                                 *)
THEOREM FreshStaysFresh == Spec => []FreshIsFresh
<1>1. Init => FreshIsFresh
  BY DEF Init, FreshIsFresh
<1>2. ASSUME CloneInv, FreshIsFresh, [Next]_vars PROVE FreshIsFresh'
  <2>1. ASSUME NEW q \in Refreshers, fresh'[q],
               wanted'[q] = wanted[q], asked'[q] = asked[q], fresh'[q] = fresh[q]
        PROVE  asked'[q] \subseteq tracking'[wanted'[q]]
    <3>1. wanted[q] \in Branches /\ asked[q] \subseteq tracking[wanted[q]]
      BY <1>2, <2>1 DEF CloneInv, Resolved, FreshIsFresh
    <3>2. QED
      BY <1>2, <2>1, <3>1, TrackingGrows
  <2>2. CASE UNCHANGED refreshVars
    BY <2>1, <2>2 DEF refreshVars, FreshIsFresh
  <2>3. ASSUME NEW r \in Refreshers, Refresh(r) PROVE FreshIsFresh'
    <3>1. ASSUME NEW q \in Refreshers, q # r
          PROVE  /\ wanted'[q] = wanted[q] /\ asked'[q] = asked[q]
                 /\ fresh'[q] = fresh[q]
      BY <1>2, <2>3, <3>1
      DEF Refresh, Ask, Accept, GiveUp, TakeLockToFetch, RefreshFetch, Exit,
          CloneInv, TypeOK
    <3>2. QED
      BY <1>2, <2>1, <2>3, <3>1, FreshAnswer DEF FreshIsFresh
  <2>4. QED
    BY <1>2, <2>2, <2>3, RefreshAlone
<1>3. QED
  BY <1>1, <1>2, CloneInvariant, PTL DEF Spec

-----------------------------------------------------------------------------
(* What is served, and may be served next, parses: every local branch, what *)
(* a sync has checked and is on its way to, what it would roll back to.     *)
Parsed ==
  /\ \A b \in Branches : local[b] # Absent => Parses(local[b])
  /\ \A s \in Syncs :
       /\ pc[s] \in InLock => Parses(before[s])
       /\ pc[s] \in {"merging", "switching", "returned"} => Parses(target[s])

(* That ends where a branch is made from a ref that has moved, only there.  *)
Checked == overtaken \/ Parsed

\* A fresh clone has nothing that could fail to parse.
LEMMA CheckedInit == Init => Checked
<1> SUFFICES ASSUME Init PROVE Parsed
  BY DEF Checked
<1>1. PICK bs \in Cloned :
        local = [b \in Branches |-> IF b \in bs THEN {} ELSE Absent]
  BY DEF Init
<1>2. QED
  BY <1>1 DEF Init, Parsed, Parses, InLock

\* Two syncs are never both in the lock.
LEMMA OneInLock ==
  ASSUME CloneInv, NEW s \in Syncs, NEW t \in Syncs, pc[s] \in InLock,
         pc[t] \in InLock
  PROVE  s = t
  BY DEF CloneInv, LockExclusive

\* What was overtaken once stays so.
LEMMA OvertakenStays == overtaken /\ [Next]_vars => overtaken'
<1>1. ASSUME overtaken, NEW s \in Syncs, Switch(s) PROVE overtaken'
  BY <1>1, Zenon DEF Switch
<1>2. ASSUME NEW s \in Syncs, Sync(s) \/ Crash(s), ~ Switch(s)
      PROVE  UNCHANGED overtaken
  BY <1>2 DEF Sync, Look, TakeLock, LockTimesOut, SetHead, Follow, Return, FetchFails,
     FastForward, MergeStays, ReadBack, RollBack, Track, Crash, clone
<1>3. ASSUME NEW r \in Refreshers, Refresh(r) PROVE UNCHANGED overtaken
  BY <1>3 DEF Refresh, Ask, Accept, GiveUp, TakeLockToFetch, RefreshFetch, clone
<1>4. ASSUME NEW b \in Branches, Merge(b) PROVE UNCHANGED overtaken
  BY <1>4 DEF Merge, clone
<1>5. CASE LaneMove \/ LanesDone \/ LaneFetch \/ UNCHANGED vars
  <2>1. UNCHANGED overtaken
    BY <1>5 DEF LaneMove, LanesDone, LaneFetch, vars, clone
  <2>2. QED
    BY <2>1, Zenon
<1>6. QED
  BY <1>1, <1>2, <1>3, <1>4, <1>5, Zenon DEF Next

\* A switch ends on what was checked, or it was overtaken.
LEMMA SwitchParsed ==
  ASSUME CloneInv, Parsed, NEW s \in Syncs, Switch(s), ~ overtaken'
  PROVE  Parsed'
<1> USE DEF CloneInv, TypeOK, Parsed, Resolved, InLock
<1> DEFINE b == branch[s]
           to == IF local[b] = Absent THEN tracking[b] ELSE local[b]
<1>1. CASE /\ local' = [local EXCEPT ![b] = to]
           /\ overtaken' = (overtaken \/ (local[b] = Absent /\ to # target[s]))
           /\ GoOn(s, "returned")
  <2>1. pc[s] = "switching" /\ b \in Branches
    BY DEF Switch
  <2>2. local[b] = Absent => to = target[s]
    BY <1>1, Zenon
  <2>3. Parses(to)
    BY <2>1, <2>2
  <2>4. \A c \in Branches : local'[c] = IF c = b THEN to ELSE local[c]
    BY <1>1, <2>1
  <2>5. \A c \in Branches : local'[c] # Absent => Parses(local'[c])
    BY <2>3, <2>4
  <2>6. UNCHANGED <<before, target>> /\ pc' = [pc EXCEPT ![s] = "returned"]
    BY <1>1 DEF GoOn, Goto
  <2>7. QED
    BY <2>1, <2>5, <2>6
<1>2. CASE UNCHANGED local /\ (Finish(s, "FAILED") \/ Finish(s, "REFUSED"))
  BY <1>2, OneInLock DEF Switch, Finish, End, Goto
<1>3. QED
  BY <1>1, <1>2, Zenon DEF Switch

\* No step of a sync moves the clone to what it has not checked, unless it
\* was overtaken.
LEMMA ParsedSync ==
  ASSUME CloneInv, Parsed, NEW s \in Syncs, Sync(s) \/ Crash(s), ~ overtaken'
  PROVE  Parsed'
<1> USE DEF CloneInv, TypeOK, Parsed, Resolved, InLock
<1>1. CASE Look(s) \/ LockTimesOut(s) \/ Track(s) \/ Crash(s)
  BY <1>1 DEF Look, LockTimesOut, Track, Crash, End, Goto, clone, refs
<1>2. CASE TakeLock(s)
  BY <1>2 DEF TakeLock, Goto, clone, refs
<1>3. CASE SetHead(s)
  BY <1>3, OneInLock DEF SetHead, Goto, clone
<1>4. CASE Follow(s)
  BY <1>4, OneInLock DEF Follow, MoveTo, Finish, End, Goto, Movable, FetchBranch, clone
<1>5. CASE Return(s)
  BY <1>5, OneInLock
  DEF Return, MoveTo, Finish, End, Goto, Returnable, FetchBranch, clone
<1>6. CASE FetchFails(s) \/ MergeStays(s) \/ ReadBack(s)
  BY <1>6, OneInLock
  DEF FetchFails, MergeStays, ReadBack, Finish, End, GoOn, Goto, clone, refs
<1>7. CASE Switch(s)
  BY <1>7, SwitchParsed
<1>8. CASE FastForward(s)
  BY <1>8, OneInLock DEF FastForward, Finish, End, GoOn, Goto, refs
<1>9. CASE RollBack(s)
  BY <1>9, OneInLock DEF RollBack, Finish, End, Goto
<1>10. QED
  BY <1>1, <1>2, <1>3, <1>4, <1>5, <1>6, <1>7, <1>8, <1>9 DEF Sync

\* Nor does anybody else.
LEMMA ParsedElse ==
  ASSUME CloneInv, Parsed, [Next]_vars, ~ \E s \in Syncs : Sync(s) \/ Crash(s)
  PROVE  Parsed'
<1> USE DEF CloneInv, TypeOK, Parsed, Resolved, InLock
<1>1. ASSUME NEW r \in Refreshers, Refresh(r) PROVE Parsed'
  <2>1. UNCHANGED <<local, pc, before, target>>
    BY <1>1 DEF Refresh, Ask, Accept, GiveUp, TakeLockToFetch, RefreshFetch, clone,
       syncVars
  <2>2. QED
    BY <2>1
<1>2. ASSUME NEW b \in Branches, Merge(b) PROVE Parsed'
  BY <1>2 DEF Merge, refs, clone, syncVars
<1>3. CASE LaneMove
  <2>1. UNCHANGED <<pc, before, target>>
    BY <1>3 DEF LaneMove, syncVars
  <2>2. CASE UNCHANGED local
    BY <2>1, <2>2
  <2>3. ASSUME NEW c \in LaneChanges,
               local' = [local EXCEPT ![head] = local[head] \cup {c}]
        PROVE  Parsed'
    <3>1. Parses(local[head]) /\ Parses(local[head] \cup {c})
      BY CloneAssumption DEF CloneAssumption, Parses
    <3>2. /\ local'[head] = local[head] \cup {c}
          /\ \A b \in Branches : b # head => local'[b] = local[b]
      BY <2>3
    <3>3. ASSUME NEW b \in Branches, local'[b] # Absent PROVE Parses(local'[b])
      BY <3>1, <3>2, <3>3
    <3>4. QED
      BY <2>1, <3>3
  <2>4. QED
    BY <1>3, <2>2, <2>3 DEF LaneMove
<1>4. CASE LanesDone \/ LaneFetch \/ UNCHANGED vars
  BY <1>4 DEF LanesDone, LaneFetch, vars, refs, clone, syncVars
<1>5. QED
  BY <1>1, <1>2, <1>3, <1>4 DEF Next

(* The clone never serves a commit whose hook scripts do not parse, however *)
(* the syncs, the lanes, fetches past the clone lock and the remote         *)
(* interleave and wherever a sync is killed, but for one way: git makes the *)
(* local branch from a ref that somebody has moved since it was checked.   *)
THEOREM ServedParses == Spec => []ServesWhatParses
<1>1. ASSUME CloneInv, Checked, [Next]_vars PROVE Checked'
  <2>1. CASE overtaken
    BY <1>1, <2>1, OvertakenStays, Zenon DEF Checked
  <2>2. CASE ~ overtaken /\ ~ overtaken'
    <3>1. Parsed
      BY <1>1, <2>2, Zenon DEF Checked
    <3>2. Parsed'
      BY <1>1, <2>2, <3>1, ParsedSync, ParsedElse
    <3>3. QED
      BY <3>2, Zenon DEF Checked
  <2>3. QED
    BY <2>1, <2>2, Zenon DEF Checked
<1>2. CloneInv /\ Checked => ServesWhatParses
  BY DEF CloneInv, TypeOK, Resolved, Checked, Parsed, ServesWhatParses
<1>3. QED
  BY <1>1, <1>2, CheckedInit, CloneInvariant, PTL DEF Spec
=============================================================================
