------------------------- MODULE SessionStateProofs -------------------------
(***************************************************************************)
(* Proofs about SessionState: its types, that the index is changed by       *)
(* whoever holds the lock and by whole operations, that active runs keep   *)
(* their documents, and that the index names no run without one.           *)
(***************************************************************************)
EXTENDS SessionState, WellFoundedInduction, TLAPS

USE DEF indexVars

(* Types of what the hooks have in memory. *)
HookTypes ==
  /\ pc \in [Hooks -> StartSteps \cup EndSteps \cup {"idle"}]
  /\ of \in [Hooks -> Sessions \cup {NoSession}]
  /\ run \in [Hooks -> Runs \cup {NoRun}]
  /\ ctx \in [Hooks -> Docs \cup {NoDoc}]
  /\ seen \in [Hooks -> Indices]
  /\ todo \in [Hooks -> SUBSET Runs]
  /\ victim \in [Hooks -> Runs \cup {NoRun}]
  /\ removed \in [Hooks -> SUBSET Runs]

StartOf == {"spawned", "init"}
WithRun == {"register", "registering", "undo", "read", "end", "clear", "clearing"}

(* What a hook has at each of its steps. *)
Equipped ==
  \A p \in Hooks :
    /\ pc[p] \in StartOf => of[p] \in Sessions
    /\ pc[p] \in WithRun => run[p] \in Runs
    /\ pc[p] = "end" => ctx[p] \in Docs
    /\ pc[p] = "unlink" => victim[p] \in Runs

IndexInv == TypeOK /\ Equipped /\ LockedIndex

(* What the collector is about to unlink is nothing any more, has ended, or *)
(* is an orphan: whatever happens between its reading and the unlink.      *)
Doomed ==
  \A p \in Hooks :
    pc[p] = "unlink" => \/ docs[victim[p]] = NoDoc
                        \/ docs[victim[p]].state = "run_ended"
                        \/ docs[victim[p]].age = Old

(* The run that an init has not registered yet is known to that init only,  *)
(* and its document is as the init wrote it.                               *)
Young(r) == docs[r] # NoDoc /\ docs[r].state = "run_active" /\ docs[r].age = Fresh

Private ==
  \A p \in Hooks :
    pc[p] \in {"register", "registering", "undo"}
      => /\ run[p] \notin Named(index)
         /\ \A q \in Hooks : q # p => run[q] # run[p]
         /\ Young(run[p])

(* What a collector has unlinked is on its mind until it has pruned it. *)
Remembered ==
  \A p \in Hooks :
    pc[p] \notin {"scan", "unlink", "prune", "pruning"} => removed[p] = {}

NamesInv == Private /\ Remembered /\ IndexNamesRuns

-----------------------------------------------------------------------------
(* The operations on the index. *)

LEMMA Least ==
  ASSUME NEW S, S \subseteq Nat, S # {}
  PROVE  \E m \in S : \A k \in S : m <= k
<1> DEFINE R == {ss \in Nat \X Nat : ss[1] < ss[2]}
<1>1. IsWellFoundedOn(R, Nat)
  BY NatLessThanWellFounded, Zenon DEF OpToRel
<1>2. PICK m \in S : \A k \in S : <<k, m>> \notin R
  BY <1>1, WFMin
<1>3. \A k \in S : ~ k < m
  BY <1>2
<1>4. \A k \in S : m <= k
  BY <1>3
<1>5. QED
  BY <1>4

LEMMA WithoutSpec ==
  ASSUME NEW T, NEW s \in Seq(T), NEW S
  PROVE  /\ Without(s, S) \in Seq(T)
         /\ Len(Without(s, S)) <= Len(s)
         /\ \A i \in DOMAIN Without(s, S) :
              Without(s, S)[i] \notin S /\ \E j \in DOMAIN s : Without(s, S)[i] = s[j]
<1> DEFINE Rule(f, i) == IF i = 0 THEN <<>>
                         ELSE IF s[i] \in S THEN f[i - 1] ELSE Append(f[i - 1], s[i])
           Built(f) == f = [i \in 0..Len(s) |-> Rule(f, i)]
           Part(n) == \E f : \A i \in 0..n : f[i] = Rule(f, i)
           Good(k, i) == /\ k[i] \in Seq(T) /\ Len(k[i]) <= i
                         /\ \A j \in 1..Len(k[i]) :
                              k[i][j] \notin S /\ \E h \in 1..Len(s) : k[i][j] = s[h]
<1>1. \A n \in 0..Len(s) : Part(n)
  <2> SUFFICES ASSUME {n \in 0..Len(s) : ~ Part(n)} # {} PROVE FALSE
    OBVIOUS
  <2>1. PICK m \in 0..Len(s) : ~ Part(m) /\ \A k \in 0..Len(s) : ~ Part(k) => m <= k
    <3> HIDE DEF Part
    <3>1. {n \in 0..Len(s) : ~ Part(n)} \subseteq Nat
      OBVIOUS
    <3>2. QED
      BY <3>1, Least
  <2>2. m # 0
    <3>1. \A i \in 0..0 : [x \in {0} |-> <<>>][i] = Rule([x \in {0} |-> <<>>], i)
      OBVIOUS
    <3>2. QED
      BY <2>1, <3>1
  <2>3. PICK f : \A i \in 0..(m - 1) : f[i] = Rule(f, i)
    <3>1. m - 1 \in 0..Len(s) /\ ~ m <= m - 1
      BY <2>1, <2>2
    <3>2. Part(m - 1)
      <4> HIDE DEF Part
      <4> QED
        BY <2>1, <3>1
    <3>3. QED
      BY <3>2
  <2> DEFINE g == [i \in 0..m |-> IF i = m THEN Rule(f, m) ELSE f[i]]
  <2>4. ASSUME NEW i \in 0..m PROVE g[i] = Rule(g, i)
    <3>1. CASE i = m
      BY <2>2, <3>1
    <3>2. CASE i # m
      <4>1. i \in 0..(m - 1) /\ g[i] = Rule(f, i)
        BY <2>3, <3>2
      <4>2. i # 0 => i - 1 \in 0..m /\ i - 1 # m
        BY <4>1
      <4>3. QED
        BY <4>1, <4>2
    <3>3. QED
      BY <3>1, <3>2
  <2>5. QED
    BY <2>1, <2>4
<1>2. \E f : Built(f)
  <2>1. Len(s) \in 0..Len(s)
    OBVIOUS
  <2>2. PICK f : \A i \in 0..Len(s) : f[i] = Rule(f, i)
    BY <1>1, <2>1
  <2> DEFINE g == [i \in 0..Len(s) |-> f[i]]
  <2>3. ASSUME NEW i \in 0..Len(s) PROVE g[i] = Rule(g, i)
    <3>1. i # 0 => i - 1 \in 0..Len(s)
      OBVIOUS
    <3>2. QED
      BY <2>2, <3>1
  <2>4. g = [i \in 0..Len(s) |-> Rule(g, i)]
    BY <2>3
  <2>5. QED
    BY <2>4
<1> DEFINE kept == CHOOSE f : Built(f)
<1>3. kept = [i \in 0..Len(s) |-> Rule(kept, i)]
  BY <1>2
<1>4. Without(s, S) = kept[Len(s)]
  BY DEF Without
<1> HIDE DEF kept
<1>5. \A i \in 0..Len(s) : Good(kept, i)
  <2> SUFFICES ASSUME {n \in 0..Len(s) : ~ Good(kept, n)} # {} PROVE FALSE
    OBVIOUS
  <2>1. PICK m \in 0..Len(s) :
          ~ Good(kept, m) /\ \A k \in 0..Len(s) : ~ Good(kept, k) => m <= k
    <3> HIDE DEF Good
    <3>1. {n \in 0..Len(s) : ~ Good(kept, n)} \subseteq Nat
      OBVIOUS
    <3>2. QED
      BY <3>1, Least
  <2>2. kept[m] = Rule(kept, m)
    BY <1>3
  <2>3. m # 0
    BY <2>1, <2>2
  <2>4. Good(kept, m - 1) /\ m \in 1..Len(s) /\ s[m] \in T
    <3>1. m - 1 \in 0..Len(s) /\ ~ m <= m - 1
      BY <2>1, <2>3
    <3>2. Good(kept, m - 1)
      <4> HIDE DEF Good
      <4> QED
        BY <2>1, <3>1
    <3>3. QED
      BY <2>3, <3>2
  <2>5. CASE s[m] \in S
    <3>1. kept[m] = kept[m - 1]
      BY <2>2, <2>3, <2>5
    <3>2. QED
      BY <2>1, <2>4, <3>1
  <2>6. CASE s[m] \notin S
    <3> DEFINE q == kept[m - 1]
    <3>1. kept[m] = Append(q, s[m])
      BY <2>2, <2>3, <2>6
    <3>2. /\ Append(q, s[m]) \in Seq(T) /\ Len(Append(q, s[m])) = Len(q) + 1
          /\ \A j \in 1..Len(q) : Append(q, s[m])[j] = q[j]
          /\ Append(q, s[m])[Len(q) + 1] = s[m]
      BY <2>4
    <3>3. Len(q) <= m - 1 /\ Len(q) \in Nat
      BY <2>4
    <3>4. QED
      BY <2>1, <2>4, <2>6, <3>1, <3>2, <3>3
  <2>7. QED
    BY <2>5, <2>6
<1>6. Good(kept, Len(s))
  BY <1>5
<1>7. QED
  BY <1>4, <1>6

\* The operations return indices, cut at MaxRecent, and name nothing new.
LEMMA RegisteredIndex ==
  ASSUME NEW x \in Indices, Len(x.recent) <= MaxRecent, NEW r \in Runs
  PROVE  /\ Registered(x, r) \in Indices /\ Len(Registered(x, r).recent) <= MaxRecent
         /\ Named(Registered(x, r)) \subseteq Named(x) \cup {r}
<1> USE SessionAssumption DEF SessionAssumption, Indices
<1>0. x.active \in Runs \cup {NoRun} /\ x.recent \in Seq(Runs)
  OBVIOUS
<1>1. CASE \E i \in DOMAIN x.recent : x.recent[i] = r
  <2>1. Registered(x, r) = [active |-> r, recent |-> x.recent]
    BY <1>1 DEF Registered
  <2>2. QED
    BY <1>0, <2>1 DEF Named
<1>2. CASE ~ \E i \in DOMAIN x.recent : x.recent[i] = r
  <2> DEFINE longer == <<r>> \o x.recent
             cut == IF Len(longer) < MaxRecent THEN Len(longer) ELSE MaxRecent
             short == SubSeq(longer, 1, cut)
  <2>1. Registered(x, r) = [active |-> r, recent |-> short]
    BY <1>2 DEF Registered
  <2>2. longer \in Seq(Runs) /\ Len(longer) = Len(x.recent) + 1
    BY <1>0
  <2>3. \A i \in 1..Len(longer) : longer[i] = IF i = 1 THEN r ELSE x.recent[i - 1]
    BY <1>0
  <2> HIDE DEF longer
  <2>4. cut \in 0..Len(longer) /\ cut <= MaxRecent
    BY <2>2
  <2> HIDE DEF cut
  <2>5. /\ short \in Seq(Runs) /\ Len(short) = cut
        /\ \A i \in 1..cut : short[i] = longer[i]
    BY <2>2, <2>4
  <2> HIDE DEF short
  <2>6. \A i \in 1..cut : short[i] \in Named(x) \cup {r}
    <3> SUFFICES ASSUME NEW i \in 1..cut PROVE short[i] \in Named(x) \cup {r}
      OBVIOUS
    <3>1. i \in 1..Len(longer) /\ short[i] = longer[i]
      BY <2>2, <2>4, <2>5
    <3>2. i # 1 => i - 1 \in DOMAIN x.recent
      BY <1>0, <2>2, <3>1
    <3>3. QED
      BY <2>3, <3>1, <3>2 DEF Named
  <2>7. Registered(x, r) \in Indices /\ Len(Registered(x, r).recent) <= MaxRecent
    BY <2>1, <2>4, <2>5
  <2>8. DOMAIN short = 1..cut
    BY <2>4, <2>5
  <2>9. QED
    BY <2>1, <2>6, <2>7, <2>8 DEF Named
<1>3. QED
  BY <1>1, <1>2

LEMMA PrunedIndex ==
  ASSUME NEW x \in Indices, Len(x.recent) <= MaxRecent, NEW S
  PROVE  /\ Pruned(x, S) \in Indices /\ Len(Pruned(x, S).recent) <= MaxRecent
         /\ Named(Pruned(x, S)) \subseteq (Named(x) \ S) \cup {NoRun}
<1> USE SessionAssumption DEF SessionAssumption, Indices
<1>0. x.active \in Runs \cup {NoRun} /\ x.recent \in Seq(Runs)
  OBVIOUS
<1> DEFINE rest == Without(x.recent, S)
<1>1. /\ rest \in Seq(Runs) /\ Len(rest) <= Len(x.recent)
      /\ \A i \in DOMAIN rest : rest[i] \notin S /\ \E j \in DOMAIN x.recent : rest[i] = x.recent[j]
  BY <1>0, WithoutSpec
<1> HIDE DEF rest
<1>2. Pruned(x, S) = [active |-> IF x.active \in S THEN NoRun ELSE x.active,
                      recent |-> rest]
  BY DEF Pruned, rest
<1>3. Len(rest) <= MaxRecent
  BY <1>0, <1>1
<1>4. QED
  BY <1>0, <1>1, <1>2, <1>3 DEF Named

LEMMA ClearedIndex ==
  ASSUME NEW x \in Indices, Len(x.recent) <= MaxRecent, NEW r
  PROVE  /\ Cleared(x, r) \in Indices /\ Len(Cleared(x, r).recent) <= MaxRecent
         /\ Named(Cleared(x, r)) \subseteq Named(x) \cup {NoRun}
<1> USE SessionAssumption DEF SessionAssumption, Indices
<1>0. x.active \in Runs \cup {NoRun} /\ x.recent \in Seq(Runs)
  OBVIOUS
<1>1. CASE x.active = r
  <2>1. Cleared(x, r) = [active |-> NoRun, recent |-> x.recent]
    BY <1>0, <1>1 DEF Cleared
  <2>2. QED
    BY <1>0, <2>1 DEF Named
<1>2. CASE x.active # r
  BY <1>2 DEF Cleared
<1>3. QED
  BY <1>1, <1>2

-----------------------------------------------------------------------------
(* The inductive invariant. *)

LEMMA InvInit == Init => IndexInv
<1> SUFFICES ASSUME Init PROVE IndexInv
  OBVIOUS
<1> USE SessionAssumption DEF SessionAssumption, Init, IndexInit
<1>1. Empty \in Indices /\ {} \in SUBSET Runs
  BY DEF Empty, Indices
<1>2. TypeOK
  <2>1. index \in Indices /\ Len(index.recent) <= MaxRecent /\ unread \in BOOLEAN
    <3>1. index = Empty /\ unread = FALSE
      OBVIOUS
    <3>2. Len(Empty.recent) = 0
      BY DEF Empty
    <3>3. index \in Indices /\ Len(index.recent) <= MaxRecent
      BY <1>1, <3>1, <3>2
    <3>4. unread \in BOOLEAN
      BY <3>1, Zenon
    <3>5. QED
      BY <3>3, <3>4
  <2>2. gcDue \in BOOLEAN /\ stamp \in [Sessions -> BOOLEAN]
    OBVIOUS
  <2>3. /\ pc \in [Hooks -> StartSteps \cup EndSteps \cup {"idle"}]
        /\ of \in [Hooks -> Sessions \cup {NoSession}]
        /\ run \in [Hooks -> Runs \cup {NoRun}]
        /\ victim \in [Hooks -> Runs \cup {NoRun}]
        /\ ctx \in [Hooks -> Docs \cup {NoDoc}]
    OBVIOUS
  <2>4. /\ seen \in [Hooks -> Indices]
        /\ todo \in [Hooks -> SUBSET Runs] /\ removed \in [Hooks -> SUBSET Runs]
    BY <1>1
  <2>5. /\ docs \in [Runs -> Docs \cup {NoDoc}]
        /\ lock \in Hooks \cup {NoHook}
        /\ pidFile \in [Sessions -> Hooks \cup {NoHook}]
        /\ faults \in 0..MaxFaults /\ leftover \in SUBSET Runs
    OBVIOUS
  <2>6. QED
    BY <2>1, <2>2, <2>3, <2>4, <2>5 DEF TypeOK
<1>3. Equipped
  BY DEF Equipped, StartOf, WithRun
<1>4. LockedIndex
  BY DEF LockedIndex, Base
<1>5. QED
  BY <1>2, <1>3, <1>4 DEF IndexInv

(* What a hook starts from when it changes the index. *)
LEMMA BaseIndex ==
  ASSUME IndexInv
  PROVE  /\ Base \in Indices /\ Len(Base.recent) <= MaxRecent
         /\ Named(Base) \subseteq Named(index) \cup {NoRun}
<1>1. index \in Indices /\ Len(index.recent) <= MaxRecent
  BY DEF IndexInv, TypeOK
<1>2. Empty \in Indices /\ Len(Empty.recent) <= MaxRecent /\ Named(Empty) = {NoRun}
  BY SessionAssumption DEF SessionAssumption, Empty, Indices, Named
<1>3. QED
  BY <1>1, <1>2 DEF Base

LEMMA LockSteps ==
  /\ DOMAIN LockStep = {"register", "prune", "clear"}
  /\ LockStep["register"] = "registering"
  /\ LockStep["prune"] = "pruning"
  /\ LockStep["clear"] = "clearing"
BY DEF LockStep

(* Who exits or answers has memory of the right types. *)
LEMMA ExitTypes ==
  ASSUME HookTypes, NEW p \in Hooks, Exit(p)
  PROVE  HookTypes'
<1>1. Empty \in Indices /\ {} \in SUBSET Runs
  BY DEF Empty, Indices
<1>2. /\ pc' \in [Hooks -> StartSteps \cup EndSteps \cup {"idle"}]
      /\ of' \in [Hooks -> Sessions \cup {NoSession}]
      /\ run' \in [Hooks -> Runs \cup {NoRun}]
      /\ victim' \in [Hooks -> Runs \cup {NoRun}]
      /\ ctx' \in [Hooks -> Docs \cup {NoDoc}]
  BY DEF HookTypes, Exit, Goto
<1>3. /\ seen' \in [Hooks -> Indices]
      /\ todo' \in [Hooks -> SUBSET Runs] /\ removed' \in [Hooks -> SUBSET Runs]
  BY <1>1 DEF HookTypes, Exit
<1>4. QED
  BY <1>2, <1>3 DEF HookTypes

LEMMA AnswerTypes ==
  ASSUME HookTypes, NEW p \in Hooks, NEW r \in Runs \cup {NoRun}, Answer(p, r)
  PROVE  HookTypes'
<1>1. Empty \in Indices /\ {} \in SUBSET Runs
  BY DEF Empty, Indices
<1>2. /\ pc' \in [Hooks -> StartSteps \cup EndSteps \cup {"idle"}]
      /\ run' \in [Hooks -> Runs \cup {NoRun}]
  BY DEF HookTypes, Answer, Goto, StartSteps
<1>3. seen' \in [Hooks -> Indices] /\ removed' \in [Hooks -> SUBSET Runs]
  BY <1>1 DEF HookTypes, Answer
<1>4. QED
  BY <1>2, <1>3 DEF HookTypes, Answer

LEMMA GotoTypes ==
  ASSUME HookTypes, NEW p \in Hooks, NEW step \in StartSteps \cup EndSteps, Goto(p, step)
  PROVE  pc' \in [Hooks -> StartSteps \cup EndSteps \cup {"idle"}]
BY DEF HookTypes, Goto

LEMMA HasHookTypes == TypeOK => HookTypes
BY DEF TypeOK, HookTypes

LEMMA FaultTypes == faults \in 0..MaxFaults /\ Fault => faults' \in 0..MaxFaults
BY SessionAssumption DEF SessionAssumption, Fault

(* Every step of a hook leaves it with memory of the right types. *)
LEMMA MemoryTypes ==
  ASSUME IndexInv, NEW p \in Hooks,
         HookStep(p) \/ Crash(p) \/ \E s \in Sessions : StartHook(p, s) \/ EndHook(p, s)
  PROVE  HookTypes'
<1>1. HookTypes /\ index \in Indices /\ docs \in [Runs -> Docs \cup {NoDoc}]
  BY HasHookTypes DEF IndexInv, TypeOK
<1>2. run[p] \in Runs \cup {NoRun} /\ NoRun \in Runs \cup {NoRun}
  BY <1>1 DEF HookTypes
<1>3. CASE Exit(p) \/ Answer(p, run[p]) \/ Answer(p, NoRun)
  BY <1>1, <1>2, <1>3, ExitTypes, AnswerTypes
<1>4. CASE WritePid(p) \/ \E s \in Sessions : StartHook(p, s)
  <2>1. pc' \in [Hooks -> StartSteps \cup EndSteps \cup {"idle"}]
    BY <1>1, <1>4, GotoTypes DEF WritePid, StartHook, StartSteps
  <2>2. of' \in [Hooks -> Sessions \cup {NoSession}]
    BY <1>1, <1>4 DEF WritePid, StartHook, HookTypes
  <2>3. QED
    BY <1>1, <1>4, <2>1, <2>2 DEF WritePid, StartHook, HookTypes
<1>5. CASE WriteRun(p) /\ ~ Answer(p, NoRun)
  <2>1. pc' \in [Hooks -> StartSteps \cup EndSteps \cup {"idle"}]
    BY <1>1, <1>5, GotoTypes DEF WriteRun, StartSteps
  <2>2. run' \in [Hooks -> Runs \cup {NoRun}]
    BY <1>1, <1>5 DEF WriteRun, HookTypes
  <2>3. QED
    BY <1>1, <1>5, <2>1, <2>2 DEF WriteRun, HookTypes
<1>6. CASE RemovePid(p) /\ ~ Exit(p)
  <2>1. pc' \in [Hooks -> StartSteps \cup EndSteps \cup {"idle"}]
    BY <1>1, <1>6, GotoTypes DEF RemovePid, StartSteps
  <2>2. QED
    BY <1>1, <1>6, <2>1 DEF RemovePid, HookTypes
<1>7. CASE Lock(p)
  <2>1. LockStep[pc[p]] \in StartSteps \cup EndSteps
    BY <1>7, LockSteps DEF Lock, StartSteps, EndSteps
  <2>2. pc' \in [Hooks -> StartSteps \cup EndSteps \cup {"idle"}]
    BY <1>1, <1>7, <2>1, GotoTypes DEF Lock
  <2>3. Empty \in Indices
    BY DEF Empty, Indices
  <2>4. seen' \in [Hooks -> Indices]
    BY <1>1, <1>7, <2>3 DEF Lock, HookTypes
  <2>5. QED
    BY <1>1, <1>7, <2>2, <2>4 DEF Lock, HookTypes
<1>8. CASE NotLocked(p) /\ ~ Exit(p) /\ ~ Answer(p, run[p])
  <2>1. pc' \in [Hooks -> StartSteps \cup EndSteps \cup {"idle"}]
    BY <1>1, <1>8, GotoTypes DEF NotLocked, StartSteps
  <2>2. QED
    BY <1>1, <1>8, <2>1 DEF NotLocked, HookTypes
<1>9. CASE Change(p) /\ ~ Exit(p) /\ ~ Answer(p, run[p])
  <2>1. pc' \in [Hooks -> StartSteps \cup EndSteps \cup {"idle"}]
    BY <1>1, <1>9, GotoTypes DEF Change, StartSteps
  <2>2. Empty \in Indices
    BY DEF Empty, Indices
  <2>3. seen' \in [Hooks -> Indices]
    BY <1>1, <1>9, <2>2 DEF Change, HookTypes
  <2>4. QED
    BY <1>1, <1>9, <2>1, <2>3 DEF Change, HookTypes
<1>10. CASE (GcCheck(p) \/ ScanDone(p)) /\ ~ Answer(p, run[p])
  <2>1. pc' \in [Hooks -> StartSteps \cup EndSteps \cup {"idle"}]
    BY <1>1, <1>10, GotoTypes DEF GcCheck, ScanDone, StartSteps
  <2>2. QED
    BY <1>1, <1>10, <2>1 DEF GcCheck, ScanDone, HookTypes
<1>11. CASE GcTouch(p)
  <2>1. pc' \in [Hooks -> StartSteps \cup EndSteps \cup {"idle"}]
    BY <1>1, <1>11, GotoTypes DEF GcTouch, StartSteps
  <2>2. todo' \in [Hooks -> SUBSET Runs]
    BY <1>1, <1>11 DEF GcTouch, HookTypes
  <2>3. QED
    BY <1>1, <1>11, <2>1, <2>2 DEF GcTouch, HookTypes
<1>12. CASE ScanRead(p)
  <2>1. pc' \in [Hooks -> StartSteps \cup EndSteps \cup {"idle"}]
    BY <1>1, <1>12, GotoTypes DEF ScanRead, StartSteps, HookTypes
  <2>2. todo' \in [Hooks -> SUBSET Runs] /\ victim' \in [Hooks -> Runs \cup {NoRun}]
    BY <1>1, <1>12 DEF ScanRead, HookTypes
  <2>3. QED
    BY <1>1, <1>12, <2>1, <2>2 DEF ScanRead, HookTypes
<1>13. CASE ScanUnlink(p)
  <2>1. pc' \in [Hooks -> StartSteps \cup EndSteps \cup {"idle"}]
    BY <1>1, <1>13, GotoTypes DEF ScanUnlink, StartSteps
  <2>2. victim[p] \in Runs
    BY <1>13 DEF ScanUnlink, IndexInv, Equipped
  <2>3. removed' \in [Hooks -> SUBSET Runs] /\ victim' \in [Hooks -> Runs \cup {NoRun}]
    BY <1>1, <1>13, <2>2 DEF ScanUnlink, HookTypes
  <2>4. QED
    BY <1>1, <1>13, <2>1, <2>3 DEF ScanUnlink, HookTypes
<1>14. CASE ReadRun(p) /\ ~ Exit(p)
  <2>1. pc' \in [Hooks -> StartSteps \cup EndSteps \cup {"idle"}]
    BY <1>1, <1>14, GotoTypes DEF ReadRun, EndSteps
  <2>2. run[p] \in Runs
    BY <1>14 DEF ReadRun, IndexInv, Equipped, WithRun
  <2>3. ctx' \in [Hooks -> Docs \cup {NoDoc}]
    BY <1>1, <1>14, <2>2 DEF ReadRun, HookTypes
  <2>4. QED
    BY <1>1, <1>14, <2>1, <2>3 DEF ReadRun, HookTypes
<1>15. CASE WriteEnded(p) /\ ~ Exit(p)
  <2>1. pc' \in [Hooks -> StartSteps \cup EndSteps \cup {"idle"}]
    BY <1>1, <1>15, GotoTypes DEF WriteEnded, EndSteps
  <2>2. ctx' \in [Hooks -> Docs \cup {NoDoc}]
    BY <1>1, <1>15 DEF WriteEnded, HookTypes
  <2>3. QED
    BY <1>1, <1>15, <2>1, <2>2 DEF WriteEnded, HookTypes
<1>16. CASE \E s \in Sessions : EndHook(p, s)
  <2>1. pc' \in [Hooks -> StartSteps \cup EndSteps \cup {"idle"}]
    BY <1>1, <1>16, GotoTypes DEF EndHook, EndSteps
  <2>2. of' \in [Hooks -> Sessions \cup {NoSession}] /\ run' \in [Hooks -> Runs \cup {NoRun}]
    BY <1>1, <1>16 DEF EndHook, HookTypes, Indices
  <2>3. QED
    BY <1>1, <1>16, <2>1, <2>2 DEF EndHook, HookTypes
<1>17. QED
  BY <1>3, <1>4, <1>5, <1>6, <1>7, <1>8, <1>9, <1>10, <1>11, <1>12, <1>13, <1>14,
     <1>15, <1>16
     DEF HookStep, Undo, WriteStamp, NotLocked, ChangeFails, Change, Crash

(* What is on disk keeps its type too; the index, because the hook that     *)
(* changes it changes what is there.                                       *)
LEMMA DiskTypes ==
  ASSUME IndexInv, NEW p \in Hooks,
         HookStep(p) \/ Crash(p) \/ \E s \in Sessions : StartHook(p, s) \/ EndHook(p, s)
  PROVE  /\ index' \in Indices /\ Len(index'.recent) <= MaxRecent
         /\ docs' \in [Runs -> Docs \cup {NoDoc}]
<1>1. /\ index \in Indices /\ Len(index.recent) <= MaxRecent
      /\ docs \in [Runs -> Docs \cup {NoDoc}] /\ HookTypes
  BY HasHookTypes DEF IndexInv, TypeOK
<1>2. CASE UNCHANGED <<index, docs>>
  BY <1>1, <1>2
<1>3. CASE Change(p)
  <2>1. seen[p] = Base /\ removed[p] \in SUBSET Runs
    BY <1>1, <1>3 DEF Change, IndexInv, LockedIndex, HookTypes
  <2>2. pc[p] \in {"registering", "clearing"} => run[p] \in Runs
    BY DEF IndexInv, Equipped, WithRun
  <2>3. index' \in Indices /\ Len(index'.recent) <= MaxRecent
    BY <1>1, <1>3, <2>1, <2>2, BaseIndex, RegisteredIndex, PrunedIndex, ClearedIndex
       DEF Change
  <2>4. QED
    BY <1>1, <1>3, <2>3 DEF Change
<1>4. CASE WriteRun(p)
  <2>1. [state |-> "run_active", session |-> of[p], age |-> Fresh] \in Docs
    BY <1>4 DEF WriteRun, IndexInv, Equipped, StartOf, Docs
  <2>2. docs' \in [Runs -> Docs \cup {NoDoc}]
    BY <1>1, <1>4, <2>1 DEF WriteRun
  <2>3. QED
    BY <1>1, <1>4, <2>2 DEF WriteRun
<1>5. CASE Undo(p)
  BY <1>1, <1>5 DEF Undo
<1>6. CASE ScanUnlink(p)
  BY <1>1, <1>6 DEF ScanUnlink
<1>7. CASE WriteEnded(p)
  <2>1. [state |-> "run_ended", session |-> ctx[p].session, age |-> Fresh] \in Docs
    BY <1>7 DEF WriteEnded, IndexInv, Equipped, Docs
  <2>2. docs' \in [Runs -> Docs \cup {NoDoc}]
    BY <1>1, <1>7, <2>1 DEF WriteEnded
  <2>3. QED
    BY <1>1, <1>7, <2>2 DEF WriteEnded
<1>8. QED
  BY <1>2, <1>3, <1>4, <1>5, <1>6, <1>7
     DEF HookStep, StartHook, EndHook, WritePid, RemovePid, WriteStamp, Lock, NotLocked,
         ChangeFails, GcCheck, GcTouch, ScanRead, ScanDone, ReadRun, Crash

LEMMA RestTypes ==
  ASSUME IndexInv, NEW p \in Hooks,
         HookStep(p) \/ Crash(p) \/ \E s \in Sessions : StartHook(p, s) \/ EndHook(p, s)
  PROVE  /\ lock' \in Hooks \cup {NoHook} /\ faults' \in 0..MaxFaults
         /\ gcDue' \in BOOLEAN /\ unread' \in BOOLEAN /\ leftover' \in SUBSET Runs
         /\ stamp' \in [Sessions -> BOOLEAN]
         /\ pidFile' \in [Sessions -> Hooks \cup {NoHook}]
<1> USE DEF IndexInv, TypeOK
<1> USE DEF HookStep, StartHook, EndHook, WritePid, WriteRun, Undo, RemovePid, WriteStamp,
        Lock, NotLocked, Change, ChangeFails, GcCheck, GcTouch, ScanRead, ScanUnlink,
        ScanDone, ReadRun, WriteEnded, Crash
<1>1. lock' \in {lock, p, NoHook}
  OBVIOUS
<1>2. faults' = faults \/ Fault
  OBVIOUS
<1>3. /\ gcDue' = gcDue \/ gcDue' = FALSE
      /\ unread' = unread \/ unread' = TRUE \/ unread' = FALSE
  BY Zenon
<1>4. stamp' = stamp \/ stamp' = [stamp EXCEPT ![of[p]] = TRUE]
  OBVIOUS
<1>5. \/ pidFile' = pidFile
      \/ \E h \in {p, NoHook, pidFile[of[p]]} : pidFile' = [pidFile EXCEPT ![of[p]] = h]
      \/ pidFile' = [s \in Sessions |-> IF pidFile[s] = p THEN NoHook ELSE pidFile[s]]
  OBVIOUS
<1>6. leftover' \subseteq leftover \cup removed[p]
  BY DEF LeaveBehind
<1> HIDE DEF HookStep, StartHook, EndHook, WritePid, WriteRun, Undo, RemovePid,
         WriteStamp, Lock, NotLocked, Change, ChangeFails, GcCheck, GcTouch, ScanRead,
         ScanUnlink, ScanDone, ReadRun, WriteEnded, Crash
<1>7. lock' \in Hooks \cup {NoHook} /\ leftover' \in SUBSET Runs
  BY <1>1, <1>6
<1>8. faults' \in 0..MaxFaults
  BY <1>2, FaultTypes
<1>9. gcDue' \in BOOLEAN /\ unread' \in BOOLEAN
  BY <1>3, Zenon
<1>10. stamp' \in [Sessions -> BOOLEAN]
  BY <1>4
<1>11. pidFile' \in [Sessions -> Hooks \cup {NoHook}]
  <2>1. CASE \E h \in {p, NoHook, pidFile[of[p]]} : pidFile' = [pidFile EXCEPT ![of[p]] = h]
    <3>1. PICK h \in {p, NoHook, pidFile[of[p]]} : pidFile' = [pidFile EXCEPT ![of[p]] = h]
      BY <2>1
    <3>2. CASE of[p] \in Sessions
      BY <3>1, <3>2
    <3>3. CASE of[p] \notin Sessions
      BY <3>1, <3>3
    <3>4. QED
      BY <3>2, <3>3
  <2>2. QED
    BY <1>5, <2>1
<1>12. QED
  BY <1>7, <1>8, <1>9, <1>10, <1>11

(* What the step of one hook leaves of another. *)
LEMMA OthersUntouched ==
  ASSUME IndexInv, NEW p \in Hooks, NEW q \in Hooks \ {p},
         HookStep(p) \/ Crash(p) \/ \E s \in Sessions : StartHook(p, s) \/ EndHook(p, s)
  PROVE  /\ pc'[q] = pc[q] /\ of'[q] = of[q] /\ run'[q] = run[q] /\ ctx'[q] = ctx[q]
         /\ seen'[q] = seen[q] /\ victim'[q] = victim[q] /\ removed'[q] = removed[q]
<1> USE DEF HookStep, StartHook, EndHook, WritePid, WriteRun, Undo, RemovePid, WriteStamp,
        Lock, NotLocked, Change, ChangeFails, GcCheck, GcTouch, ScanRead, ScanUnlink,
        ScanDone, ReadRun, WriteEnded, Crash, Exit, Answer, Goto
<1>0. HookTypes
  BY HasHookTypes DEF IndexInv
<1>1. pc'[q] = pc[q]
  BY <1>0 DEF HookTypes
<1>2. of'[q] = of[q]
  BY <1>0 DEF HookTypes
<1>3. run'[q] = run[q]
  BY <1>0 DEF HookTypes
<1>4. ctx'[q] = ctx[q]
  BY <1>0 DEF HookTypes
<1>5. seen'[q] = seen[q]
  BY <1>0 DEF HookTypes
<1>6. victim'[q] = victim[q]
  BY <1>0 DEF HookTypes
<1>7. removed'[q] = removed[q]
  BY <1>0 DEF HookTypes
<1>8. QED
  BY <1>1, <1>2, <1>3, <1>4, <1>5, <1>6, <1>7

(* After its step a hook has what its next step needs. *)
LEMMA OwnStep ==
  ASSUME IndexInv, NEW p \in Hooks,
         HookStep(p) \/ Crash(p) \/ \E s \in Sessions : StartHook(p, s) \/ EndHook(p, s)
  PROVE  /\ pc'[p] \in StartOf => of'[p] \in Sessions
         /\ pc'[p] \in WithRun => run'[p] \in Runs
         /\ pc'[p] = "end" => ctx'[p] \in Docs
         /\ pc'[p] = "unlink" => victim'[p] \in Runs
<1> USE DEF Goto, StartOf, WithRun
<1>0. /\ pc[p] \in StartOf => of[p] \in Sessions
      /\ pc[p] \in WithRun => run[p] \in Runs
      /\ pc[p] = "end" => ctx[p] \in Docs
  BY DEF IndexInv, Equipped
<1>1. HookTypes
  BY HasHookTypes DEF IndexInv
<1>2. CASE WritePid(p) \/ (\E s \in Sessions : StartHook(p, s)) \/ WriteRun(p)
  BY <1>0, <1>1, <1>2 DEF WritePid, StartHook, WriteRun, Answer, HookTypes
<1>3. CASE Undo(p) \/ RemovePid(p) \/ WriteStamp(p)
  BY <1>1, <1>3 DEF Undo, RemovePid, WriteStamp, Answer, Exit, HookTypes
<1>4. CASE Lock(p)
  BY <1>0, <1>1, <1>4, LockSteps DEF Lock, HookTypes
<1>5. CASE NotLocked(p)
  BY <1>0, <1>1, <1>5 DEF NotLocked, Answer, Exit, HookTypes
<1>6. CASE Change(p)
  BY <1>1, <1>6 DEF Change, Answer, Exit, HookTypes
<1>7. CASE ChangeFails(p)
  BY <1>1, <1>7 DEF ChangeFails, Answer, Exit, HookTypes
<1>8. CASE GcCheck(p) \/ GcTouch(p) \/ ScanDone(p)
  BY <1>1, <1>8 DEF GcCheck, GcTouch, ScanDone, Answer, HookTypes
<1>9. CASE ScanRead(p) \/ ScanUnlink(p)
  BY <1>1, <1>9 DEF ScanRead, ScanUnlink, HookTypes
<1>10. CASE ReadRun(p)
  <2>1. run[p] \in Runs /\ docs \in [Runs -> Docs \cup {NoDoc}]
    BY <1>0, <1>10 DEF ReadRun, IndexInv, TypeOK
  <2>2. QED
    BY <1>1, <1>10, <2>1 DEF ReadRun, Exit, HookTypes
<1>11. CASE WriteEnded(p)
  BY <1>0, <1>1, <1>11 DEF WriteEnded, Exit, HookTypes
<1>12. CASE Crash(p)
  BY <1>1, <1>12 DEF Crash, Exit, HookTypes
<1>13. CASE \E s \in Sessions : EndHook(p, s)
  <2>1. index.active \in Runs \cup {NoRun} /\ index.active # NoRun
    BY <1>13 DEF EndHook, IndexInv, TypeOK, Indices
  <2>2. QED
    BY <1>1, <1>13, <2>1 DEF EndHook, HookTypes
<1>14. QED
  BY <1>2, <1>3, <1>4, <1>5, <1>6, <1>7, <1>8, <1>9, <1>10, <1>11, <1>12, <1>13
     DEF HookStep

(* The lock goes with the steps that change the index. *)
LEMMA LockedStep ==
  ASSUME IndexInv, NEW p \in Hooks,
         HookStep(p) \/ Crash(p) \/ \E s \in Sessions : StartHook(p, s) \/ EndHook(p, s)
  PROVE  LockedIndex'
<1> USE SessionAssumption DEF SessionAssumption, Goto
<1>0. HookTypes /\ LockedIndex /\ lock \in Hooks \cup {NoHook}
  BY HasHookTypes DEF IndexInv, TypeOK
<1>1. CASE Lock(p)
  <2>1. lock = NoHook /\ lock' = p /\ seen'[p] = Base'
    <3>1. lock = NoHook /\ lock' = p /\ index' = index /\ ~ unread
      BY <1>0, <1>1 DEF Lock, LockedIndex
    <3>2. \/ seen'[p] = index /\ ~ unread'
          \/ seen'[p] = Empty /\ unread'
      BY <1>0, <1>1, <3>1 DEF Lock, HookTypes
    <3>3. QED
      BY <3>1, <3>2 DEF Base
  <2>2. pc'[p] \in {"registering", "pruning", "clearing"}
    BY <1>0, <1>1, LockSteps DEF Lock, HookTypes
  <2>3. \A q \in Hooks \ {p} : pc'[q] = pc[q]
    BY OthersUntouched
  <2>4. QED
    BY <1>0, <2>1, <2>2, <2>3 DEF LockedIndex
<1>2. CASE /\ lock = p /\ lock' = NoHook /\ ~ unread'
           /\ pc'[p] \notin {"registering", "pruning", "clearing"}
  BY <1>0, <1>2, OthersUntouched DEF LockedIndex
<1>3. CASE /\ lock' = lock /\ lock # p /\ UNCHANGED indexVars
           /\ pc'[p] \notin {"registering", "pruning", "clearing"}
  <2>1. Base' = Base
    BY <1>3 DEF Base
  <2>2. QED
    BY <1>0, <1>3, <2>1, OthersUntouched DEF LockedIndex
<1>4. lock = p <=> pc[p] \in {"registering", "pruning", "clearing"}
  BY <1>0 DEF LockedIndex
<1>5. CASE Change(p) \/ ChangeFails(p)
  <2>1. pc'[p] \notin {"registering", "pruning", "clearing"}
    BY <1>0, <1>5 DEF Change, ChangeFails, Answer, Exit, HookTypes
  <2>2. QED
    BY <1>2, <1>4, <1>5, <2>1 DEF Change, ChangeFails
<1>6. CASE Crash(p)
  <2>1. pc'[p] \notin {"registering", "pruning", "clearing"} /\ index' = index
    BY <1>0, <1>6 DEF Crash, Exit, HookTypes
  <2>2. QED
    BY <1>2, <1>3, <1>6, <2>1 DEF Crash
<1>7. CASE \/ HookStep(p) /\ ~ (Lock(p) \/ Change(p) \/ ChangeFails(p))
           \/ \E s \in Sessions : StartHook(p, s) \/ EndHook(p, s)
  <2>1. lock' = lock /\ UNCHANGED indexVars
    BY <1>7 DEF HookStep, StartHook, EndHook, WritePid, WriteRun, Undo, RemovePid,
       WriteStamp, NotLocked, GcCheck, GcTouch, ScanRead, ScanUnlink, ScanDone, ReadRun,
       WriteEnded
  <2>2. pc[p] \notin {"registering", "pruning", "clearing"}
    BY <1>7 DEF HookStep, StartHook, EndHook, WritePid, WriteRun, Undo, RemovePid,
       WriteStamp, NotLocked, GcCheck, GcTouch, ScanRead, ScanUnlink, ScanDone, ReadRun,
       WriteEnded
  <2>3. pc'[p] \notin {"registering", "pruning", "clearing"}
    <3>1. CASE WritePid(p) \/ WriteRun(p) \/ Undo(p) \/ RemovePid(p) \/ WriteStamp(p)
      BY <1>0, <3>1 DEF WritePid, WriteRun, Undo, RemovePid, WriteStamp, Answer, Exit,
         HookTypes
    <3>2. CASE NotLocked(p) \/ GcCheck(p) \/ GcTouch(p) \/ ScanDone(p)
      BY <1>0, <3>2 DEF NotLocked, GcCheck, GcTouch, ScanDone, Answer, Exit, HookTypes
    <3>3. CASE ScanRead(p) \/ ScanUnlink(p)
      BY <1>0, <3>3 DEF ScanRead, ScanUnlink, HookTypes
    <3>4. CASE ReadRun(p) \/ WriteEnded(p)
      BY <1>0, <3>4 DEF ReadRun, WriteEnded, Exit, HookTypes
    <3>5. CASE \E s \in Sessions : StartHook(p, s) \/ EndHook(p, s)
      BY <1>0, <3>5 DEF StartHook, EndHook, HookTypes
    <3>6. QED
      BY <1>7, <3>1, <3>2, <3>3, <3>4, <3>5 DEF HookStep
  <2>4. QED
    BY <1>3, <1>4, <2>1, <2>2, <2>3
<1>8. QED
  BY <1>1, <1>5, <1>6, <1>7

(* Every step of a hook, and its death, keeps the invariant. *)
LEMMA StepInv ==
  ASSUME IndexInv, NEW p \in Hooks,
         HookStep(p) \/ Crash(p) \/ \E s \in Sessions : StartHook(p, s) \/ EndHook(p, s)
  PROVE  IndexInv'
<1>1. TypeOK'
  BY MemoryTypes, DiskTypes, RestTypes DEF TypeOK, HookTypes
<1>2. Equipped'
  <2>1. Equipped
    BY DEF IndexInv
  <2>2. QED
    BY <2>1, OwnStep, OthersUntouched DEF Equipped
<1>3. LockedIndex'
  BY LockedStep
<1>4. QED
  BY <1>1, <1>2, <1>3 DEF IndexInv

(* So does what goes on around the hooks. *)
LEMMA OtherInv ==
  ASSUME IndexInv,
         \/ \E r \in Runs : AgeRun(r)
         \/ \E s \in Sessions : Renew(s)
         \/ GcInterval
         \/ UNCHANGED vars
  PROVE  IndexInv'
<1> USE DEF IndexInv, TypeOK, Equipped, LockedIndex, Base, StartOf, WithRun, hookVars
<1>1. ASSUME NEW r \in Runs, AgeRun(r) PROVE IndexInv'
  <2>1. docs[r] \in Docs /\ docs[r].age + 1 \in {Fresh, Stale, Old}
    BY <1>1 DEF AgeRun, Docs, Fresh, Stale, Old
  <2>2. [docs[r] EXCEPT !.age = @ + 1] \in Docs
    BY <2>1 DEF Docs
  <2>3. docs' \in [Runs -> Docs \cup {NoDoc}]
    BY <1>1, <2>2 DEF AgeRun
  <2>4. UNCHANGED <<indexVars, lock, gcDue, stamp, pidFile, hookVars, faults, leftover>>
    BY <1>1 DEF AgeRun
  <2>5. QED
    BY <2>3, <2>4
<1>2. ASSUME NEW s \in Sessions, Renew(s) PROVE IndexInv'
  <2>1. stamp' \in [Sessions -> BOOLEAN]
    BY <1>2 DEF Renew
  <2>2. UNCHANGED <<indexVars, docs, lock, gcDue, pidFile, hookVars, faults, leftover>>
    BY <1>2 DEF Renew
  <2>3. QED
    BY <2>1, <2>2
<1>3. CASE GcInterval
  <2>1. gcDue' \in BOOLEAN
    BY <1>3 DEF GcInterval
  <2>2. UNCHANGED <<indexVars, docs, lock, stamp, pidFile, hookVars, faults, leftover>>
    BY <1>3 DEF GcInterval
  <2>3. QED
    BY <2>1, <2>2
<1>4. CASE UNCHANGED vars
  BY <1>4 DEF vars
<1>5. QED
  BY <1>1, <1>2, <1>3, <1>4

LEMMA NextInv == IndexInv /\ [Next]_vars => IndexInv'
BY StepInv, OtherInv DEF Next

(* The inductive invariant, for any number of hooks, sessions and runs. *)
THEOREM Invariant == Spec => []IndexInv
BY InvInit, NextInv, PTL DEF Spec

(* Every variable keeps its type, and the index never grows beyond          *)
(* MaxRecent runs, whatever hooks register, prune and clear at once.       *)
THEOREM TypeCorrect == Spec => []TypeOK
<1>1. IndexInv => TypeOK
  BY DEF IndexInv
<1>2. QED
  BY Invariant, <1>1, PTL


(* Whoever changes the index holds the lock, and what it has read is still *)
(* what the index holds, for any number of hooks, sessions and failures.   *)
THEOREM IndexLocked == Spec => []LockedIndex
<1>1. IndexInv => LockedIndex
  BY DEF IndexInv
<1>2. QED
  BY Invariant, <1>1, PTL

-----------------------------------------------------------------------------
LEMMA OnlyChange ==
  ASSUME NEW p \in Hooks, index' # index,
         HookStep(p) \/ Crash(p) \/ \E s \in Sessions : StartHook(p, s) \/ EndHook(p, s)
  PROVE  Change(p)
<1>1. UNCHANGED index \/ Lock(p) \/ Change(p)
  BY DEF HookStep, StartHook, EndHook, WritePid, WriteRun, Undo, RemovePid,
     WriteStamp, NotLocked, ChangeFails, GcCheck, GcTouch, ScanRead, ScanUnlink,
     ScanDone, ReadRun, WriteEnded, Crash
<1>2. QED
  BY <1>1 DEF Lock

(* A change is a whole operation on what its hook has read. *)
LEMMA ChangeStep ==
  ASSUME IndexInv, NEW p \in Hooks, Change(p)
  PROVE  Operation
<1>1. seen[p] = Base /\ unread' = FALSE
  BY DEF Change, IndexInv, LockedIndex
<1>2. CASE pc[p] = "registering"
  <2>1. index' = Registered(Base, run[p]) /\ run[p] \in Runs
    BY <1>1, <1>2 DEF Change, IndexInv, Equipped, WithRun
  <2>2. QED
    BY <1>1, <2>1 DEF Operation
<1>3. CASE pc[p] = "pruning"
  <2>1. index' = Pruned(Base, removed[p]) /\ removed[p] \in SUBSET Runs
    BY <1>1, <1>3 DEF Change, IndexInv, TypeOK
  <2>2. QED
    BY <1>1, <2>1 DEF Operation
<1>4. CASE pc[p] = "clearing"
  <2>1. index' = Cleared(Base, run[p]) /\ run[p] \in Runs
    BY <1>1, <1>4 DEF Change, IndexInv, Equipped, WithRun
  <2>2. QED
    BY <1>1, <2>1 DEF Operation
<1>5. QED
  BY <1>2, <1>3, <1>4 DEF Change

LEMMA IndexStep == IndexInv /\ [Next]_vars => [IndexNext]_indexVars
<1> SUFFICES ASSUME IndexInv, [Next]_vars, ~ UNCHANGED indexVars
             PROVE  IndexNext
  OBVIOUS
<1>0. unread \in BOOLEAN
  BY DEF IndexInv, TypeOK
<1>1. PICK p \in Hooks : \/ HookStep(p) \/ Crash(p)
                         \/ \E s \in Sessions : StartHook(p, s) \/ EndHook(p, s)
  BY DEF Next, vars, AgeRun, Renew, GcInterval
<1>2. CASE Change(p)
  BY <1>2, ChangeStep DEF IndexNext
<1>3. CASE Lock(p)
  <2>1. index' = index /\ ~ unread
    BY <1>3 DEF Lock, IndexInv, LockedIndex
  <2>2. unread' = TRUE
    BY <1>3, <2>1 DEF Lock
  <2>3. QED
    BY <2>1, <2>2 DEF IndexNext, Misread
<1>4. CASE ChangeFails(p) \/ Crash(p)
  <2>1. index' = index
    BY <1>4 DEF ChangeFails, Crash
  <2>2. unread' = FALSE \/ unread' = unread
    BY <1>4 DEF ChangeFails, Crash
  <2>3. unread
    BY <1>0, <2>1, <2>2
  <2>4. QED
    BY <2>1, <2>2, <2>3 DEF IndexNext, GiveUp
<1>5. CASE ~ (Change(p) \/ Lock(p) \/ ChangeFails(p) \/ Crash(p))
  BY <1>1, <1>5 DEF HookStep, StartHook, EndHook, WritePid, WriteRun, Undo, RemovePid,
     WriteStamp, NotLocked, GcCheck, GcTouch, ScanRead, ScanUnlink, ScanDone, ReadRun,
     WriteEnded
<1>6. QED
  BY <1>2, <1>3, <1>4, <1>5

(* The hooks implement the index of RunIndex: no update is lost but by a     *)
(* read that failed under the lock.                                         *)
THEOREM IndexByWholeOperations == Spec => ImplementsIndex
<1>1. Init => IndexInit
  BY DEF Init
<1>2. QED
  BY <1>1, Invariant, IndexStep, PTL DEF Spec, ImplementsIndex, IndexSpec

-----------------------------------------------------------------------------
LEMMA EndedDoc ==
  ASSUME NEW d \in Docs
  PROVE  LET ended == [state |-> "run_ended", session |-> d.session, age |-> Fresh]
         IN  ended \in Docs /\ ended.state = "run_ended"
BY DEF Docs, Fresh

LEMMA OlderDoc ==
  ASSUME NEW d \in Docs, d.age < Old
  PROVE  LET older == [d EXCEPT !.age = @ + 1]
         IN  older \in Docs /\ older.state = d.state
<1>1. d.age + 1 \in {Fresh, Stale, Old}
  BY DEF Docs, Fresh, Stale, Old
<1>2. QED
  BY <1>1 DEF Docs

(* What each step does to the documents. *)
LEMMA DocSteps ==
  ASSUME IndexInv, [Next]_vars, docs' # docs
  PROVE  \/ \E p \in Hooks, r \in Runs :
              pc[p] = "init" /\ ~ Known(r) /\ \E d : docs' = [docs EXCEPT ![r] = d]
         \/ \E p \in Hooks :
              pc[p] = "undo" /\ docs' = [docs EXCEPT ![run[p]] = NoDoc]
         \/ \E p \in Hooks : pc[p] = "unlink" /\ docs' = [docs EXCEPT ![victim[p]] = NoDoc]
         \/ \E r \in Runs, d \in Docs :
              d.state = "run_ended" /\ docs' = [docs EXCEPT ![r] = d]
         \/ \E r \in Runs, d \in Docs :
              /\ docs[r] # NoDoc /\ docs[r].age # Old
              /\ d.state = docs[r].state /\ docs' = [docs EXCEPT ![r] = d]
<1>1. \/ \E p \in Hooks : \/ WriteRun(p) \/ Undo(p) \/ ScanUnlink(p) \/ WriteEnded(p)
      \/ \E r \in Runs : AgeRun(r)
  <2>1. ASSUME NEW p \in Hooks,
               HookStep(p) \/ Crash(p) \/ \E s \in Sessions : StartHook(p, s) \/ EndHook(p, s)
        PROVE  WriteRun(p) \/ Undo(p) \/ ScanUnlink(p) \/ WriteEnded(p)
    <3>1. CASE Lock(p) \/ NotLocked(p) \/ Change(p) \/ ChangeFails(p) \/ Crash(p)
      BY <3>1 DEF Lock, NotLocked, Change, ChangeFails, Crash
    <3>2. CASE GcCheck(p) \/ GcTouch(p) \/ ScanRead(p) \/ ScanDone(p) \/ ReadRun(p)
      BY <3>2 DEF GcCheck, GcTouch, ScanRead, ScanDone, ReadRun
    <3>3. CASE \/ WritePid(p) \/ RemovePid(p) \/ WriteStamp(p)
               \/ \E s \in Sessions : StartHook(p, s) \/ EndHook(p, s)
      BY <3>3 DEF WritePid, RemovePid, WriteStamp, StartHook, EndHook
    <3>4. QED
      BY <2>1, <3>1, <3>2, <3>3 DEF HookStep
  <2>2. QED
    BY <2>1 DEF Next, vars, Renew, GcInterval
<1>2. ASSUME NEW p \in Hooks, WriteRun(p)
      PROVE  \E r \in Runs : /\ pc[p] = "init" /\ ~ Known(r)
                             /\ \E d : docs' = [docs EXCEPT ![r] = d]
  BY <1>2 DEF WriteRun
<1>3. ASSUME NEW p \in Hooks, Undo(p)
      PROVE  pc[p] = "undo" /\ docs' = [docs EXCEPT ![run[p]] = NoDoc]
  BY <1>3 DEF Undo
<1>4. ASSUME NEW p \in Hooks, ScanUnlink(p)
      PROVE  pc[p] = "unlink" /\ docs' = [docs EXCEPT ![victim[p]] = NoDoc]
  BY <1>4 DEF ScanUnlink
<1>5. ASSUME NEW p \in Hooks, WriteEnded(p)
      PROVE  \E r \in Runs, d \in Docs :
               d.state = "run_ended" /\ docs' = [docs EXCEPT ![r] = d]
  <2> DEFINE ended == [state |-> "run_ended", session |-> ctx[p].session, age |-> Fresh]
  <2>1. run[p] \in Runs /\ ctx[p] \in Docs
    BY <1>5 DEF WriteEnded, IndexInv, Equipped, WithRun
  <2>2. ended \in Docs /\ ended.state = "run_ended"
    BY <2>1, EndedDoc
  <2>3. docs' = [docs EXCEPT ![run[p]] = ended]
    BY <1>5 DEF WriteEnded
  <2>4. QED
    BY <2>1, <2>2, <2>3
<1>6. ASSUME NEW r \in Runs, AgeRun(r)
      PROVE  \E d \in Docs :
               /\ docs[r] # NoDoc /\ docs[r].age # Old
               /\ d.state = docs[r].state /\ docs' = [docs EXCEPT ![r] = d]
  <2> DEFINE older == [docs[r] EXCEPT !.age = @ + 1]
  <2>1. docs[r] \in Docs /\ docs[r] # NoDoc /\ docs[r].age < Old
    <3>1. docs[r] \in Docs /\ docs[r] # NoDoc
      BY <1>6 DEF AgeRun, IndexInv, TypeOK
    <3>2. docs[r].age \in {0, 1, 2}
      BY <3>1 DEF Docs, Fresh, Stale, Old
    <3>3. docs[r].age < IF docs[r].state = "run_ended" THEN 1 ELSE 2
      BY <1>6 DEF AgeRun, Stale, Old
    <3>4. docs[r].age < 2
      BY <3>2, <3>3
    <3>5. QED
      BY <3>1, <3>4 DEF Old
  <2>2. older \in Docs /\ older.state = docs[r].state
    BY <2>1, OlderDoc
  <2>3. docs' = [docs EXCEPT ![r] = older]
    BY <1>6 DEF AgeRun
  <2>4. docs[r].age # Old
    BY <2>1 DEF Docs, Fresh, Stale, Old
  <2>5. QED
    BY <2>1, <2>2, <2>3, <2>4
<1>7. QED
  BY <1>1, <1>2, <1>3, <1>4, <1>5, <1>6

LEMMA VictimStep ==
  ASSUME IndexInv, [Next]_vars, NEW p \in Hooks, ~ ScanRead(p), pc'[p] = "unlink"
  PROVE  pc[p] = "unlink" /\ victim'[p] = victim[p]
<1> USE DEF IndexInv, TypeOK, Goto, hookVars
<1>1. ASSUME NEW q \in Hooks, HookStep(q)
      PROVE  pc[p] = "unlink" /\ victim'[p] = victim[p]
  <2>1. CASE Lock(q)
    BY <2>1, LockSteps DEF Lock
  <2>2. CASE NotLocked(q) \/ Change(q) \/ ChangeFails(q)
    BY <2>2 DEF NotLocked, Change, ChangeFails, Answer, Exit
  <2>3. CASE WritePid(q) \/ WriteRun(q) \/ Undo(q)
    BY <2>3 DEF WritePid, WriteRun, Undo, Answer
  <2>4. CASE RemovePid(q) \/ WriteStamp(q)
    BY <2>4 DEF RemovePid, WriteStamp, Exit
  <2>5. CASE GcCheck(q) \/ GcTouch(q) \/ ScanDone(q)
    BY <2>5 DEF GcCheck, GcTouch, ScanDone, Answer
  <2>6. CASE ScanRead(q)
    BY <2>6 DEF ScanRead
  <2>7. CASE ScanUnlink(q)
    BY <2>7 DEF ScanUnlink
  <2>8. CASE ReadRun(q)
    BY <2>8 DEF ReadRun, Exit
  <2>9. CASE WriteEnded(q)
    BY <2>9 DEF WriteEnded, Exit
  <2>10. QED
    BY <1>1, <2>1, <2>2, <2>3, <2>4, <2>5, <2>6, <2>7, <2>8, <2>9 DEF HookStep
<1>2. ASSUME NEW q \in Hooks, Crash(q)
      PROVE  pc[p] = "unlink" /\ victim'[p] = victim[p]
  BY <1>2 DEF Crash, Exit
<1>3. ASSUME NEW q \in Hooks, NEW s \in Sessions, StartHook(q, s) \/ EndHook(q, s)
      PROVE  pc[p] = "unlink" /\ victim'[p] = victim[p]
  BY <1>3 DEF StartHook, EndHook
<1>4. CASE \/ \E r \in Runs : AgeRun(r)
           \/ \E s \in Sessions : Renew(s)
           \/ GcInterval
           \/ UNCHANGED vars
  BY <1>4 DEF AgeRun, Renew, GcInterval, vars
<1>5. QED
  BY <1>1, <1>2, <1>3, <1>4 DEF Next

LEMMA DoomedInit == Init => Doomed
BY DEF Init, Doomed

LEMMA DoomedStep == IndexInv /\ Doomed /\ [Next]_vars => Doomed'
<1> SUFFICES ASSUME IndexInv, Doomed, [Next]_vars, NEW p \in Hooks, pc'[p] = "unlink"
             PROVE  \/ docs'[victim'[p]] = NoDoc
                    \/ docs'[victim'[p]].state = "run_ended"
                    \/ docs'[victim'[p]].age = Old
  BY DEF Doomed
<1> DEFINE Dead(d) == d = NoDoc \/ d.state = "run_ended" \/ d.age = Old
<1>1. CASE ScanRead(p)
  BY <1>1 DEF ScanRead, Goto, Collectable, IndexInv, TypeOK
<1>2. CASE ~ ScanRead(p)
  <2>1. pc[p] = "unlink" /\ victim'[p] = victim[p]
    BY <1>2, VictimStep
  <2>2. victim[p] \in Runs /\ Dead(docs[victim[p]])
    BY <2>1 DEF IndexInv, Equipped, Doomed
  <2>3. CASE docs' = docs
    BY <2>1, <2>2, <2>3
  <2>4. CASE docs' # docs
    <3>1. docs \in [Runs -> Docs \cup {NoDoc}]
      BY DEF IndexInv, TypeOK
    <3>2. ASSUME NEW r \in Runs, NEW d, docs' = [docs EXCEPT ![r] = d],
                 r # victim[p] \/ Dead(d)
          PROVE  Dead(docs'[victim[p]])
      BY <2>2, <3>1, <3>2
    <3>3. \A r \in Runs : ~ Known(r) => r # victim[p]
      BY DEF Known
    <3>4. QED
      BY <2>1, <2>2, <2>4, <3>1, <3>2, <3>3, DocSteps DEF IndexInv, Equipped, WithRun
  <2>5. QED
    BY <2>3, <2>4
<1>3. QED
  BY <1>1, <1>2

(* No document of an active run that is younger than seven times the TTL   *)
(* goes, unless the init that wrote it takes it back.                      *)
THEOREM ActiveRunsKept == Spec => ActiveKept
<1> DEFINE Kept ==
      \A r \in Runs :
        /\ docs[r] # NoDoc /\ docs[r].state = "run_active" /\ docs[r].age # Old
        /\ docs'[r] = NoDoc
        => \E p \in Hooks : pc[p] = "undo" /\ run[p] = r
<1>1. IndexInv /\ Doomed /\ [Next]_vars => [Kept]_vars
  <2> SUFFICES ASSUME IndexInv, Doomed, [Next]_vars, NEW r \in Runs,
                      docs[r] # NoDoc, docs[r].state = "run_active", docs[r].age # Old,
                      docs'[r] = NoDoc
               PROVE  \E p \in Hooks : pc[p] = "undo" /\ run[p] = r
    OBVIOUS
  <2>1. docs' # docs /\ docs \in [Runs -> Docs \cup {NoDoc}]
    BY DEF IndexInv, TypeOK
  <2>2. \A p \in Hooks : pc[p] = "unlink" => victim[p] # r
    BY DEF Doomed
  <2>3. \A x \in Runs : ~ Known(x) => x # r
    BY DEF Known
  <2>4. QED
    BY <2>1, <2>2, <2>3, DocSteps, DocAssumption DEF IndexInv, Equipped, WithRun
<1>2. Init => IndexInv /\ Doomed
  BY InvInit, DoomedInit
<1>3. IndexInv /\ Doomed /\ [Next]_vars => (IndexInv /\ Doomed)'
  BY NextInv, DoomedStep
<1>4. QED
  BY <1>1, <1>2, <1>3, PTL DEF Spec, ActiveKept

-----------------------------------------------------------------------------
(* The index names no run without a document.                              *)

LEMMA NamesInit == Init => NamesInv
<1> SUFFICES ASSUME Init PROVE NamesInv
  OBVIOUS
<1>1. Private /\ Remembered
  BY DEF Init, Private, Remembered
<1>2. Named(index) = {NoRun} /\ NoRun \notin Runs
  BY SessionAssumption DEF SessionAssumption, Init, IndexInit, Named, Empty
<1>3. QED
  BY <1>1, <1>2 DEF NamesInv, IndexNamesRuns

(* What each step of a hook does to the run it works on. *)
LEMMA RunSteps ==
  ASSUME IndexInv, NEW p \in Hooks,
         HookStep(p) \/ Crash(p) \/ \E s \in Sessions : StartHook(p, s) \/ EndHook(p, s)
  PROVE  \/ run'[p] \in {run[p], NoRun}
         \/ run'[p] \in Named(index) /\ pc'[p] = "read"
         \/ WriteRun(p) /\ run'[p] \in Runs /\ ~ Known(run'[p])
<1>1. HookTypes
  BY HasHookTypes DEF IndexInv
<1>2. CASE WriteRun(p)
  BY <1>1, <1>2 DEF WriteRun, Answer, HookTypes
<1>3. CASE \E s \in Sessions : EndHook(p, s)
  BY <1>1, <1>3 DEF EndHook, Goto, HookTypes, Named
<1>4. CASE ~ WriteRun(p) /\ ~ \E s \in Sessions : EndHook(p, s)
  BY <1>1, <1>4 DEF HookStep, StartHook, WritePid, Undo, RemovePid, WriteStamp,
        Lock, NotLocked, Change, ChangeFails, GcCheck, GcTouch, ScanRead, ScanUnlink,
        ScanDone, ReadRun, WriteEnded, Crash, Exit, Answer, HookTypes
<1>5. QED
  BY <1>2, <1>3, <1>4

(* An init comes to register a run by having written it, or was there. *)
LEMMA RegisterSteps ==
  ASSUME IndexInv, NEW p \in Hooks,
         HookStep(p) \/ Crash(p) \/ \E s \in Sessions : StartHook(p, s) \/ EndHook(p, s),
         pc'[p] \in {"register", "registering", "undo"}
  PROVE  \/ WriteRun(p) /\ pc'[p] = "register" /\ ~ Known(run'[p]) /\ run'[p] \in Runs
            /\ docs'[run'[p]] = [state |-> "run_active", session |-> of[p], age |-> Fresh]
            /\ \A r \in Runs : r # run'[p] => docs'[r] = docs[r]
         \/ /\ pc[p] \in {"register", "registering"} /\ run'[p] = run[p]
            /\ UNCHANGED <<index, docs>>
<1>1. HookTypes /\ docs \in [Runs -> Docs \cup {NoDoc}]
  BY HasHookTypes DEF IndexInv, TypeOK
<1>2. CASE WriteRun(p)
  BY <1>1, <1>2 DEF WriteRun, Answer, Goto, HookTypes
<1>3. CASE Lock(p)
  <2>1. pc'[p] = LockStep[pc[p]]
    BY <1>1, <1>3 DEF Lock, Goto, HookTypes
  <2>2. pc[p] = "register"
    BY <1>3, <2>1, LockSteps DEF Lock
  <2>3. QED
    BY <1>3, <2>2 DEF Lock
<1>4. CASE NotLocked(p)
  BY <1>1, <1>4 DEF NotLocked, Answer, Exit, Goto, HookTypes
<1>5. CASE WritePid(p) \/ Undo(p) \/ RemovePid(p) \/ WriteStamp(p)
  BY <1>1, <1>5 DEF WritePid, Undo, RemovePid, WriteStamp, Answer, Exit, Goto, HookTypes
<1>6. CASE Change(p) \/ ChangeFails(p)
  BY <1>1, <1>6 DEF Change, ChangeFails, Answer, Exit, Goto, HookTypes
<1>7. CASE GcCheck(p) \/ GcTouch(p) \/ ScanDone(p)
  BY <1>1, <1>7 DEF GcCheck, GcTouch, ScanDone, Answer, Goto, HookTypes
<1>8. CASE ScanRead(p) \/ ScanUnlink(p)
  BY <1>1, <1>8 DEF ScanRead, ScanUnlink, Goto, HookTypes
<1>9. CASE ReadRun(p) \/ WriteEnded(p) \/ Crash(p)
  BY <1>1, <1>9 DEF ReadRun, WriteEnded, Crash, Exit, Goto, HookTypes
<1>10. CASE \E s \in Sessions : StartHook(p, s) \/ EndHook(p, s)
  BY <1>1, <1>10 DEF StartHook, EndHook, Goto, HookTypes
<1>11. QED
  BY <1>2, <1>3, <1>4, <1>5, <1>6, <1>7, <1>8, <1>9, <1>10 DEF HookStep

(* A document changes only under the hand of the hook that works on its run, *)
(* of the collector that means to unlink it, or with time.                 *)
LEMMA YoungKept ==
  ASSUME IndexInv, Doomed, Private, NEW p \in Hooks,
         pc[p] \in {"register", "registering", "undo"}, NEW q \in Hooks, q # p,
         HookStep(q) \/ Crash(q) \/ \E s \in Sessions : StartHook(q, s) \/ EndHook(q, s)
  PROVE  docs'[run[p]] = docs[run[p]]
<1>1. docs \in [Runs -> Docs \cup {NoDoc}] /\ run[p] \in Runs /\ run[q] # run[p]
  BY DEF IndexInv, TypeOK, Equipped, WithRun, Private
<1>2. CASE UNCHANGED docs
  BY <1>2
<1>3. CASE WriteRun(q)
  <2>1. \A r \in Runs : ~ Known(r) => r # run[p]
    BY DEF Known
  <2>2. QED
    BY <1>1, <1>3, <2>1 DEF WriteRun
<1>4. CASE Undo(q) \/ WriteEnded(q)
  BY <1>1, <1>4 DEF Undo, WriteEnded
<1>5. CASE ScanUnlink(q)
  <2>1. victim[q] # run[p]
    BY <1>5 DEF ScanUnlink, Doomed, Private, Young, Fresh, Old
  <2>2. QED
    BY <1>1, <1>5, <2>1 DEF ScanUnlink
<1>6. QED
  BY <1>2, <1>3, <1>4, <1>5
     DEF HookStep, StartHook, EndHook, WritePid, RemovePid, WriteStamp, Lock, NotLocked,
         Change, ChangeFails, GcCheck, GcTouch, ScanRead, ScanDone, ReadRun, Crash

(* The index comes to name nothing but the run of the init that registers.  *)
LEMMA NamedSteps ==
  ASSUME IndexInv, NEW p \in Hooks,
         HookStep(p) \/ Crash(p) \/ \E s \in Sessions : StartHook(p, s) \/ EndHook(p, s)
  PROVE  \/ index' = index
         \/ /\ Change(p) /\ pc[p] = "registering"
            /\ Named(index') \subseteq Named(index) \cup {run[p], NoRun}
         \/ /\ Change(p) /\ pc[p] = "pruning"
            /\ Named(index') \subseteq (Named(index) \ removed[p]) \cup {NoRun}
         \/ /\ Change(p) /\ pc[p] = "clearing"
            /\ Named(index') \subseteq Named(index) \cup {NoRun}
<1>1. CASE Change(p)
  <2>1. seen[p] = Base
    BY <1>1 DEF Change, IndexInv, LockedIndex
  <2>2. pc[p] = "registering" => run[p] \in Runs
    BY DEF IndexInv, Equipped, WithRun
  <2>3. QED
    <3>1. \/ /\ pc[p] = "registering"
             /\ Named(index') \subseteq Named(Base) \cup {run[p]}
          \/ /\ pc[p] = "pruning"
             /\ Named(index') \subseteq (Named(Base) \ removed[p]) \cup {NoRun}
          \/ /\ pc[p] = "clearing"
             /\ Named(index') \subseteq Named(Base) \cup {NoRun}
      BY <1>1, <2>1, <2>2, BaseIndex, RegisteredIndex, PrunedIndex, ClearedIndex
         DEF Change
    <3>2. QED
      BY <1>1, <3>1, BaseIndex
<1>2. CASE ~ Change(p)
  BY <1>2, OnlyChange
<1>3. QED
  BY <1>1, <1>2

LEMMA PrivateStep ==
  ASSUME IndexInv, Doomed, Private, NEW p \in Hooks,
         HookStep(p) \/ Crash(p) \/ \E s \in Sessions : StartHook(p, s) \/ EndHook(p, s)
  PROVE  Private'
<1> SUFFICES ASSUME NEW q \in Hooks, pc'[q] \in {"register", "registering", "undo"}
             PROVE  /\ run'[q] \notin Named(index')
                    /\ \A h \in Hooks : h # q => run'[h] # run'[q]
                    /\ Young(run[q])'
  BY DEF Private
<1>0. NoRun \notin Runs
  BY SessionAssumption DEF SessionAssumption
<1>1. CASE q = p
  <2>1. CASE WriteRun(p) /\ ~ Known(run'[p]) /\ run'[p] \in Runs
             /\ docs'[run'[p]] = [state |-> "run_active", session |-> of[p], age |-> Fresh]
    <3>1. /\ run'[p] \notin Named(index) /\ index' = index
          /\ \A h \in Hooks : run[h] # run'[p]
      BY <2>1 DEF Known, WriteRun
    <3>2. docs'[run'[p]] # NoDoc
      <4>1. docs' \in [Runs -> Docs \cup {NoDoc}] /\ of[p] \in Sessions
        BY <2>1, DiskTypes DEF IndexInv, Equipped, StartOf, WriteRun
      <4>2. [state |-> "run_active", session |-> of[p], age |-> Fresh] \in Docs
        BY <4>1 DEF Docs
      <4>3. QED
        BY <2>1, <4>2, DocAssumption
    <3>3. Young(run[q])'
      BY <1>1, <2>1, <3>2 DEF Young
    <3>4. QED
      BY <1>1, <3>1, <3>3, OthersUntouched
  <2>2. CASE /\ pc[p] \in {"register", "registering"} /\ run'[p] = run[p]
             /\ UNCHANGED <<index, docs>>
    BY <1>1, <2>2, OthersUntouched DEF Private, Young
  <2>3. QED
    BY <1>1, <2>1, <2>2, RegisterSteps
<1>2. CASE q # p
  <2>1. pc'[q] = pc[q] /\ run'[q] = run[q]
    BY <1>2, OthersUntouched
  <2>2. /\ run[q] \notin Named(index) /\ Young(run[q]) /\ run[q] \in Runs
        /\ \A h \in Hooks : h # q => run[h] # run[q]
    BY <2>1 DEF Private, IndexInv, Equipped, WithRun
  <2>3. docs'[run[q]] = docs[run[q]]
    BY <1>2, <2>1, YoungKept
  <2>4. run'[p] # run[q]
    <3>1. run[p] # run[q] /\ run[q] # NoRun
      BY <1>0, <1>2, <2>2
    <3>2. \A r \in Runs : ~ Known(r) => r # run[q]
      BY DEF Known
    <3>3. QED
      BY <2>2, <3>1, <3>2, RunSteps
  <2>5. run[q] \notin Named(index')
    BY <1>0, <1>2, <2>2, NamedSteps
  <2>6. \A h \in Hooks : h # q => run'[h] # run[q]
    BY <2>2, <2>4, OthersUntouched
  <2>7. QED
    BY <2>1, <2>2, <2>3, <2>5, <2>6 DEF Young
<1>3. QED
  BY <1>1, <1>2

LEMMA RememberedStep ==
  ASSUME IndexInv, Remembered, NEW p \in Hooks,
         HookStep(p) \/ Crash(p) \/ \E s \in Sessions : StartHook(p, s) \/ EndHook(p, s)
  PROVE  /\ Remembered'
         /\ \/ removed[p] \subseteq removed'[p]
            \/ removed[p] \cap Named(index) \subseteq leftover' /\ index' = index
            \/ Change(p) /\ pc[p] = "pruning"
<1> USE DEF Goto
<1>1. HookTypes /\ (pc[p] \notin {"scan", "unlink", "prune", "pruning"} => removed[p] = {})
  BY HasHookTypes DEF IndexInv, Remembered
<1>2. /\ pc'[p] \notin {"scan", "unlink", "prune", "pruning"} => removed'[p] = {}
      /\ \/ removed[p] \subseteq removed'[p]
         \/ removed[p] \cap Named(index) \subseteq leftover' /\ index' = index
         \/ Change(p) /\ pc[p] = "pruning"
  <2>1. CASE WritePid(p) \/ (\E s \in Sessions : StartHook(p, s)) \/ WriteRun(p)
    BY <1>1, <2>1 DEF WritePid, StartHook, WriteRun, Answer, HookTypes
  <2>2. CASE Undo(p) \/ RemovePid(p) \/ WriteStamp(p)
    BY <1>1, <2>2 DEF Undo, RemovePid, WriteStamp, Answer, Exit, HookTypes
  <2>3. CASE Lock(p)
    BY <1>1, <2>3, LockSteps DEF Lock, HookTypes
  <2>4. CASE NotLocked(p)
    BY <1>1, <2>4 DEF NotLocked, Answer, Exit, LeaveBehind, HookTypes
  <2>5. CASE Change(p)
    BY <1>1, <2>5 DEF Change, Answer, Exit, HookTypes
  <2>6. CASE ChangeFails(p)
    BY <1>1, <2>6 DEF ChangeFails, Answer, Exit, LeaveBehind, HookTypes
  <2>7. CASE GcCheck(p) \/ GcTouch(p) \/ ScanDone(p)
    BY <1>1, <2>7 DEF GcCheck, GcTouch, ScanDone, Answer, HookTypes
  <2>8. CASE ScanRead(p) \/ ScanUnlink(p)
    BY <1>1, <2>8 DEF ScanRead, ScanUnlink, HookTypes
  <2>9. CASE ReadRun(p) \/ WriteEnded(p)
    BY <1>1, <2>9 DEF ReadRun, WriteEnded, Exit, HookTypes
  <2>10. CASE Crash(p)
    BY <1>1, <2>10 DEF Crash, Exit, LeaveBehind, HookTypes
  <2>11. CASE \E s \in Sessions : EndHook(p, s)
    BY <1>1, <2>11 DEF EndHook, HookTypes
  <2>12. QED
    BY <2>1, <2>2, <2>3, <2>4, <2>5, <2>6, <2>7, <2>8, <2>9, <2>10, <2>11 DEF HookStep
<1>3. QED
  BY <1>2, OthersUntouched DEF Remembered

(* A document goes back by its own init, which the index does not know yet, *)
(* or goes to a collector, who remembers it.                               *)
LEMMA DocumentGoes ==
  ASSUME IndexInv, Private, NEW p \in Hooks,
         HookStep(p) \/ Crash(p) \/ \E s \in Sessions : StartHook(p, s) \/ EndHook(p, s),
         NEW r \in Runs \cap Named(index), docs[r] # NoDoc, docs'[r] = NoDoc
  PROVE  r \in removed'[p] /\ index' = index
<1>1. docs \in [Runs -> Docs \cup {NoDoc}] /\ HookTypes
  BY HasHookTypes DEF IndexInv, TypeOK
<1>2. CASE WriteRun(p)
  BY <1>1, <1>2 DEF WriteRun, Known
<1>3. CASE Undo(p)
  <2>1. run[p] # r
    BY <1>3 DEF Undo, Private
  <2>2. QED
    BY <1>1, <1>3, <2>1 DEF Undo
<1>4. CASE WriteEnded(p)
  <2>1. ctx[p] \in Docs
    BY <1>4 DEF WriteEnded, IndexInv, Equipped
  <2>2. [state |-> "run_ended", session |-> ctx[p].session, age |-> Fresh] # NoDoc
    BY <2>1, EndedDoc, DocAssumption
  <2>3. QED
    BY <1>1, <1>4, <2>2 DEF WriteEnded
<1>5. CASE ScanUnlink(p)
  BY <1>1, <1>5 DEF ScanUnlink, HookTypes
<1>6. QED
  BY <1>2, <1>3, <1>4, <1>5
     DEF HookStep, StartHook, EndHook, WritePid, RemovePid, WriteStamp, Lock, NotLocked,
         Change, ChangeFails, GcCheck, GcTouch, ScanRead, ScanDone, ReadRun, Crash

(* A run is forgotten to be left over only when the index forgets it. *)
LEMMA LeftoverKept ==
  ASSUME NEW p \in Hooks,
         HookStep(p) \/ Crash(p) \/ \E s \in Sessions : StartHook(p, s) \/ EndHook(p, s)
  PROVE  leftover \cap Named(index') \subseteq leftover'
BY DEF HookStep, StartHook, EndHook, WritePid, WriteRun, Undo, RemovePid, WriteStamp,
   Lock, NotLocked, Change, ChangeFails, GcCheck, GcTouch, ScanRead, ScanUnlink, ScanDone,
   ReadRun, WriteEnded, Crash, LeaveBehind

LEMMA NamesStep ==
  ASSUME IndexInv, Doomed, NamesInv, NEW p \in Hooks,
         HookStep(p) \/ Crash(p) \/ \E s \in Sessions : StartHook(p, s) \/ EndHook(p, s)
  PROVE  NamesInv'
<1>1. Private' /\ Remembered'
  BY PrivateStep, RememberedStep DEF NamesInv
<1>2. ASSUME NEW r \in Runs \cap Named(index'),
             docs'[r] = NoDoc, r \notin leftover', \A q \in Hooks : r \notin removed'[q]
      PROVE  FALSE
  <2>1. NoRun \notin Runs
    BY SessionAssumption DEF SessionAssumption
  <2>2. CASE r \in Named(index)
    <3>1. docs[r] = NoDoc
      BY <1>2, <2>2, DocumentGoes DEF NamesInv
    <3>2. r \notin leftover
      BY <1>2, LeftoverKept
    <3>3. PICK q \in Hooks : r \in removed[q]
      BY <2>2, <3>1, <3>2 DEF NamesInv, IndexNamesRuns
    <3>4. q = p
      BY <1>2, <3>3, OthersUntouched
    <3>5. CASE Change(p) /\ pc[p] = "pruning"
      <4>1. r \notin Named(index') \/ index' = index
        BY <2>1, <3>3, <3>4, <3>5, NamedSteps
      <4>2. index' = Pruned(Base, removed[p])
        BY <3>5 DEF Change, IndexInv, LockedIndex
      <4>3. Named(index') \subseteq (Named(index) \ removed[p]) \cup {NoRun}
        BY <4>2, BaseIndex, PrunedIndex
      <4>4. QED
        BY <1>2, <2>1, <3>3, <3>4, <4>3
    <3>6. QED
      BY <1>2, <2>2, <3>3, <3>4, <3>5, RememberedStep DEF NamesInv
  <2>3. CASE r \notin Named(index)
    <3>1. Change(p) /\ pc[p] = "registering" /\ r = run[p]
      BY <1>2, <2>1, <2>3, NamedSteps
    <3>2. docs' = docs /\ docs[r] # NoDoc
      BY <3>1 DEF Change, NamesInv, Private, Young
    <3>3. QED
      BY <1>2, <3>2
  <2>4. QED
    BY <2>2, <2>3
<1>3. QED
  BY <1>1, <1>2 DEF NamesInv, IndexNamesRuns

LEMMA NamesOther ==
  ASSUME IndexInv, NamesInv,
         \/ \E r \in Runs : AgeRun(r)
         \/ \E s \in Sessions : Renew(s)
         \/ GcInterval
         \/ UNCHANGED vars
  PROVE  NamesInv'
<1>1. ASSUME NEW r \in Runs, AgeRun(r) PROVE NamesInv'
  <2>1. /\ UNCHANGED <<index, hookVars, leftover>>
        /\ docs' = [docs EXCEPT ![r].age = @ + 1]
        /\ docs[r] # NoDoc /\ docs \in [Runs -> Docs \cup {NoDoc}]
        /\ \A p \in Hooks : run[p] = r => pc[p] \notin StartSteps
    BY <1>1 DEF AgeRun, IndexInv, TypeOK
  <2>2. docs' \in [Runs -> Docs \cup {NoDoc}]
    BY <1>1, OtherInv DEF IndexInv, TypeOK
  <2>3. \A x \in Runs : x # r => docs'[x] = docs[x]
    BY <2>1
  <2>4. docs'[r] # NoDoc
    <3>1. docs[r] \in Docs /\ docs[r].age < Old
      <4>1. docs[r] \in Docs /\ docs[r].age \in {0, 1, 2}
        BY <2>1 DEF Docs, Fresh, Stale, Old
      <4>2. docs[r].age < IF docs[r].state = "run_ended" THEN 1 ELSE 2
        BY <1>1 DEF AgeRun, Stale, Old
      <4>3. docs[r].age < 2
        BY <4>1, <4>2
      <4>4. QED
        BY <4>1, <4>3 DEF Old
    <3> DEFINE older == [docs[r] EXCEPT !.age = @ + 1]
    <3>2. older \in Docs /\ docs'[r] = older
      BY <2>1, <3>1, OlderDoc
    <3>3. QED
      BY <3>2, DocAssumption
  <2>5. Private'
    <3>1. \A p \in Hooks : pc[p] \in {"register", "registering", "undo"}
                             => run[p] # r /\ run[p] \in Runs
      BY <2>1 DEF StartSteps, IndexInv, Equipped, WithRun
    <3>2. QED
      BY <2>1, <2>3, <3>1 DEF NamesInv, Private, Young, hookVars
  <2>6. Remembered' /\ IndexNamesRuns'
    BY <2>1, <2>3, <2>4 DEF NamesInv, Remembered, IndexNamesRuns, hookVars
  <2>7. QED
    BY <2>5, <2>6 DEF NamesInv
<1>2. CASE UNCHANGED <<index, docs, leftover, hookVars>>
  BY <1>2 DEF NamesInv, Private, Young, Remembered, IndexNamesRuns, hookVars
<1>3. QED
  BY <1>1, <1>2 DEF Renew, GcInterval, vars

(* The index names no run without a document but those that a collector is  *)
(* about to take out or gave up taking out, for any number of inits, ends,  *)
(* collectors, kills and timeouts (gc_stale_runs unlinks first, and prunes  *)
(* the index after; cmd_init writes first, and registers after).           *)
THEOREM NamedRunsHaveDocuments == Spec => []IndexNamesRuns
<1>1. Init => IndexInv /\ Doomed /\ NamesInv
  BY InvInit, DoomedInit, NamesInit
<1>2. IndexInv /\ Doomed /\ NamesInv /\ [Next]_vars => (IndexInv /\ Doomed /\ NamesInv)'
  BY NextInv, DoomedStep, NamesStep, NamesOther DEF Next
<1>3. NamesInv => IndexNamesRuns
  BY DEF NamesInv
<1>4. QED
  BY <1>1, <1>2, <1>3, PTL DEF Spec

=============================================================================
