-------------------------- MODULE PrClaimRegistry --------------------------
(***************************************************************************)
(* The claim registry: the lock that keeps two skill runs from mutating    *)
(* one pull request at a time                                              *)
(* (plugins/onex/hooks/lib/pr_claim_registry.py).                          *)
(*                                                                         *)
(* A claim is one file per pull request and the claims of two pull         *)
(* requests never meet, so the module follows one path.  There is no lock  *)
(* around it: every call is a sequence of reads, renames, links and        *)
(* unlinks of that path, and the calls of different processes interleave   *)
(* between them.  A step of the module is one such access to the path;     *)
(* what a call does to files only it knows (its tomb, its temp file) is    *)
(* part of the step before or after.                                       *)
(***************************************************************************)
EXTENDS Integers, FiniteSets

CONSTANTS
  Callers,         \* processes or threads that use the registry
  Run,             \* the run id of each caller
  Lane,            \* the lane of each caller, or Unknown
  Session,         \* the session of each caller, or Unknown
  Unknown,         \* the lane or session of a caller that names none
  NoClaim,         \* nothing at the path
  Malformed,       \* a file that is not JSON
  HeartbeatStale,  \* HEARTBEAT_STALE_MINUTES, in ticks
  ClaimStale,      \* CLAIMED_AT_STALE_HOURS, in ticks
  MaxAttempts,     \* acquire's range(4)
  Leftover,        \* what a run may find at the path when it starts
  LateCalls,       \* the calls made by callers whose claim lapsed, or never was
  LateUntil,       \* bound: the last tick at which such a call starts
  SleepMidCall,    \* may the clock pass a threshold during one call?
  MaxTime,         \* bound: ticks in one behaviour
  MaxFaults,       \* bound: I/O errors in one behaviour
  MaxCrashes       \* bound: callers killed in one behaviour

ASSUME RegistryAssumption ==
  /\ HeartbeatStale \in Nat
  /\ ClaimStale \in Nat
  /\ MaxAttempts \in Nat \ {0}
  /\ MaxTime \in Nat
  /\ MaxFaults \in Nat
  /\ MaxCrashes \in Nat
  /\ LateCalls \subseteq {"release", "heartbeat", "cleanup"}
  /\ LateUntil \in Nat
  /\ SleepMidCall \in BOOLEAN
  /\ Leftover \subseteq {NoClaim, Malformed}
  /\ NoClaim # Malformed

VARIABLES
  now,      \* the wall clock
  file,     \* what the claim path holds
  beatTmp,  \* what the heartbeat's temp path holds: one path for all callers
  pc,       \* where each caller is in its call
  tries,    \* the acquire attempt each caller is in
  mine,     \* the record a call carries: to be linked, or to be rewritten
  tomb,     \* what each caller has moved aside
  held,     \* the record on the strength of which a caller goes ahead
  answer,   \* what the caller's last acquire answered
  met,      \* what that acquire met: a live claim, a torn one, an error
  faults,   \* I/O errors so far
  crashes   \* crashes so far

callVars == <<tries, mine, tomb>>
vars == <<now, file, beatTmp, pc, tries, mine, tomb, held, answer, met,
          faults, crashes>>

Time == 0..MaxTime
Claim == [by : Callers, claimedAt : Time, beatAt : Time]
Content == Claim \cup {NoClaim, Malformed}

ASSUME ContentAssumption == NoClaim \notin Claim /\ Malformed \notin Claim

AcquireSteps == {"reading", "reaping", "settling", "linking"}
Steps == AcquireSteps \cup
         {"idle", "unlinking", "beating", "filling", "renaming", "cleaning"}

TypeOK ==
  /\ now \in Time
  /\ file \in Content
  /\ beatTmp \in Content
  /\ pc \in [Callers -> Steps]
  /\ tries \in [Callers -> 0..MaxAttempts]
  /\ mine \in [Callers -> Claim \cup {NoClaim}]
  /\ tomb \in [Callers -> Content]
  /\ held \in [Callers -> Claim \cup {NoClaim}]
  /\ answer \in [Callers -> {"none", "granted", "refused"}]
  /\ met \in [Callers -> SUBSET {"live", "torn", "error"}]
  /\ faults \in 0..MaxFaults
  /\ crashes \in 0..MaxCrashes

Init ==
  /\ now = 0
  /\ file \in Leftover
  /\ beatTmp = NoClaim
  /\ pc = [c \in Callers |-> "idle"]
  /\ tries = [c \in Callers |-> 0]
  /\ mine = [c \in Callers |-> NoClaim]
  /\ tomb = [c \in Callers |-> NoClaim]
  /\ held = [c \in Callers |-> NoClaim]
  /\ answer = [c \in Callers |-> "none"]
  /\ met = [c \in Callers |-> {}]
  /\ faults = 0
  /\ crashes = 0

-----------------------------------------------------------------------------
(* A claim lapses only when its heartbeat is stale and it is old: a         *)
(* malformed one is inactive at once.                                      *)
IsActive(x) ==
  /\ x \in Claim
  /\ \/ now - x.beatAt =< HeartbeatStale
     \/ now - x.claimedAt =< ClaimStale

BothKnownDiffer(a, b) == a # Unknown /\ b # Unknown /\ a # b

(* Whether claim x is c's own, for a call that passes session s. *)
IsOwnClaim(x, c, s) ==
  /\ Run[x.by] = Run[c]
  /\ ~ BothKnownDiffer(Session[x.by], s)
  /\ ~ BothKnownDiffer(Lane[x.by], Lane[c])

Own(x, c) == IsOwnClaim(x, c, Session[c])
Holds(c) == IsActive(held[c])

Goto(c, step) == pc' = [pc EXCEPT ![c] = step]

Meets(c, x) ==
  met' = IF IsActive(x) THEN [met EXCEPT ![c] = @ \cup {"live"}] ELSE met

(* What a link collides with: a claim, or a torn one. *)
MeetsContender(c, x) ==
  met' = [met EXCEPT ![c] = @ \cup
            {k \in {"live", "torn"} :
               \/ k = "live" /\ IsActive(x)
               \/ k = "torn" /\ x = Malformed}]

(* An I/O error, as long as the bound allows one. *)
Fault(c) ==
  /\ faults < MaxFaults
  /\ faults' = faults + 1
  /\ met' = [met EXCEPT ![c] = @ \cup {"error"}]

(* What c has moved aside stays in c's tomb for good if c never settled it: *)
(* no code opens a tomb again, so the module forgets it.                   *)
EndCall(c) ==
  /\ Goto(c, "idle")
  /\ tries' = [tries EXCEPT ![c] = 0]
  /\ mine' = [mine EXCEPT ![c] = NoClaim]
  /\ tomb' = [tomb EXCEPT ![c] = NoClaim]

Grant(c, x) ==
  /\ EndCall(c)
  /\ held' = [held EXCEPT ![c] = x]
  /\ answer' = [answer EXCEPT ![c] = "granted"]

Refuse(c) ==
  /\ EndCall(c)
  /\ held' = [held EXCEPT ![c] = NoClaim]
  /\ answer' = [answer EXCEPT ![c] = "refused"]

-----------------------------------------------------------------------------
(* acquire *)

(* The claim is stamped once, before the loop of attempts. *)
Acquire(c) ==
  /\ pc[c] = "idle"
  /\ Goto(c, "reading")
  /\ tries' = [tries EXCEPT ![c] = 1]
  /\ mine' = [mine EXCEPT ![c] = [by |-> c, claimedAt |-> now, beatAt |-> now]]
  /\ answer' = [answer EXCEPT ![c] = "none"]
  /\ met' = [met EXCEPT ![c] = {}]
  /\ UNCHANGED <<now, file, beatTmp, tomb, held, faults, crashes>>

ReadFree(c) ==
  /\ pc[c] = "reading"
  /\ file = NoClaim
  /\ Goto(c, "linking")
  /\ UNCHANGED <<now, file, beatTmp, callVars, held, answer, met, faults,
                 crashes>>

ReadActive(c) ==
  /\ pc[c] = "reading"
  /\ IsActive(file)
  /\ \/ Own(file, c) /\ Grant(c, file)
     \/ ~ Own(file, c) /\ Refuse(c)
  /\ Meets(c, file)
  /\ UNCHANGED <<now, file, beatTmp, faults, crashes>>

ReadInactive(c) ==
  /\ pc[c] = "reading"
  /\ file # NoClaim
  /\ ~ IsActive(file)
  /\ Goto(c, "reaping")
  /\ UNCHANGED <<now, file, beatTmp, callVars, held, answer, met, faults,
                 crashes>>

(* A file that cannot be read is presumed inactive. *)
ReadFails(c) ==
  /\ pc[c] = "reading"
  /\ file # NoClaim
  /\ Fault(c)
  /\ Goto(c, "reaping")
  /\ UNCHANGED <<now, file, beatTmp, callVars, held, answer, crashes>>

(* Mutant of ReapMissing: a claim reaped by another caller is a refusal. *)
ReapMissingRefused(c) ==
  /\ pc[c] = "reaping"
  /\ file = NoClaim
  /\ Refuse(c)
  /\ UNCHANGED <<now, file, beatTmp, met, faults, crashes>>

ReapMissing(c) ==
  /\ pc[c] = "reaping"
  /\ file = NoClaim
  /\ Goto(c, "linking")
  /\ UNCHANGED <<now, file, beatTmp, callVars, held, answer, met, faults,
                 crashes>>

(* The rename takes whatever is at the path by now. *)
Reap(c) ==
  /\ pc[c] = "reaping"
  /\ file # NoClaim
  /\ tomb' = [tomb EXCEPT ![c] = file]
  /\ file' = NoClaim
  /\ Goto(c, "settling")
  /\ Meets(c, file)
  /\ UNCHANGED <<now, beatTmp, tries, mine, held, answer, faults, crashes>>

ReapFails(c) ==
  /\ pc[c] = "reaping"
  /\ Fault(c)
  /\ Refuse(c)
  /\ UNCHANGED <<now, file, beatTmp, crashes>>

(* Mutant of SettleInactive: the tomb is not revalidated. *)
SettleUnchecked(c) ==
  /\ pc[c] = "settling"
  /\ tomb' = [tomb EXCEPT ![c] = NoClaim]
  /\ Goto(c, "linking")
  /\ UNCHANGED <<now, file, beatTmp, tries, mine, held, answer, met, faults,
                 crashes>>

(* The tomb is inactive: it goes, and the path is clear as far as c knows. *)
SettleInactive(c) ==
  /\ pc[c] = "settling"
  /\ ~ IsActive(tomb[c])
  /\ tomb' = [tomb EXCEPT ![c] = NoClaim]
  /\ Goto(c, "linking")
  /\ UNCHANGED <<now, file, beatTmp, tries, mine, held, answer, met, faults,
                 crashes>>

(* A link never replaces: the tomb's claim comes back to an empty path. *)
LinkedBack(x) == IF file = NoClaim THEN x ELSE file

(* Mutant of SettleActive: the live claim is not put back. *)
SettleActiveDropped(c) ==
  /\ pc[c] = "settling"
  /\ IsActive(tomb[c])
  /\ \/ Own(tomb[c], c) /\ Grant(c, tomb[c])
     \/ ~ Own(tomb[c], c) /\ Refuse(c)
  /\ UNCHANGED <<now, file, beatTmp, met, faults, crashes>>

(* The tomb holds a live claim: put it back and answer by it. *)
SettleActive(c) ==
  /\ pc[c] = "settling"
  /\ IsActive(tomb[c])
  /\ file' = LinkedBack(tomb[c])
  /\ \/ Own(tomb[c], c) /\ Grant(c, tomb[c])
     \/ ~ Own(tomb[c], c) /\ Refuse(c)
  /\ UNCHANGED <<now, beatTmp, met, faults, crashes>>

(* The tomb cannot be read and is put back unseen, or cannot be put back   *)
(* or unlinked: refused either way.                                        *)
SettleFails(c) ==
  /\ pc[c] = "settling"
  /\ Fault(c)
  /\ file' \in {file, LinkedBack(tomb[c])}
  /\ Refuse(c)
  /\ UNCHANGED <<now, beatTmp, crashes>>

Link(c) ==
  /\ pc[c] = "linking"
  /\ file = NoClaim
  /\ file' = mine[c]
  /\ Grant(c, mine[c])
  /\ UNCHANGED <<now, beatTmp, met, faults, crashes>>

(* Mutant of Collide: the attempts are not counted. *)
CollideForever(c) ==
  /\ pc[c] = "linking"
  /\ file # NoClaim
  /\ MeetsContender(c, file)
  /\ Goto(c, "reading")
  /\ UNCHANGED <<now, file, beatTmp, callVars, held, answer, faults, crashes>>

(* Mutant of Collide: one more attempt than the loop allows. *)
CollideOneMore(c) ==
  /\ pc[c] = "linking"
  /\ file # NoClaim
  /\ MeetsContender(c, file)
  /\ tries' = [tries EXCEPT ![c] = @ + 1]
  /\ Goto(c, "reading")
  /\ UNCHANGED <<now, file, beatTmp, mine, tomb, held, answer, faults,
                 crashes>>

(* A contender linked first: start over, MaxAttempts times in all. *)
Collide(c) ==
  /\ pc[c] = "linking"
  /\ file # NoClaim
  /\ MeetsContender(c, file)
  /\ \/ /\ tries[c] < MaxAttempts
        /\ tries' = [tries EXCEPT ![c] = @ + 1]
        /\ Goto(c, "reading")
        /\ UNCHANGED <<mine, tomb, held, answer>>
     \/ /\ tries[c] = MaxAttempts
        /\ Refuse(c)
  /\ UNCHANGED <<now, file, beatTmp, faults, crashes>>

(* The temp file cannot be written or linked, or it is linked and then      *)
(* cannot be unlinked: that error leaves acquire, but the claim stays.     *)
LinkFails(c) ==
  /\ pc[c] = "linking"
  /\ Fault(c)
  /\ file' \in {file, LinkedBack(mine[c])}
  /\ Refuse(c)
  /\ UNCHANGED <<now, beatTmp, crashes>>

-----------------------------------------------------------------------------
(* release, heartbeat and cleanup_stale_own_claims read, decide, and then   *)
(* act on the path, not on what they read.                                 *)

(* Whether c and d are one owner, as the code means it: lanes that share a *)
(* run id are not, and neither are sessions.                               *)
SameOwner(c, d) ==
  Run[c] = Run[d] /\ Lane[c] = Lane[d] /\ Session[c] = Session[d]

(* A run calls while its claim lives, and may be late.  A heartbeat thread  *)
(* that beats beside the run's own release is a caller with the run, lane   *)
(* and session of that run, whose beats may be late.                       *)
MayCall(c, call) ==
  /\ pc[c] = "idle"
  /\ Holds(c) \/ (call \in LateCalls /\ now =< LateUntil)

(* Whoever releases is done with the pull request, whatever it is told. *)
LetGo(c) == held' = [held EXCEPT ![c] = NoClaim]

(* release is passed no session. *)
MayRelease(c) ==
  /\ file \in Claim
  /\ Run[file.by] = Run[c]
  /\ IsActive(file) => IsOwnClaim(file, c, Unknown)

Release(c) ==
  /\ MayCall(c, "release")
  /\ LetGo(c)
  /\ IF MayRelease(c) THEN Goto(c, "unlinking") ELSE UNCHANGED pc
  /\ UNCHANGED <<now, file, beatTmp, callVars, answer, met, faults, crashes>>

ReleaseUnlink(c) ==
  /\ pc[c] = "unlinking"
  /\ file' = NoClaim
  /\ EndCall(c)
  /\ UNCHANGED <<now, beatTmp, held, answer, met, faults, crashes>>

(* The read or the unlink raises: the claim stays until it lapses. *)
ReleaseFails(c) ==
  /\ \/ MayCall(c, "release") /\ LetGo(c)
     \/ pc[c] = "unlinking" /\ UNCHANGED held
  /\ Fault(c)
  /\ EndCall(c)
  /\ UNCHANGED <<now, file, beatTmp, answer, crashes>>

(* Only the run id is compared. *)
Heartbeat(c) ==
  /\ MayCall(c, "heartbeat")
  /\ file \in Claim
  /\ Run[file.by] = Run[c]
  /\ mine' = [mine EXCEPT ![c] = [file EXCEPT !.beatAt = now]]
  /\ Goto(c, "beating")
  /\ UNCHANGED <<now, file, beatTmp, tries, tomb, held, answer, met, faults,
                 crashes>>

(* Opening the temp path empties what is there, another's beat included. *)
HeartbeatOpen(c) ==
  /\ pc[c] = "beating"
  /\ beatTmp' = Malformed
  /\ Goto(c, "filling")
  /\ UNCHANGED <<now, file, callVars, held, answer, met, faults, crashes>>

SameClaim(x, y) ==
  x \in Claim /\ y \in Claim /\ x.by = y.by /\ x.claimedAt = y.claimedAt

(* Whoever goes ahead on a claim that is renewed goes ahead on the new one. *)
Renew(x) ==
  held' = [d \in Callers |-> IF SameClaim(held[d], x) THEN x ELSE held[d]]

OtherBeats(c) == \E d \in Callers \ {c} : pc[d] \in {"filling", "renaming"}

(* The temp path is shared.  What c opened may have been renamed meanwhile: *)
(* c then writes the file at the claim path, or one that is gone from it.   *)
HeartbeatWrite(c) ==
  /\ pc[c] = "filling"
  /\ \/ /\ beatTmp # NoClaim
        /\ beatTmp' = mine[c]
        /\ UNCHANGED <<file, held>>
     \/ /\ beatTmp = NoClaim \/ OtherBeats(c)
        /\ file # NoClaim
        /\ file' = mine[c]
        /\ Renew(mine[c])
        /\ UNCHANGED beatTmp
     \/ beatTmp = NoClaim /\ UNCHANGED <<file, held, beatTmp>>
  /\ Goto(c, "renaming")
  /\ UNCHANGED <<now, callVars, answer, met, faults, crashes>>

(* What is renamed may be another's beat, or empty still; or it is gone,    *)
(* which makes the rename raise.                                           *)
HeartbeatRename(c) ==
  /\ pc[c] = "renaming"
  /\ file' = IF beatTmp = NoClaim THEN file ELSE beatTmp
  /\ Renew(beatTmp)
  /\ beatTmp' = NoClaim
  /\ EndCall(c)
  /\ UNCHANGED <<now, answer, met, faults, crashes>>

HeartbeatFails(c) ==
  /\ pc[c] \in {"beating", "filling", "renaming"}
  /\ Fault(c)
  /\ EndCall(c)
  /\ UNCHANGED <<now, file, beatTmp, held, answer, crashes>>

(* At the start of a resumed run: what is its own and lapsed goes. *)
Cleanup(c) ==
  /\ MayCall(c, "cleanup")
  /\ file \in Claim
  /\ Run[file.by] = Run[c]
  /\ ~ IsActive(file)
  /\ Goto(c, "cleaning")
  /\ UNCHANGED <<now, file, beatTmp, callVars, held, answer, met, faults,
                 crashes>>

CleanupUnlink(c) ==
  /\ pc[c] = "cleaning"
  /\ \/ file' = NoClaim /\ UNCHANGED <<met, faults>>
     \/ Fault(c) /\ UNCHANGED file
  /\ EndCall(c)
  /\ UNCHANGED <<now, beatTmp, held, answer, crashes>>

-----------------------------------------------------------------------------
(* The clock passes a threshold.  A call lasts milliseconds, but nothing    *)
(* keeps one from straddling a threshold: SleepMidCall says whether it may. *)
Tick ==
  /\ now < MaxTime
  /\ SleepMidCall \/ \A c \in Callers : pc[c] = "idle"
  /\ now' = now + 1
  /\ UNCHANGED <<file, beatTmp, pc, callVars, held, answer, met, faults,
                 crashes>>

(* c's process is killed: it holds nothing any more, its files stay. *)
Crash(c) ==
  /\ crashes < MaxCrashes
  /\ pc[c] # "idle" \/ held[c] # NoClaim
  /\ crashes' = crashes + 1
  /\ EndCall(c)
  /\ LetGo(c)
  /\ UNCHANGED <<now, file, beatTmp, answer, met, faults>>

(* What c does next when it is in the middle of a call. *)
Continue(c) ==
  \/ ReadFree(c) \/ ReadActive(c) \/ ReadInactive(c) \/ ReadFails(c)
  \/ ReapMissing(c) \/ Reap(c) \/ ReapFails(c)
  \/ SettleInactive(c) \/ SettleActive(c) \/ SettleFails(c)
  \/ Link(c) \/ Collide(c) \/ LinkFails(c)
  \/ ReleaseUnlink(c)
  \/ HeartbeatOpen(c) \/ HeartbeatWrite(c) \/ HeartbeatRename(c)
  \/ HeartbeatFails(c)
  \/ CleanupUnlink(c)

Call(c) ==
  \/ Acquire(c) \/ Release(c) \/ ReleaseFails(c) \/ Heartbeat(c) \/ Cleanup(c)

Next ==
  \/ Tick
  \/ \E c \in Callers : Call(c) \/ Continue(c) \/ Crash(c)

Spec == Init /\ [][Next]_vars

-----------------------------------------------------------------------------
(* Two owners never go ahead on live claims at once: what the registry is  *)
(* for ("prevents multiple concurrent skill runs from mutating the same PR *)
(* simultaneously", and lanes of one session alike).                       *)
MutualExclusion ==
  \A c, d \in Callers : Holds(c) /\ Holds(d) => SameOwner(c, d)

(* A claim somebody still goes ahead on is not lost: it is at the path, or  *)
(* in the tomb of a caller that has yet to put it back ("the tomb is       *)
(* revalidated so a racing live claim is preserved").                      *)
RacingClaimPreserved ==
  \A c \in Callers : Holds(c) =>
    \/ SameClaim(file, held[c])
    \/ \E d \in Callers : SameClaim(tomb[d], held[c])

(* Nobody is turned away for nothing: a refused acquire has met a live     *)
(* claim at the path, or one that two heartbeats have torn since it looked, *)
(* or an I/O error.  An expired claim, a malformed one it finds there or a *)
(* lost race to reap one is no reason.                                     *)
RefusalJustified ==
  \A c \in Callers : answer[c] = "refused" => met[c] # {}

(* Every acquire answers, however the contenders interleave. *)
AcquireAnswers ==
  \A c \in Callers : pc[c] \in AcquireSteps ~> pc[c] \notin AcquireSteps
=============================================================================
