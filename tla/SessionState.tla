---------------------------- MODULE SessionState ----------------------------
(***************************************************************************)
(* Session state: one document per run and the index session.json, which   *)
(* the hooks of several sessions change in the background                  *)
(* (plugins/onex/hooks/lib/node_session_state_effect.py and _adapter.py,   *)
(* called by scripts/session-start.sh and session-end.sh).                 *)
(*                                                                         *)
(* A hook is a background process: init, with the garbage collection that  *)
(* follows it, or end.  A step is one file that it reads, writes, renames  *)
(* or unlinks.  Run ids are uuid4: an id of Runs is taken again only when  *)
(* nothing knows it any more.  Not modelled: set-active-run, which no hook *)
(* calls, files that cannot be parsed, and sessions without an id.         *)
(***************************************************************************)
EXTENDS RunIndex, FiniteSets

CONSTANTS
  Sessions, Hooks,
  NoSession, NoHook, NoDoc,   \* model values for "none"
  PidGuard,      \* whether session-start.sh's bash knows $BASHPID
  Starters,      \* bound: the hooks that may be inits,
  Enders,        \* and those that may be ends
  MaxFaults      \* bound: I/O errors and kills in one behaviour

ASSUME SessionAssumption ==
  /\ NoHook \notin Hooks
  /\ NoRun \notin Runs
  /\ NoSession \notin Sessions
  /\ PidGuard \in BOOLEAN
  /\ Starters \subseteq Hooks /\ Enders \subseteq Hooks
  /\ MaxRecent \in Nat \ {0}
  /\ MaxFaults \in Nat

VARIABLES
  docs,        \* runs/<run id>.json
  lock,        \* who holds the flock on session.json.lock
  gcDue,       \* .gc_last_run is missing or older than its interval
  stamp,       \* whether a session's .done file exists
  pidFile,     \* the live process that its .pid file names
  pc, of,      \* what each hook does next, and for which session
  run,         \* the run it works on
  ctx,         \* the document that end has read
  seen,        \* the index as it was read under the lock
  todo,        \* documents that the collector has still to read,
  victim,      \* the one it is about to unlink,
  removed,     \* and those it has unlinked
  faults,
  leftover     \* history: unlinked runs that the collector left in the index

hookVars == <<pc, of, run, ctx, seen, todo, victim, removed>>
vars ==
  <<indexVars, docs, lock, gcDue, stamp, pidFile, hookVars, faults, leftover>>

Fresh == 0
Stale == 1     \* updated_at is past the TTL
Old == 2       \* past seven times the TTL

Docs == [state : {"run_active", "run_ended"}, session : Sessions,
         age : {Fresh, Stale, Old}]

ASSUME DocAssumption == NoDoc \notin Docs

Indices == [active : Runs \cup {NoRun}, recent : Seq(Runs)]

StartSteps == {"spawned", "init", "register", "registering", "undo", "collect",
               "touch", "scan", "unlink", "prune", "pruning", "unpid", "stamp"}
EndSteps == {"read", "end", "clear", "clearing"}

(* Types; the index never grows beyond MaxRecent runs. *)
TypeOK ==
  /\ index \in Indices /\ Len(index.recent) <= MaxRecent
  /\ unread \in BOOLEAN
  /\ docs \in [Runs -> Docs \cup {NoDoc}]
  /\ lock \in Hooks \cup {NoHook}
  /\ gcDue \in BOOLEAN
  /\ stamp \in [Sessions -> BOOLEAN]
  /\ pidFile \in [Sessions -> Hooks \cup {NoHook}]
  /\ pc \in [Hooks -> StartSteps \cup EndSteps \cup {"idle"}]
  /\ of \in [Hooks -> Sessions \cup {NoSession}]
  /\ run \in [Hooks -> Runs \cup {NoRun}]
  /\ ctx \in [Hooks -> Docs \cup {NoDoc}]
  /\ seen \in [Hooks -> Indices]
  /\ todo \in [Hooks -> SUBSET Runs]
  /\ victim \in [Hooks -> Runs \cup {NoRun}]
  /\ removed \in [Hooks -> SUBSET Runs]
  /\ faults \in 0..MaxFaults
  /\ leftover \in SUBSET Runs

Init ==
  /\ IndexInit
  /\ docs = [r \in Runs |-> NoDoc]
  /\ lock = NoHook
  /\ gcDue = TRUE
  /\ stamp = [s \in Sessions |-> FALSE]
  /\ pidFile = [s \in Sessions |-> NoHook]
  /\ pc = [p \in Hooks |-> "idle"]
  /\ of = [p \in Hooks |-> NoSession]
  /\ run = [p \in Hooks |-> NoRun]
  /\ ctx = [p \in Hooks |-> NoDoc]
  /\ seen = [p \in Hooks |-> Empty]
  /\ todo = [p \in Hooks |-> {}]
  /\ victim = [p \in Hooks |-> NoRun]
  /\ removed = [p \in Hooks |-> {}]
  /\ faults = 0
  /\ leftover = {}

-----------------------------------------------------------------------------
Fault == faults < MaxFaults /\ faults' = faults + 1
Goto(p, step) == pc' = [pc EXCEPT ![p] = step]

(* What a hook knows is gone when it ends. *)
Exit(p) ==
  /\ Goto(p, "idle")
  /\ of' = [of EXCEPT ![p] = NoSession]
  /\ run' = [run EXCEPT ![p] = NoRun]
  /\ ctx' = [ctx EXCEPT ![p] = NoDoc]
  /\ seen' = [seen EXCEPT ![p] = Empty]
  /\ todo' = [todo EXCEPT ![p] = {}]
  /\ victim' = [victim EXCEPT ![p] = NoRun]
  /\ removed' = [removed EXCEPT ![p] = {}]

(* cmd_init answers: with the run's id, or with {}. *)
Answer(p, r) ==
  /\ Goto(p, "unpid")
  /\ run' = [run EXCEPT ![p] = r]
  /\ seen' = [seen EXCEPT ![p] = Empty]
  /\ removed' = [removed EXCEPT ![p] = {}]
  /\ UNCHANGED <<of, ctx, todo, victim>>

(* What the collector has unlinked stays in the index if it stops here. *)
LeaveBehind(p) == leftover' = leftover \cup (removed[p] \cap Named(index))

Known(r) ==
  \/ docs[r] # NoDoc
  \/ r \in Named(index) \cup leftover
  \/ \E p \in Hooks : \/ r \in {run[p], victim[p]} \cup todo[p] \cup removed[p]
                      \/ r \in Named(seen[p])

-----------------------------------------------------------------------------
(* session-start.sh: _init_session_state *)

(* The stamp and the pid file are looked at before the hook is spawned ...  *)
(* (bound: an id is left for every hook that will take one)                *)
StartHook(p, s) ==
  /\ p \in Starters
  /\ pc[p] = "idle"
  /\ ~ stamp[s]
  /\ pidFile[s] = NoHook
  /\ Cardinality({q \in Hooks : pc[q] \in {"spawned", "init"}})
       < Cardinality({r \in Runs : ~ Known(r)})
  /\ of' = [of EXCEPT ![p] = s]
  /\ Goto(p, "spawned")
  /\ UNCHANGED <<indexVars, docs, lock, gcDue, stamp, pidFile, run, ctx, seen,
                 todo, victim, removed, faults, leftover>>

(* ... and the hook writes the pid file itself. *)
WritePid(p) ==
  /\ pc[p] = "spawned"
  /\ pidFile' = [pidFile EXCEPT ![of[p]] = IF PidGuard THEN p ELSE @]
  /\ Goto(p, "init")
  /\ UNCHANGED <<indexVars, docs, lock, gcDue, stamp, of, run, ctx, seen, todo,
                 victim, removed, faults, leftover>>

(* cmd_init: write_run_context, or an error that ends it *)
WriteRun(p) ==
  /\ pc[p] = "init"
  /\ \/ \E r \in Runs :
          /\ ~ Known(r)
          /\ docs' = [docs EXCEPT ![r] = [state |-> "run_active",
                                          session |-> of[p], age |-> Fresh]]
          /\ run' = [run EXCEPT ![p] = r]
          /\ Goto(p, "register")
          /\ UNCHANGED <<of, ctx, seen, todo, victim, removed, faults>>
     \/ Fault /\ Answer(p, NoRun) /\ UNCHANGED docs
  /\ UNCHANGED <<indexVars, lock, gcDue, stamp, pidFile, leftover>>

(* The index could not be locked: the document is taken back, best effort. *)
Undo(p) ==
  /\ pc[p] = "undo"
  /\ \/ docs' = [docs EXCEPT ![run[p]] = NoDoc] /\ UNCHANGED faults
     \/ Fault /\ UNCHANGED docs
  /\ Answer(p, NoRun)
  /\ UNCHANGED <<indexVars, lock, gcDue, stamp, pidFile, leftover>>

(* The pid file is removed, whoever wrote it; the stamp is written only if  *)
(* the adapter has answered with a run.                                    *)
RemovePid(p) ==
  /\ pc[p] = "unpid"
  /\ pidFile' = [pidFile EXCEPT ![of[p]] = NoHook]
  /\ IF run[p] = NoRun THEN Exit(p)
     ELSE Goto(p, "stamp")
          /\ UNCHANGED <<of, run, ctx, seen, todo, victim, removed>>
  /\ UNCHANGED <<indexVars, docs, lock, gcDue, stamp, faults, leftover>>

WriteStamp(p) ==
  /\ pc[p] = "stamp"
  /\ stamp' = [stamp EXCEPT ![of[p]] = TRUE]
  /\ Exit(p)
  /\ UNCHANGED <<indexVars, docs, lock, gcDue, pidFile, faults, leftover>>

-----------------------------------------------------------------------------
(* update_session_index: read, change and rename under one flock *)

LockStep == [register |-> "registering", prune |-> "pruning", clear |-> "clearing"]

(* Mutant of Lock: the lock is on session.json itself, which each rename    *)
(* replaces.                                                               *)
LockOwnInode(p) ==
  /\ pc[p] \in DOMAIN LockStep
  /\ lock' = p
  /\ seen' = [seen EXCEPT ![p] = index]
  /\ Goto(p, LockStep[pc[p]])
  /\ UNCHANGED <<indexVars, docs, gcDue, stamp, pidFile, of, run, ctx, todo,
                 victim, removed, faults, leftover>>

(* A read that fails under the lock is an empty index to the hook.         *)
Lock(p) ==
  /\ pc[p] \in DOMAIN LockStep
  /\ lock = NoHook
  /\ lock' = p
  /\ \/ seen' = [seen EXCEPT ![p] = index] /\ UNCHANGED <<unread, faults>>
     \/ Fault /\ seen' = [seen EXCEPT ![p] = Empty] /\ unread' = TRUE
  /\ Goto(p, LockStep[pc[p]])
  /\ UNCHANGED <<index, docs, gcDue, stamp, pidFile, of, run, ctx, todo,
                 victim, removed, leftover>>

(* Mutant of NotLocked: after a timeout the index is changed all the same. *)
NotLockedIgnored(p) ==
  /\ lock # NoHook
  /\ pc[p] \in DOMAIN LockStep
  /\ seen' = [seen EXCEPT ![p] = index]
  /\ Goto(p, LockStep[pc[p]])
  /\ UNCHANGED <<indexVars, docs, lock, gcDue, stamp, pidFile, of, run, ctx,
                 todo, victim, removed, faults, leftover>>

(* LockResult.TIMEOUT while another holds it, or ERROR. *)
NotLocked(p) ==
  /\ \/ lock # NoHook /\ UNCHANGED faults
     \/ lock = NoHook /\ Fault
  /\ \/ /\ pc[p] = "register"
        /\ Goto(p, "undo")
        /\ UNCHANGED <<of, run, ctx, seen, todo, victim, removed, leftover>>
     \/ pc[p] = "prune" /\ Answer(p, run[p]) /\ LeaveBehind(p)
     \/ pc[p] = "clear" /\ Exit(p) /\ UNCHANGED leftover
  /\ UNCHANGED <<indexVars, docs, lock, gcDue, stamp, pidFile>>

(* The new index replaces the old one, and the lock is released. *)
Change(p) ==
  /\ \/ /\ pc[p] = "registering"
        /\ index' = Registered(seen[p], run[p])
        /\ Goto(p, "collect")
        /\ seen' = [seen EXCEPT ![p] = Empty]
        /\ UNCHANGED <<of, run, ctx, todo, victim, removed>>
     \/ /\ pc[p] = "pruning"
        /\ index' = Pruned(seen[p], removed[p])
        /\ Answer(p, run[p])
     \/ /\ pc[p] = "clearing"
        /\ index' = Cleared(seen[p], run[p])
        /\ Exit(p)
  /\ lock' = NoHook
  /\ unread' = FALSE
  /\ leftover' = leftover \cap Named(index')
  /\ UNCHANGED <<docs, gcDue, stamp, pidFile, faults>>

(* The write fails.  The error ends init, with its document left behind,   *)
(* but not what comes after the collection or after the end.               *)
ChangeFails(p) ==
  /\ Fault
  /\ \/ pc[p] = "registering" /\ Answer(p, NoRun) /\ UNCHANGED leftover
     \/ pc[p] = "pruning" /\ Answer(p, run[p]) /\ LeaveBehind(p)
     \/ pc[p] = "clearing" /\ Exit(p) /\ UNCHANGED leftover
  /\ lock' = NoHook
  /\ unread' = FALSE
  /\ UNCHANGED <<index, docs, gcDue, stamp, pidFile>>

-----------------------------------------------------------------------------
(* gc_stale_runs *)

GcCheck(p) ==
  /\ pc[p] = "collect"
  /\ IF gcDue THEN Goto(p, "touch")
                   /\ UNCHANGED <<of, run, ctx, seen, todo, victim, removed>>
     ELSE Answer(p, run[p])
  /\ UNCHANGED <<indexVars, docs, lock, gcDue, stamp, pidFile, faults,
                 leftover>>

GcTouch(p) ==
  /\ pc[p] = "touch"
  /\ \/ gcDue' = FALSE /\ UNCHANGED faults
     \/ Fault /\ UNCHANGED gcDue
  /\ todo' = [todo EXCEPT ![p] = {r \in Runs : docs[r] # NoDoc}]
  /\ Goto(p, "scan")
  /\ UNCHANGED <<indexVars, docs, lock, stamp, pidFile, of, run, ctx, seen,
                 victim, removed, leftover>>

(* Mutants of Collectable: the state is not looked at; orphans stay. *)
CollectableByAge(d) == d.age # Fresh
CollectableEnded(d) == d.state = "run_ended" /\ d.age # Fresh

(* An ended run past the TTL, or an orphan past seven times the TTL. *)
Collectable(d) ==
  \/ d.state = "run_ended" /\ d.age # Fresh
  \/ d.state # "run_ended" /\ d.age = Old

(* A document that is gone, or cannot be read, is passed over. *)
ScanRead(p) ==
  /\ pc[p] = "scan"
  /\ \E r \in todo[p] :
       /\ todo' = [todo EXCEPT ![p] = @ \ {r}]
       /\ \/ /\ docs[r] # NoDoc /\ Collectable(docs[r])
             /\ Goto(p, "unlink")
             /\ victim' = [victim EXCEPT ![p] = r]
             /\ UNCHANGED faults
          \/ /\ IF docs[r] # NoDoc /\ Collectable(docs[r]) THEN Fault
                ELSE UNCHANGED faults
             /\ UNCHANGED <<pc, victim>>
  /\ UNCHANGED <<indexVars, docs, lock, gcDue, stamp, pidFile, of, run, ctx,
                 seen, removed, leftover>>

(* A document that is gone, or cannot be unlinked, is passed over. *)
ScanUnlink(p) ==
  /\ pc[p] = "unlink"
  /\ \/ /\ docs[victim[p]] # NoDoc
        /\ docs' = [docs EXCEPT ![victim[p]] = NoDoc]
        /\ removed' = [removed EXCEPT ![p] = @ \cup {victim[p]}]
        /\ UNCHANGED faults
     \/ /\ docs[victim[p]] # NoDoc => Fault
        /\ docs[victim[p]] = NoDoc => UNCHANGED faults
        /\ UNCHANGED <<docs, removed>>
  /\ victim' = [victim EXCEPT ![p] = NoRun]
  /\ Goto(p, "scan")
  /\ UNCHANGED <<indexVars, lock, gcDue, stamp, pidFile, of, run, ctx, seen,
                 todo, leftover>>

ScanDone(p) ==
  /\ pc[p] = "scan"
  /\ todo[p] = {}
  /\ IF removed[p] = {} THEN Answer(p, run[p])
     ELSE Goto(p, "prune")
          /\ UNCHANGED <<of, run, ctx, seen, todo, victim, removed>>
  /\ UNCHANGED <<indexVars, docs, lock, gcDue, stamp, pidFile, faults,
                 leftover>>

-----------------------------------------------------------------------------
(* session-end.sh, and cmd_end *)

(* The script reads active_run_id, without the lock; if there is none it    *)
(* is done.                                                                *)
EndHook(p, s) ==
  /\ p \in Enders
  /\ pc[p] = "idle"
  /\ index.active # NoRun
  /\ of' = [of EXCEPT ![p] = s]
  /\ run' = [run EXCEPT ![p] = index.active]
  /\ Goto(p, "read")
  /\ UNCHANGED <<indexVars, docs, lock, gcDue, stamp, pidFile, ctx, seen, todo,
                 victim, removed, faults, leftover>>

(* Only RUN_ACTIVE has a transition for END_RUN; a document that cannot be  *)
(* read is none.                                                           *)
ReadRun(p) ==
  /\ pc[p] = "read"
  /\ \/ /\ docs[run[p]] # NoDoc
        /\ docs[run[p]].state = "run_active"
        /\ ctx' = [ctx EXCEPT ![p] = docs[run[p]]]
        /\ Goto(p, "end")
        /\ UNCHANGED <<of, run, seen, todo, victim, removed, faults>>
     \/ /\ IF docs[run[p]] # NoDoc /\ docs[run[p]].state = "run_active"
           THEN Fault ELSE UNCHANGED faults
        /\ Exit(p)
  /\ UNCHANGED <<indexVars, docs, lock, gcDue, stamp, pidFile, leftover>>

(* The document is written anew from what was read. *)
WriteEnded(p) ==
  /\ pc[p] = "end"
  /\ \/ /\ docs' = [docs EXCEPT ![run[p]] = [state |-> "run_ended",
                                                session |-> ctx[p].session,
                                                age |-> Fresh]]
        /\ ctx' = [ctx EXCEPT ![p] = NoDoc]
        /\ Goto(p, "clear")
        /\ UNCHANGED <<of, run, seen, todo, victim, removed, faults>>
     \/ Fault /\ Exit(p) /\ UNCHANGED docs
  /\ UNCHANGED <<indexVars, lock, gcDue, stamp, pidFile, leftover>>

-----------------------------------------------------------------------------
(* The environment *)

(* A hook is killed: the kernel releases its lock, and its pid is dead. *)
Crash(p) ==
  /\ pc[p] # "idle"
  /\ Fault
  /\ lock' = IF lock = p THEN NoHook ELSE lock
  /\ unread' = IF lock = p THEN FALSE ELSE unread
  /\ pidFile' = [s \in Sessions |-> IF pidFile[s] = p THEN NoHook ELSE pidFile[s]]
  /\ LeaveBehind(p)
  /\ Exit(p)
  /\ UNCHANGED <<index, docs, gcDue, stamp>>

(* Hours pass, which is longer than an init takes.  For a run that has      *)
(* ended nothing is different past the TTL.                                *)
AgeRun(r) ==
  /\ docs[r] # NoDoc
  /\ docs[r].age < IF docs[r].state = "run_ended" THEN Stale ELSE Old
  /\ \A p \in Hooks : run[p] = r => pc[p] \notin StartSteps
  /\ docs' = [docs EXCEPT ![r].age = @ + 1]
  /\ UNCHANGED <<indexVars, lock, gcDue, stamp, pidFile, hookVars, faults,
                 leftover>>

GcInterval ==
  /\ ~ gcDue
  /\ gcDue' = TRUE
  /\ UNCHANGED <<indexVars, docs, lock, stamp, pidFile, hookVars, faults,
                 leftover>>

(* Another session takes the place of one that no hook works for. *)
Renew(s) ==
  /\ stamp[s]
  /\ \A p \in Hooks : of[p] # s
  /\ stamp' = [stamp EXCEPT ![s] = FALSE]
  /\ UNCHANGED <<indexVars, docs, lock, gcDue, pidFile, hookVars, faults,
                 leftover>>

HookStep(p) ==
  \/ WritePid(p) \/ WriteRun(p) \/ Undo(p) \/ RemovePid(p) \/ WriteStamp(p)
  \/ Lock(p) \/ NotLocked(p) \/ Change(p) \/ ChangeFails(p)
  \/ GcCheck(p) \/ GcTouch(p) \/ ScanRead(p) \/ ScanUnlink(p) \/ ScanDone(p)
  \/ ReadRun(p) \/ WriteEnded(p)

Next ==
  \/ \E p \in Hooks : \/ HookStep(p) \/ Crash(p)
                      \/ \E s \in Sessions : StartHook(p, s) \/ EndHook(p, s)
  \/ \E r \in Runs : AgeRun(r)
  \/ \E s \in Sessions : Renew(s)
  \/ GcInterval

Spec == Init /\ [][Next]_vars

(* A background process that is not killed goes on, and time passes. *)
FairSpec ==
  /\ Spec
  /\ \A p \in Hooks : WF_vars(HookStep(p))
  /\ \A r \in Runs : WF_vars(AgeRun(r))
  /\ WF_vars(GcInterval)

-----------------------------------------------------------------------------
(* Properties *)

(* Whoever changes the index holds the lock, and what it has read is still *)
(* what the index holds, or nothing if its read has failed.                *)
LockedIndex ==
  /\ \A p \in Hooks :
       /\ pc[p] \in {"registering", "pruning", "clearing"} <=> lock = p
       /\ lock = p => seen[p] = Base
  /\ lock = NoHook => ~ unread

(* No hook undoes what another did to the index, unless its own read of it  *)
(* has failed (update_session_index then starts from the default): with any *)
(* number of hooks, kills and timeouts, the index changes by whole          *)
(* operations, and only a failed read makes one start from an empty index. *)
ImplementsIndex == IndexSpec

(* The collector never takes the document of a run that is active and not  *)
(* an orphan of 28 hours; only the init that wrote it takes it back.       *)
ActiveKept ==
  [][\A r \in Runs :
       /\ docs[r] # NoDoc /\ docs[r].state = "run_active" /\ docs[r].age # Old
       /\ docs'[r] = NoDoc
       => \E p \in Hooks : pc[p] = "undo" /\ run[p] = r]_vars

(* The index names only runs that have a document, those that a collector  *)
(* is about to take out, and those that one gave up taking out.            *)
IndexNamesRuns ==
  \A r \in Runs \cap Named(index) :
    \/ docs[r] # NoDoc
    \/ r \in leftover
    \/ \E p \in Hooks : r \in removed[p]

(* While sessions go on starting, the document of r does not stay for      *)
(* ever, whatever became of the hooks that wrote it.                       *)
Collected(r) ==
  ([]<>\E p \in Hooks : pc[p] = "collect") => (docs[r] # NoDoc ~> docs[r] = NoDoc)

(* A session that ends ends a run of its own: "If no active run exists     *)
(* (e.g., init failed), this is a no-op" (session-end.sh:570).             *)
EndsOwnRun ==
  [][\A p \in Hooks :
       pc[p] = "end" /\ pc'[p] = "clear" => docs'[run[p]].session = of[p]]_vars

=============================================================================
