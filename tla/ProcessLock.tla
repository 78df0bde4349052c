---------------------------- MODULE ProcessLock ----------------------------
(***************************************************************************)
(* The single-writer lock over a state directory                           *)
(* (crates/hypellm-store/src/durable.rs, ProcessLock).                     *)
(*                                                                         *)
(* Starters are whole operating-system processes and every file operation  *)
(* is one step: between two of them any other process may run, crash or    *)
(* exit.  A file's content is the identity of the process that wrote it    *)
(* (boot id, pid and start ticks in the code), so a process is alive       *)
(* exactly when a lock it wrote is live; identities are never reused.      *)
(* Staging files are private to their process and leave no other trace, so *)
(* staging, linking and unstaging are one step.  I/O errors other than     *)
(* "exists" and "not found" are left out.                                  *)
(***************************************************************************)
EXTENDS Naturals, FiniteSets

CONSTANTS
  Procs,        \* the processes that may start on this directory
  Ghost,        \* the identity of a process that died before they started
  NoFile,       \* a file that does not exist
  StaleFiles,   \* the files the dead process may have left behind
  HardLinks,    \* whether the file system supports hard links
  MayShutDown,  \* whether a holder may exit in good order
  CrashAt       \* the program points at which a process may die

Files == {"lock", "claim"}

Points == {"idle", "create", "fill", "read", "claim", "fillClaim", "readClaim",
           "sweep", "recheck", "remove", "recreate", "refill", "unclaim",
           "holding", "drop", "refused", "exited", "dead"}

ASSUME ProcsAssumption == Ghost \notin Procs /\ NoFile \notin Procs \cup {Ghost}
ASSUME ConfigAssumption ==
  /\ StaleFiles \subseteq Files
  /\ HardLinks \in BOOLEAN /\ MayShutDown \in BOOLEAN
  /\ CrashAt \subseteq Points \ {"exited", "dead"}

VARIABLES
  file,   \* what each file records
  blank,  \* the files that exist but whose identity is not written yet
  old,    \* the blank files last modified more than EMPTY_LOCK_GRACE ago
  alive,  \* the processes that run
  pc,     \* where each process is in acquire_once and in Drop
  pass,   \* which of the two passes of acquire it is in
  won,    \* whether its reclaim created the lock
  left    \* history: whether the dead process left a claim behind

vars == <<file, blank, old, alive, pc, pass, won, left>>

Init ==
  /\ file \in [Files -> {NoFile, Ghost}]
  /\ \A f \in Files : file[f] = Ghost => f \in StaleFiles
  /\ blank = {}
  /\ old = {}
  /\ alive = Procs
  /\ pc = [p \in Procs |-> "idle"]
  /\ pass = [p \in Procs |-> 1]
  /\ won = [p \in Procs |-> FALSE]
  /\ left = (file["claim"] = Ghost)

Goto(p, point) == pc' = [pc EXCEPT ![p] = point]

(***************************************************************************)
(* The three answers of live_holder for one file: "held" by a running      *)
(* process, "young" for an empty file that may still be being written      *)
(* (BeingCreated in the code), "stale" for everything else, a missing file *)
(* included.                                                               *)
(***************************************************************************)
live_holder(f) ==
  CASE f \in blank /\ f \notin old -> "young"
    [] f \in old                    -> "stale"
    [] f \notin blank               -> IF file[f] \in alive THEN "held" ELSE "stale"

(***************************************************************************)
(* try_create: with hard links the name appears with its identity inside;  *)
(* without them the file is created empty and filled by a later step.      *)
(***************************************************************************)
try_create(p, f) ==
  /\ file[f] = NoFile
  /\ file' = [file EXCEPT ![f] = p]
  /\ blank' = IF HardLinks THEN blank ELSE blank \cup {f}
  /\ UNCHANGED old

remove_file(f) ==
  /\ file' = [file EXCEPT ![f] = NoFile]
  /\ blank' = blank \ {f}
  /\ old' = old \ {f}

\* The write goes to the open file, whatever its name now refers to.
Fill(p, f) ==
  /\ blank' = IF file[f] = p THEN blank \ {f} ELSE blank
  /\ old' = IF file[f] = p THEN old \ {f} ELSE old
  /\ UNCHANGED file

NoFileChange == UNCHANGED <<file, blank, old>>

-----------------------------------------------------------------------------
(* acquire and acquire_once *)

Start(p) ==
  /\ pc[p] = "idle"
  /\ Goto(p, "create")
  /\ pass' = [pass EXCEPT ![p] = 1]
  /\ won' = [won EXCEPT ![p] = FALSE]
  /\ NoFileChange /\ UNCHANGED alive

CreateLock(p) ==
  /\ pc[p] = "create"
  /\ \/ /\ try_create(p, "lock")
        /\ Goto(p, IF HardLinks THEN "holding" ELSE "fill")
     \/ /\ file["lock"] # NoFile
        /\ Goto(p, "read")
        /\ NoFileChange
  /\ UNCHANGED <<alive, pass, won>>

FillLock(p) ==
  /\ pc[p] = "fill"
  /\ Fill(p, "lock")
  /\ Goto(p, "holding")
  /\ UNCHANGED <<alive, pass, won>>

ReadLock(p) ==
  /\ pc[p] = "read"
  /\ Goto(p, IF live_holder("lock") = "stale" THEN "claim" ELSE "refused")
  /\ NoFileChange /\ UNCHANGED <<alive, pass, won>>

CreateClaim(p) ==
  /\ pc[p] = "claim"
  /\ \/ /\ try_create(p, "claim")
        /\ Goto(p, IF HardLinks THEN "recheck" ELSE "fillClaim")
     \/ /\ file["claim"] # NoFile
        /\ Goto(p, "readClaim")
        /\ NoFileChange
  /\ UNCHANGED <<alive, pass, won>>

FillClaim(p) ==
  /\ pc[p] = "fillClaim"
  /\ Fill(p, "claim")
  /\ Goto(p, "recheck")
  /\ UNCHANGED <<alive, pass, won>>

ReadClaim(p) ==
  /\ pc[p] = "readClaim"
  /\ Goto(p, IF live_holder("claim") = "stale" THEN "sweep" ELSE "refused")
  /\ NoFileChange /\ UNCHANGED <<alive, pass, won>>

\* Mutant: a dead starter's claim is respected for ever.
SweepClaim_Never(p) ==
  /\ pc[p] = "sweep"
  /\ Goto(p, "refused")
  /\ NoFileChange /\ UNCHANGED <<alive, pass, won>>

(***************************************************************************)
(* Removing a claim judged dead.  ClaimSwept restarts the acquisition once *)
(* and is returned to the caller the second time; a claim that is gone by  *)
(* now is an I/O error.                                                    *)
(***************************************************************************)
SweepClaim(p) ==
  /\ pc[p] = "sweep"
  /\ \/ /\ file["claim"] # NoFile
        /\ remove_file("claim")
        /\ Goto(p, IF pass[p] = 1 THEN "create" ELSE "refused")
        /\ pass' = [pass EXCEPT ![p] = 2]
     \/ /\ file["claim"] = NoFile
        /\ Goto(p, "refused")
        /\ NoFileChange /\ UNCHANGED pass
  /\ UNCHANGED <<alive, won>>

\* Mutant: the lock is not read again under the claim.
RecheckLock_Trusting(p) ==
  /\ pc[p] = "recheck"
  /\ Goto(p, "remove")
  /\ NoFileChange /\ UNCHANGED <<alive, pass, won>>

-----------------------------------------------------------------------------
(* reclaim_under_claim, and the removal of the claim on every path *)

RecheckLock(p) ==
  /\ pc[p] = "recheck"
  /\ Goto(p, IF live_holder("lock") = "stale" THEN "remove" ELSE "unclaim")
  /\ NoFileChange /\ UNCHANGED <<alive, pass, won>>

RemoveStale(p) ==
  /\ pc[p] = "remove"
  /\ remove_file("lock")
  /\ Goto(p, "recreate")
  /\ UNCHANGED <<alive, pass, won>>

RecreateLock(p) ==
  /\ pc[p] = "recreate"
  /\ \/ /\ try_create(p, "lock")
        /\ Goto(p, IF HardLinks THEN "unclaim" ELSE "refill")
        /\ won' = [won EXCEPT ![p] = TRUE]
     \/ /\ file["lock"] # NoFile
        /\ Goto(p, "unclaim")
        /\ NoFileChange /\ UNCHANGED won
  /\ UNCHANGED <<alive, pass>>

RefillLock(p) ==
  /\ pc[p] = "refill"
  /\ Fill(p, "lock")
  /\ Goto(p, "unclaim")
  /\ UNCHANGED <<alive, pass, won>>

RemoveClaim(p) ==
  /\ pc[p] = "unclaim"
  /\ remove_file("claim")
  /\ Goto(p, IF won[p] THEN "holding" ELSE "refused")
  /\ UNCHANGED <<alive, pass, won>>

-----------------------------------------------------------------------------
(* The end of a process *)

\* Drop compares the identity on disk with its own, then removes the file.
BeginDrop(p) ==
  /\ MayShutDown /\ pc[p] = "holding"
  /\ \/ file["lock"] = p /\ Goto(p, "drop") /\ UNCHANGED alive
     \/ file["lock"] # p /\ Goto(p, "exited") /\ alive' = alive \ {p}
  /\ NoFileChange /\ UNCHANGED <<pass, won>>

EndDrop(p) ==
  /\ pc[p] = "drop"
  /\ remove_file("lock")
  /\ Goto(p, "exited")
  /\ alive' = alive \ {p}
  /\ UNCHANGED <<pass, won>>

\* A supervisor starts the router again; the refused one left no file.
Retry(p) ==
  /\ pc[p] = "refused"
  /\ Goto(p, "idle")
  /\ NoFileChange /\ UNCHANGED <<alive, pass, won>>

Crash(p) ==
  /\ pc[p] \in CrashAt
  /\ Goto(p, "dead")
  /\ alive' = alive \ {p}
  /\ NoFileChange /\ UNCHANGED <<pass, won>>

(***************************************************************************)
(* A running creator writes its identity well within EMPTY_LOCK_GRACE, so  *)
(* an empty file only grows old when its creator is gone.                  *)
(***************************************************************************)
GraceElapses(f) ==
  /\ f \in blank \ old /\ file[f] \notin alive
  /\ old' = old \cup {f}
  /\ UNCHANGED <<file, blank, alive, pc, pass, won>>

Acquire(p) ==
  \/ Start(p) \/ CreateLock(p) \/ FillLock(p) \/ ReadLock(p)
  \/ CreateClaim(p) \/ FillClaim(p) \/ ReadClaim(p) \/ SweepClaim(p)
  \/ RecheckLock(p) \/ RemoveStale(p) \/ RecreateLock(p) \/ RefillLock(p)
  \/ RemoveClaim(p) \/ EndDrop(p) \/ Retry(p)

Next ==
  /\ \/ \E p \in Procs : Acquire(p) \/ BeginDrop(p) \/ Crash(p)
     \/ \E f \in Files : GraceElapses(f)
  /\ UNCHANGED left

Spec == Init /\ [][Next]_vars

(***************************************************************************)
(* A process that runs keeps taking its next step, a supervisor keeps      *)
(* restarting a refused router, and time passes.  Nothing forces a         *)
(* shutdown or a crash.                                                    *)
(***************************************************************************)
FairSpec ==
  /\ Spec
  /\ \A p \in Procs : WF_vars(Acquire(p) /\ UNCHANGED left)
  /\ \A f \in Files : WF_vars(GraceElapses(f) /\ UNCHANGED left)

-----------------------------------------------------------------------------
(* Properties *)

\* Every variable holds what its declaration says, and exactly the processes
\* that exited or died are not alive.
TypeOK ==
  /\ file \in [Files -> Procs \cup {Ghost, NoFile}]
  /\ blank \subseteq Files /\ old \subseteq blank
  /\ pc \in [Procs -> Points]
  /\ pass \in [Procs -> {1, 2}]
  /\ won \in [Procs -> BOOLEAN]
  /\ left \in BOOLEAN
  /\ alive \subseteq Procs
  /\ \A p \in Procs : p \in alive <=> pc[p] \notin {"exited", "dead"}

\* p has a ProcessLock value: acquire returned it, or is about to.
Holds(p) ==
  \/ pc[p] \in {"fill", "holding", "drop"}
  \/ pc[p] \in {"refill", "unclaim"} /\ won[p]

\* ProcessLock::acquire is exclusive: two processes never hold the lock over
\* one state directory at the same time (two writers over one log).
SingleWriter == \A p, q \in Procs : Holds(p) /\ Holds(q) => p = q

\* Nobody shut down or died so far, and no claim was left behind.
Quiet == ~left /\ alive = Procs /\ \A p \in Procs : pc[p] # "drop"

\* Reclaiming a dead process's lock under lock.claim has one winner: until the
\* first shutdown or death among the starters, and with no claim left behind,
\* two processes never hold the lock at the same time.
QuietExclusion == Quiet => SingleWriter

\* Nothing left behind by a dead process wedges the directory: as long as a
\* process that does not die keeps being restarted, somebody keeps holding it.
NeverWedged == []<>(\E p \in Procs : Holds(p)) \/ <>[](alive = {})
=============================================================================
