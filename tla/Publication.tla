----------------------------- MODULE Publication -----------------------------
(***************************************************************************)
(* How a configuration comes into force: drafts, validation, publication   *)
(* by a second person, roll-back, the anonymous-access switch, and the     *)
(* sessions whose roles come from the configuration in force.  Everything  *)
(* that must survive a restart is a frame of the durable log; what runs is *)
(* a pointer swapped after the frame.                                      *)
(*                                                                         *)
(* Each management request is a thread.  A step is one access to state     *)
(* that another thread can see: one lock region, one atomic operation, one *)
(* append.  Checks on the thread's own copies belong to the step before    *)
(* them.  A restart loses every thread and everything but the log.         *)
(***************************************************************************)
EXTENDS Integers, Sequences, FiniteSets, SequencesExt

CONSTANTS
  Callers,        \* sessions and management keys
  KeyCallers,     \* those of them that are API keys
  PrincipalOf,    \* [Callers -> principal]
  AccountableOf,  \* [Callers -> who minted the key, None for a session]
  Bound,          \* [document -> principals it binds to the roles used here]
  Placed,         \* [document -> principals it still knows by a sign-in record]
  Broken,         \* documents that do not build
  Subject,        \* documents that declare an anonymous subject
  File,           \* the document in the configuration file
  None,
  Star,            \* the If-Match "*"
  history_limit,
  capacity,       \* how many drafts are kept
  Scenes          \* the situations explored: see Init

VARIABLES
  scene,
  log,            \* durable frames; a frame's index is its sequence number
  config,         \* the configuration in force: [version, text, by]
  history,        \* what a roll-back may restore, newest first
  next_version,
  drafts,         \* [draft number -> Draft], the ones held in memory
  next_id,
  anonymous_access,
  sessions,       \* [session -> its cached roles], the ones held
  thread,         \* [request -> Thread], one per request of the scene
  answer,         \* [request -> what its caller was told]
  ran,            \* configurations in force at some time since the start
  faults,         \* appends that may still fail
  crashes         \* restarts that may still happen

vars == <<scene, log, config, history, next_version, drafts, next_id, anonymous_access,
          sessions, thread, answer, ran, faults, crashes>>

Requests == DOMAIN thread
memory == <<config, history, next_version, drafts, next_id, anonymous_access, sessions, ran>>
disk == <<log, faults>>

\* Frames that no request of the scene wrote.
Router == 0

ASSUME SceneAssumption == \A s \in Scenes : Len(s.drafts) \in Nat /\ Router \notin DOMAIN s.requests

Audit(r) == [kind |-> "audit", by |-> r]
Activation(r, text) == [kind |-> "activation", text |-> text, by |-> r]
DraftFrame(r, id, d) == [kind |-> "draft", id |-> id, draft |-> d, by |-> r]
Closed(r, id) == [kind |-> "closed", id |-> id, by |-> r]
Switch(r, on) == [kind |-> "anonymous", on |-> on, by |-> r]

Draft(text, author, accountable) ==
  [text |-> text, author |-> author, accountable |-> accountable,
   validated |-> FALSE, errors |-> FALSE]

Validated(d) == [d EXCEPT !.validated = TRUE, !.errors = d.text \in Broken]

\* active_etag: what If-Match is compared with.
Etag(c) == <<c.version, c.text>>

----------------------------------------------------------------------------
(* What a start makes of the log. *)

OfKind(l, kinds) == SelectSeq(l, LAMBDA f : f.kind \in kinds)

\* Make room for one more draft: the oldest goes.
Evict(ds) ==
  IF Cardinality(DOMAIN ds) < capacity THEN ds
  ELSE LET oldest == CHOOSE i \in DOMAIN ds : \A j \in DOMAIN ds : i <= j
       IN  [i \in DOMAIN ds \ {oldest} |-> ds[i]]

Hold(ds, id, d) == [i \in DOMAIN Evict(ds) \cup {id} |-> IF i = id THEN d ELSE ds[i]]
Without(ds, id) == [i \in DOMAIN ds \ {id} |-> ds[i]]

\* Drafts come back unvalidated; one that was closed does not come back.
restore_drafts(l) ==
  FoldLeft(LAMBDA ds, f : IF f.kind = "draft" THEN Hold(ds, f.id, f.draft) ELSE Without(ds, f.id),
           <<>>, OfKind(l, {"draft", "closed"}))

\* The allocator ends above every draft ever recorded.
restored_next_id(l) ==
  FoldLeft(LAMBDA n, f : IF f.id >= n THEN f.id + 1 ELSE n, 1, OfKind(l, {"draft"}))

restore_anonymous_access(l) ==
  LET fs == OfKind(l, {"anonymous"}) IN IF fs = <<>> THEN FALSE ELSE fs[Len(fs)].on

Activations(l) == {i \in DOMAIN l : l[i].kind = "activation"}

\* The newest activation frame, its sequence number as the version; else the file.
resume_activation(l) ==
  IF Activations(l) = {} THEN [version |-> 1, text |-> File, by |-> Router]
  ELSE LET i == CHOOSE i \in Activations(l) : \A j \in Activations(l) : j <= i
       IN  [version |-> i, text |-> l[i].text, by |-> l[i].by]

\* A start that adopts the file instead: it takes the number of the frame that
\* records it, unless no activation is in the log and the file would run anyway.
adopt(l) ==
  [resume_activation(l) EXCEPT !.version = IF Activations(l) = {} THEN @ ELSE Len(l) + 1,
                               !.text = File, !.by = Router]

----------------------------------------------------------------------------
(* Threads. *)

Idle(want) == [pc |-> "waiting", want |-> want, roles |-> FALSE, seen |-> Star, version |-> 0,
               text |-> None, was |-> None, id |-> 0, since |-> {}]

At(r, pc) == thread[r].pc = pc
Want(r) == thread[r].want
Op(r) == Want(r).op
Goto(r, pc) == thread' = [thread EXCEPT ![r].pc = pc]
Finish(r, what) == /\ Goto(r, "done")
                   /\ answer' = [answer EXCEPT ![r] = what]
Silent == UNCHANGED answer

\* An append, which may fail; the log then holds no part of the frame.
Append_(f) == log' = Append(log, f) /\ UNCHANGED faults
Fails == faults > 0 /\ faults' = faults - 1 /\ UNCHANGED log

Actors(c) == {PrincipalOf[c], AccountableOf[c]} \ {None}

\* The roles a document gives a caller: none if its sign-in record is gone.
Holds(text, c) == PrincipalOf[c] \in Bound[text]
Known(text, c) == PrincipalOf[c] \in Placed[text]

(***************************************************************************)
(* A scene names the requests that will be made, the drafts already        *)
(* written and validated, how many appends may fail and how many restarts  *)
(* may happen.  Those drafts, and nothing else, are in the log.            *)
(***************************************************************************)
Written(ds) ==
  [k \in 1 .. 2 * Len(ds) |->
     LET d == ds[(k + 1) \div 2] IN
     IF k % 2 = 1 THEN DraftFrame(Router, d.id, Draft(d.text, d.author, d.accountable))
     ELSE Audit(Router)]

Init ==
  /\ scene \in Scenes
  /\ log = Written(scene.drafts)
  /\ config = resume_activation(log)
  /\ history = <<>>
  /\ next_version = config.version + 1
  /\ drafts = [i \in DOMAIN restore_drafts(log) |-> Validated(restore_drafts(log)[i])]
  /\ next_id = restored_next_id(log)
  /\ anonymous_access = FALSE
  /\ sessions = [c \in scene.signed |-> [roles |-> Holds(File, c), version |-> 1]]
  /\ thread = [r \in DOMAIN scene.requests |-> Idle(scene.requests[r])]
  /\ answer = [r \in DOMAIN scene.requests |-> "none"]
  /\ ran = {config}
  /\ faults = scene.faults
  /\ crashes = scene.crashes

----------------------------------------------------------------------------
(* Who is calling. *)

\* The caller read the configuration in force, or sends "*".
Arrive(r, seen) ==
  /\ At(r, "waiting")
  /\ seen \in (IF Want(r).unconditional THEN {Star} ELSE {Etag(config)})
  /\ thread' = [thread EXCEPT ![r] = [thread[r] EXCEPT
                                  !.pc = IF Op(r) = "sign_in" THEN "resolve" ELSE "authenticate",
                                  !.seen = seen, !.since = {config.text}]]
  /\ UNCHANGED <<scene, memory, disk, answer, crashes>>

\* SessionStore::validate, or KeyStore::verify: a copy of the session.
Validate(r) ==
  LET c == Want(r).caller IN
  /\ At(r, "authenticate")
  /\ IF c \in KeyCallers THEN Goto(r, "current_roles") /\ Silent
     ELSE IF c \in DOMAIN sessions
     THEN /\ thread' = [thread EXCEPT ![r] = [thread[r] EXCEPT
                            !.pc = "current_roles", !.roles = sessions[c].roles,
                            !.version = IF sessions[c].version = None THEN 0 ELSE sessions[c].version]]
          /\ Silent
     ELSE Finish(r, "unauthenticated")
  /\ UNCHANGED <<scene, memory, disk, crashes>>

\* Mutant: a session keeps the roles it was issued with.
CurrentRoles_Cached(r) ==
  /\ At(r, "current_roles")
  /\ thread' = [thread EXCEPT ![r] = [thread[r] EXCEPT
                   !.pc = "handle",
                   !.roles = IF Want(r).caller \in KeyCallers THEN Holds(config.text, Want(r).caller) ELSE @]]
  /\ UNCHANGED <<scene, memory, disk, answer, crashes>>

\* A key's roles are resolved at every request; a session's when the version
\* in force is not the one they were resolved against.
CurrentRoles(r) ==
  LET c == Want(r).caller IN
  /\ At(r, "current_roles")
  /\ \/ /\ c \in KeyCallers
        /\ thread' = [thread EXCEPT ![r] = [thread[r] EXCEPT !.pc = "handle", !.roles = Holds(config.text, c)]]
        /\ Silent /\ UNCHANGED sessions
     \/ /\ c \notin KeyCallers
        /\ thread[r].version = config.version
        /\ Goto(r, "handle") /\ Silent /\ UNCHANGED sessions
     \/ /\ c \notin KeyCallers
        /\ thread[r].version # config.version
        /\ Known(config.text, c)
        /\ thread' = [thread EXCEPT ![r] = [thread[r] EXCEPT
                                        !.pc = "refresh", !.text = config.text, !.version = config.version]]
        /\ Silent /\ UNCHANGED sessions
     \/ /\ c \notin KeyCallers
        /\ thread[r].version # config.version
        /\ ~Known(config.text, c)
        /\ sessions' = Without(sessions, c)
        /\ Finish(r, "unauthenticated")
  /\ UNCHANGED <<scene, config, history, next_version, drafts, next_id, anonymous_access, ran,
                 disk, crashes>>

\* SessionStore::refresh_roles: both fields and the copy, in one lock region.
RefreshRoles(r) ==
  LET c == Want(r).caller
      s == [roles |-> Holds(thread[r].text, c), version |-> thread[r].version] IN
  /\ At(r, "refresh")
  /\ IF c \in DOMAIN sessions
     THEN /\ sessions' = [sessions EXCEPT ![c] = s]
          /\ thread' = [thread EXCEPT ![r] = [thread[r] EXCEPT !.pc = "handle", !.roles = s.roles]]
          /\ Silent
     ELSE UNCHANGED sessions /\ Finish(r, "unauthenticated")
  /\ UNCHANGED <<scene, config, history, next_version, drafts, next_id, anonymous_access, ran,
                 disk, crashes>>

\* Sign-in: the roles of the document in force, resolved again at first use.
ResolveIdentity(r) ==
  LET c == Want(r).caller IN
  /\ At(r, "resolve")
  /\ IF Known(config.text, c)
     THEN /\ thread' = [thread EXCEPT ![r] = [thread[r] EXCEPT !.pc = "issue", !.roles = Holds(config.text, c)]]
          /\ Silent
     ELSE Finish(r, "refused")
  /\ UNCHANGED <<scene, memory, disk, crashes>>

Issue(r) ==
  /\ At(r, "issue")
  /\ sessions' = [c \in DOMAIN sessions \cup {Want(r).caller} |->
                    IF c = Want(r).caller THEN [roles |-> thread[r].roles, version |-> None]
                    ELSE sessions[c]]
  /\ Finish(r, "ok")
  /\ UNCHANGED <<scene, config, history, next_version, drafts, next_id, anonymous_access, ran,
                 disk, crashes>>

\* `require`: the handler acts on the thread's own copy of the roles.
May(r) == thread[r].roles

Refuse(r, op) ==
  /\ At(r, "handle") /\ Op(r) = op /\ ~May(r)
  /\ Finish(r, "forbidden")
  /\ UNCHANGED <<scene, memory, disk, crashes>>

Logout(r) ==
  /\ At(r, "handle") /\ Op(r) = "logout"
  /\ sessions' = Without(sessions, Want(r).caller)
  /\ Finish(r, "ok")
  /\ UNCHANGED <<scene, config, history, next_version, drafts, next_id, anonymous_access, ran,
                 disk, crashes>>

----------------------------------------------------------------------------
(* Drafts. *)

\* DraftStore::create_by: in memory first.  Edits and proposals start from the
\* document in force and go the same way.
CreateDraft(r) ==
  /\ At(r, "handle") /\ Op(r) \in {"draft", "edit"} /\ May(r)
  /\ drafts' = Hold(drafts, next_id, Draft(Want(r).text, PrincipalOf[Want(r).caller],
                                          AccountableOf[Want(r).caller]))
  /\ next_id' = next_id + 1
  /\ thread' = [thread EXCEPT ![r] = [thread[r] EXCEPT !.pc = "record_draft", !.id = next_id]]
  /\ Silent
  /\ UNCHANGED <<scene, config, history, next_version, anonymous_access, sessions, ran, disk, crashes>>

RecordDraft(r) ==
  LET t == thread[r] IN
  /\ At(r, "record_draft")
  /\ \/ /\ Append_(DraftFrame(r, t.id, Draft(Want(r).text, PrincipalOf[Want(r).caller],
                                            AccountableOf[Want(r).caller])))
        /\ Goto(r, "audit_draft") /\ Silent /\ UNCHANGED drafts
     \/ Fails /\ drafts' = Without(drafts, t.id) /\ Finish(r, "refused")
  /\ UNCHANGED <<scene, config, history, next_version, next_id, anonymous_access, sessions, ran, crashes>>

AuditDraft(r) ==
  /\ At(r, "audit_draft")
  /\ \/ /\ Append_(Audit(r))
        /\ IF Op(r) = "edit" THEN Goto(r, "validate") /\ Silent ELSE Finish(r, "ok")
     \/ Fails /\ Finish(r, "unrecorded")
  /\ UNCHANGED <<scene, memory, crashes>>

\* DraftStore::validate, by a request of its own or at the end of an edit.
ValidateDraft(r) ==
  LET id == IF Op(r) = "edit" THEN thread[r].id ELSE Want(r).id IN
  /\ \/ At(r, "validate")
     \/ At(r, "handle") /\ Op(r) = "validate" /\ May(r)
  /\ IF id \in DOMAIN drafts
     THEN /\ drafts' = [drafts EXCEPT ![id] = Validated(@)]
          /\ IF Op(r) = "edit" THEN Finish(r, "ok") ELSE Goto(r, "audit_draft_valid") /\ Silent
     ELSE UNCHANGED drafts /\ Finish(r, "not_found")
  /\ UNCHANGED <<scene, config, history, next_version, next_id, anonymous_access, sessions, ran,
                 disk, crashes>>

AuditValidation(r) ==
  /\ At(r, "audit_draft_valid")
  /\ \/ Append_(Audit(r)) /\ Finish(r, "ok")
     \/ Fails /\ Finish(r, "unrecorded")
  /\ UNCHANGED <<scene, memory, crashes>>

----------------------------------------------------------------------------
(* Publication and roll-back. *)

\* The tag is compared with the configuration in force now.
IfMatchSatisfied(r) == thread[r].seen \in {Star, Etag(config)}

ComparePublish(r) ==
  /\ At(r, "handle") /\ Op(r) = "publish" /\ May(r)
  /\ IF IfMatchSatisfied(r) THEN Goto(r, "load_version") /\ Silent ELSE Finish(r, "refused")
  /\ UNCHANGED <<scene, memory, disk, crashes>>

LoadVersion(r) ==
  /\ At(r, "load_version")
  /\ thread' = [thread EXCEPT ![r] = [thread[r] EXCEPT !.pc = "prepare", !.version = next_version]]
  /\ UNCHANGED <<scene, memory, disk, answer, crashes>>

\* prepare_publish_by: held, validated without errors, written by nobody this
\* caller acts as.
Publishable(c, id) ==
  /\ id \in DOMAIN drafts
  /\ drafts[id].validated /\ ~drafts[id].errors
  /\ Actors(c) \cap ({drafts[id].author, drafts[id].accountable} \ {None}) = {}

PreparePublish(r) ==
  /\ At(r, "prepare")
  /\ IF Publishable(Want(r).caller, Want(r).id)
     THEN /\ thread' = [thread EXCEPT ![r] = [thread[r] EXCEPT
                            !.pc = "claim_version", !.text = drafts[Want(r).id].text]]
          /\ Silent
     ELSE Finish(r, "refused")
  /\ UNCHANGED <<scene, memory, disk, crashes>>

\* Mutant: the number is stored, not exchanged for the one that was read.
ClaimVersion_Stored(r) ==
  /\ At(r, "claim_version")
  /\ next_version' = thread[r].version + 1
  /\ Goto(r, "audit_publish") /\ Silent
  /\ UNCHANGED <<scene, config, history, drafts, next_id, anonymous_access, sessions, ran, disk, crashes>>

ClaimVersion(r) ==
  /\ At(r, "claim_version")
  /\ IF next_version = thread[r].version
     THEN next_version' = next_version + 1 /\ Goto(r, "audit_publish") /\ Silent
     ELSE UNCHANGED next_version /\ Finish(r, "refused")
  /\ UNCHANGED <<scene, config, history, drafts, next_id, anonymous_access, sessions, ran, disk, crashes>>

\* Handed back only if nobody has taken a later one.
Released(v) == IF next_version = v + 1 THEN v ELSE next_version

AuditPublish(r) ==
  /\ At(r, "audit_publish")
  /\ \/ Append_(Audit(r)) /\ Goto(r, "record_publish") /\ Silent /\ UNCHANGED next_version
     \/ Fails /\ next_version' = Released(thread[r].version) /\ Finish(r, "refused")
  /\ UNCHANGED <<scene, config, history, drafts, next_id, anonymous_access, sessions, ran, crashes>>

RecordPublish(r) ==
  /\ At(r, "record_publish")
  /\ \/ /\ Append_(Activation(r, thread[r].text))
        /\ Goto(r, "close_draft")
     \/ Fails /\ Goto(r, "abandon")
  /\ UNCHANGED <<scene, memory, answer, crashes>>

\* record_abandoned, which may fail too, then the answer.
Abandon(r) ==
  /\ At(r, "abandon")
  /\ Append_(Audit(r)) \/ Fails
  /\ next_version' = IF Op(r) = "publish" THEN Released(thread[r].version) ELSE next_version
  /\ Finish(r, "refused")
  /\ UNCHANGED <<scene, config, history, drafts, next_id, anonymous_access, sessions, ran, crashes>>

\* The frame is best effort; it is read only at a restart.
CloseDraft(r) ==
  /\ At(r, "close_draft")
  /\ Append_(Closed(r, Want(r).id)) \/ Fails
  /\ drafts' = Without(drafts, Want(r).id)
  /\ Goto(r, "swap") /\ Silent
  /\ UNCHANGED <<scene, config, history, next_version, next_id, anonymous_access, sessions, ran, crashes>>

CompareRollback(r) ==
  /\ At(r, "handle") /\ Op(r) = "rollback" /\ May(r)
  /\ IF IfMatchSatisfied(r)
     THEN thread' = [thread EXCEPT ![r] = [thread[r] EXCEPT !.pc = "previous", !.version = config.version]] /\ Silent
     ELSE Finish(r, "refused")
  /\ UNCHANGED <<scene, memory, disk, crashes>>

\* `previous`: the newest of the history, unless there is none or it is in force.
PeekPrevious(r) ==
  /\ At(r, "previous")
  /\ IF history # <<>> /\ history[1].version # thread[r].version
     THEN thread' = [thread EXCEPT ![r] = [thread[r] EXCEPT !.pc = "take_version", !.text = history[1].text]] /\ Silent
     ELSE Finish(r, "refused")
  /\ UNCHANGED <<scene, memory, disk, crashes>>

\* fetch_add: never handed back.
TakeVersion(r) ==
  /\ At(r, "take_version")
  /\ next_version' = next_version + 1
  /\ thread' = [thread EXCEPT ![r] = [thread[r] EXCEPT !.pc = "audit_rollback", !.version = next_version]]
  /\ Silent
  /\ UNCHANGED <<scene, config, history, drafts, next_id, anonymous_access, sessions, ran, disk, crashes>>

AuditRollback(r) ==
  /\ At(r, "audit_rollback")
  /\ \/ Append_(Audit(r)) /\ Goto(r, "record_rollback") /\ Silent
     \/ Fails /\ Finish(r, "refused")
  /\ UNCHANGED <<scene, memory, crashes>>

RecordRollback(r) ==
  /\ At(r, "record_rollback")
  /\ \/ Append_(Activation(r, thread[r].text)) /\ Goto(r, "swap")
     \/ Fails /\ Goto(r, "abandon")
  /\ UNCHANGED <<scene, memory, answer, crashes>>

\* Snapshot::activate, first half: the pointer.
Activated(r) == [version |-> thread[r].version, text |-> thread[r].text, by |-> r]

Swap(r) ==
  /\ At(r, "swap")
  /\ config' = Activated(r)
  /\ ran' = ran \cup {Activated(r)}
  /\ thread' = [s \in Requests |->
       IF s = r THEN [thread[s] EXCEPT !.pc = "push_history", !.was = config]
       ELSE IF thread[s].pc \in {"waiting", "done"} THEN thread[s]
       ELSE [thread[s] EXCEPT !.since = @ \cup {thread[r].text}]]
  /\ Silent
  /\ UNCHANGED <<scene, history, next_version, drafts, next_id, anonymous_access, sessions,
                 disk, crashes>>

\* Second half, under another lock; then the quotas and the answer.
PushHistory(r) ==
  /\ At(r, "push_history")
  /\ history' = SubSeq(<<thread[r].was>> \o history, 1,
                       IF Len(history) < history_limit THEN Len(history) + 1 ELSE history_limit)
  /\ Finish(r, "ok")
  /\ UNCHANGED <<scene, config, next_version, drafts, next_id, anonymous_access, sessions, ran,
                 disk, crashes>>

----------------------------------------------------------------------------
(* The anonymous-access switch. *)

\* Refused without a subject to serve as, and when it changes nothing.
CheckAnonymous(r) ==
  /\ At(r, "handle") /\ Op(r) = "anonymous" /\ May(r)
  /\ IF (Want(r).on => config.text \in Subject) /\ anonymous_access # Want(r).on
     THEN Goto(r, "audit_anonymous") /\ Silent
     ELSE Finish(r, "refused")
  /\ UNCHANGED <<scene, memory, disk, crashes>>

AuditAnonymous(r) ==
  /\ At(r, "audit_anonymous")
  /\ \/ Append_(Audit(r)) /\ Goto(r, "record_anonymous") /\ Silent
     \/ Fails /\ Finish(r, "refused")
  /\ UNCHANGED <<scene, memory, crashes>>

RecordAnonymous(r) ==
  /\ At(r, "record_anonymous")
  /\ \/ Append_(Switch(r, Want(r).on)) /\ Goto(r, "flip")
     \/ Fails /\ Goto(r, "abandon")
  /\ UNCHANGED <<scene, memory, answer, crashes>>

Flip(r) ==
  /\ At(r, "flip")
  /\ anonymous_access' = Want(r).on
  /\ Finish(r, "ok")
  /\ UNCHANGED <<scene, config, history, next_version, drafts, next_id, sessions, ran, disk, crashes>>

----------------------------------------------------------------------------
\* The process ends at any point and starts again on what the log holds.
Restart(adopting) ==
  LET c == IF adopting THEN adopt(log) ELSE resume_activation(log) IN
  /\ crashes > 0
  /\ crashes' = crashes - 1
  /\ log' = IF adopting THEN log \o <<Activation(Router, File), Audit(Router)>> ELSE log
  /\ config' = c
  /\ next_version' = c.version + 1
  /\ history' = <<>>
  /\ drafts' = restore_drafts(log)
  /\ next_id' = restored_next_id(log)
  /\ anonymous_access' = restore_anonymous_access(log)
  /\ sessions' = <<>>
  /\ ran' = {c}
  /\ thread' = [r \in Requests |-> IF At(r, "waiting") THEN thread[r]
                                   ELSE [thread[r] EXCEPT !.pc = "done"]]
  /\ UNCHANGED <<scene, answer, faults>>

Step(r) ==
  \/ \E seen \in {Star, Etag(config)} : Arrive(r, seen)
  \/ Validate(r) \/ CurrentRoles(r) \/ RefreshRoles(r) \/ ResolveIdentity(r) \/ Issue(r)
  \/ \E op \in {"publish", "rollback", "draft", "edit", "validate", "anonymous"} : Refuse(r, op)
  \/ Logout(r)
  \/ CreateDraft(r) \/ RecordDraft(r) \/ AuditDraft(r) \/ ValidateDraft(r) \/ AuditValidation(r)
  \/ ComparePublish(r) \/ LoadVersion(r) \/ PreparePublish(r) \/ ClaimVersion(r)
  \/ AuditPublish(r) \/ RecordPublish(r) \/ Abandon(r) \/ CloseDraft(r)
  \/ CompareRollback(r) \/ PeekPrevious(r) \/ TakeVersion(r) \/ AuditRollback(r) \/ RecordRollback(r)
  \/ Swap(r) \/ PushHistory(r)
  \/ CheckAnonymous(r) \/ AuditAnonymous(r) \/ RecordAnonymous(r) \/ Flip(r)

Next == \/ \E r \in Requests : Step(r)
        \/ \E adopting \in scene.starts : Restart(adopting)

Spec == Init /\ [][Next]_vars

----------------------------------------------------------------------------
(* Properties. *)

\* Two configurations never share a version number (activation.rs: "two
\* different configurations must never share a version number"): not when
\* publications and roll-backs race for it, not when one that failed hands
\* its number back.
VersionsUnique == \A a, b \in ran : a.version = b.version => a = b

\* A request acts only on authority that some configuration in force since it
\* arrived gives its caller: roles cached in a session never outlive the
\* publication that withdrew them (current_roles).
ActsOnCurrentRoles ==
  \A r \in Requests :
    (thread[r].pc \notin {"waiting", "done", "resolve", "issue", "authenticate", "current_roles", "refresh"}
       /\ May(r))
    => \E text \in thread[r].since : Holds(text, Want(r).caller)

FramesBy(r, kinds) == {i \in DOMAIN log : log[i].kind \in kinds /\ log[i].by = r}

\* The log is ahead of what runs and of what callers were told: every
\* configuration that has run is the file or has its activation frame, what
\* was answered with success comes back after a restart, and a publication,
\* roll-back or switch that was refused has left nothing to come back
\* (publish_draft: "Durable first, then the pointer swap").
RecordedFirst ==
  /\ \A c \in ran : c.by = Router \/ FramesBy(c.by, {"activation"}) # {}
  /\ \A r \in Requests :
       /\ answer[r] = "ok" /\ Op(r) \in {"publish", "rollback"} => FramesBy(r, {"activation"}) # {}
       /\ answer[r] = "ok" /\ Op(r) = "anonymous" => FramesBy(r, {"anonymous"}) # {}
       /\ answer[r] = "ok" /\ Op(r) \in {"draft", "edit"} => FramesBy(r, {"draft"}) # {}
       /\ answer[r] = "refused" => FramesBy(r, {"activation", "anonymous", "draft"}) = {}

\* What runs has a number of its own and a record of its own, however
\* publications, roll-backs and their failures interleave.
NumberedAndRecorded == VersionsUnique /\ RecordedFirst

=============================================================================
