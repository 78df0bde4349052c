---------------------------- MODULE AdminProofs -----------------------------
(***************************************************************************)
(* The management API with any number of requests, drafts, failed appends  *)
(* and restarts; its API keys, as the log gives them back; and its sign-in *)
(* endpoints with any number of threads.                                   *)
(***************************************************************************)
EXTENDS Publication, KeyStore, SignIn, FiniteSetTheorems, WellFoundedInduction, TLAPS

Fields == {"pc", "want", "roles", "seen", "version", "text", "was", "id", "since"}

IsLog(l) == \E S : l \in Seq(S)

ShapeInv ==
  /\ IsLog(log)
  /\ Router \notin Requests /\ DOMAIN answer = Requests
  /\ \A r \in Requests : DOMAIN thread[r] = Fields

\* The points at which a request holds a version number nobody else may have.
Claims(r) ==
  \/ thread[r].pc \in {"audit_publish", "record_publish", "close_draft", "swap",
                       "audit_rollback", "record_rollback"}
  \/ thread[r].pc = "abandon" /\ Op(r) = "publish"

\* A number in use or claimed is below the next one, and no two are the same.
ClaimOf(r) ==
  Claims(r) =>
    /\ thread[r].version \in Nat \ {0} /\ thread[r].version < next_version
    /\ \A c \in ran : c.version # thread[r].version
    /\ \A s \in Requests \ {r} : Claims(s) => thread[s].version # thread[r].version

VersionInv ==
  /\ config \in ran /\ next_version \in Nat
  /\ \A c \in ran : c.version \in Nat \ {0} /\ c.version < next_version
  /\ VersionsUnique
  /\ \A r \in Requests : ClaimOf(r)

\* The points after a request has written its frame, and the frames themselves.
After == {"audit_draft", "validate", "close_draft", "swap", "push_history", "flip", "done"}
Lasting == {"activation", "anonymous", "draft"}

\* Which operation is at which point, so that the frame it wrote is the one its
\* answer speaks of.
OpOf(r) ==
  LET pc == thread[r].pc  op == Op(r) IN
  /\ pc \in {"load_version", "prepare", "claim_version", "audit_publish", "record_publish"} => op = "publish"
  /\ pc \in {"previous", "take_version", "audit_rollback", "record_rollback"} => op = "rollback"
  /\ pc \in {"close_draft", "swap", "push_history"} => op \in {"publish", "rollback"}
  /\ pc \in {"audit_anonymous", "record_anonymous", "flip"} => op = "anonymous"
  /\ pc \in {"record_draft", "audit_draft"} => op \in {"draft", "edit"}
  /\ pc = "validate" => op = "edit"
  /\ pc = "audit_draft_valid" => op = "validate"
  /\ pc \in {"resolve", "issue"} => op = "sign_in"
  /\ answer[r] # "none" => pc = "done"

WroteOf(r) ==
  LET pc == thread[r].pc IN
  /\ pc \in {"close_draft", "swap", "push_history"} => FramesBy(r, {"activation"}) # {}
  /\ pc = "flip" => FramesBy(r, {"anonymous"}) # {}
  /\ pc \in {"audit_draft", "validate"} => FramesBy(r, {"draft"}) # {}
  /\ pc \notin After => FramesBy(r, Lasting) = {}

ToldOf(r) ==
  /\ answer[r] = "ok" /\ Op(r) \in {"publish", "rollback"} => FramesBy(r, {"activation"}) # {}
  /\ answer[r] = "ok" /\ Op(r) = "anonymous" => FramesBy(r, {"anonymous"}) # {}
  /\ answer[r] = "ok" /\ Op(r) \in {"draft", "edit"} => FramesBy(r, {"draft"}) # {}
  /\ answer[r] = "refused" => FramesBy(r, Lasting) = {}

RecordOf(r) == OpOf(r) /\ WroteOf(r) /\ ToldOf(r)

RanRecorded == \A c \in ran : c.by = Router \/ FramesBy(c.by, {"activation"}) # {}

RecordInv == RanRecorded /\ \A r \in Requests : RecordOf(r)

\* Roles that some configuration of this start gave under that version.
Given(c, roles, version) == \E k \in ran : k.version = version /\ roles = Holds(k.text, c)

Resolving == {"waiting", "done", "resolve", "issue", "authenticate", "current_roles", "refresh"}

RoleOf(r) ==
  LET t == thread[r]  c == Want(r).caller IN
  /\ t.pc \notin {"waiting", "done", "push_history"} => config.text \in t.since
  /\ t.pc = "current_roles" /\ c \notin KeyCallers /\ t.version # 0 => Given(c, t.roles, t.version)
  /\ t.pc = "refresh" => t.text \in t.since /\ \E k \in ran : k.version = t.version /\ k.text = t.text
  /\ t.pc \notin Resolving /\ t.roles => \E text \in t.since : Holds(text, c)

SessionsInv ==
  \A c \in DOMAIN sessions : sessions[c].version # None => Given(c, sessions[c].roles, sessions[c].version)

RoleInv == SessionsInv /\ \A r \in Requests : RoleOf(r)

PublicationInv == ShapeInv /\ VersionInv /\ RecordInv /\ RoleInv

-----------------------------------------------------------------------------
(* The log. *)

\* r adds one frame of that kind.
Adds(r, kind) == \E f : f.kind = kind /\ f.by = r /\ log' = Append(log, f)

\* What an append does to the frames of a request and a set of kinds.
LEMMA Appended ==
  ASSUME IsLog(log), NEW f, log' = Append(log, f)
  PROVE  /\ IsLog(log)'
         /\ \A s, K : FramesBy(s, K)' = FramesBy(s, K) \cup
                        (IF f.kind \in K /\ f.by = s THEN {Len(log) + 1} ELSE {})
<1>1. PICK S : log \in Seq(S)
  BY DEF IsLog
<1>2. log' \in Seq(S \cup {f})
  BY <1>1
<1>3. /\ Len(log) \in Nat /\ DOMAIN log = 1 .. Len(log)
      /\ DOMAIN log' = 1 .. Len(log) + 1
      /\ \A i \in 1 .. Len(log) : log'[i] = log[i]
      /\ log'[Len(log) + 1] = f
  BY <1>1
<1> QED
  BY <1>2, <1>3 DEF IsLog, FramesBy

LEMMA Added ==
  ASSUME IsLog(log), NEW r, NEW kind, Adds(r, kind)
  PROVE  /\ IsLog(log)'
         /\ \A s, K : FramesBy(s, K) # {} => FramesBy(s, K)' # {}
         /\ \A s, K : s # r \/ kind \notin K => FramesBy(s, K)' = FramesBy(s, K)
         /\ \A K : kind \in K => FramesBy(r, K)' # {}
<1>1. PICK f : f.kind = kind /\ f.by = r /\ log' = Append(log, f)
  BY DEF Adds
<1>2. /\ IsLog(log)'
      /\ \A s, K : FramesBy(s, K)' = FramesBy(s, K) \cup
                     (IF f.kind \in K /\ f.by = s THEN {Len(log) + 1} ELSE {})
  BY <1>1, Appended
<1>3. ASSUME NEW s, NEW K, s # r \/ kind \notin K PROVE FramesBy(s, K)' = FramesBy(s, K)
  BY <1>1, <1>2, <1>3
<1>4. ASSUME NEW K, kind \in K PROVE FramesBy(r, K)' # {}
  BY <1>1, <1>2, <1>4
<1>5. ASSUME NEW s, NEW K, FramesBy(s, K) # {} PROVE FramesBy(s, K)' # {}
  BY <1>2, <1>5
<1> QED
  BY <1>2, <1>3, <1>4, <1>5

\* Every frame a request writes carries its name.
LEMMA FramesNamed ==
  ASSUME NEW r
  PROVE  /\ Append_(Audit(r)) => Adds(r, "audit")
         /\ \A text : Append_(Activation(r, text)) => Adds(r, "activation")
         /\ \A id, d : Append_(DraftFrame(r, id, d)) => Adds(r, "draft")
         /\ \A id : Append_(Closed(r, id)) => Adds(r, "closed")
         /\ \A on : Append_(Switch(r, on)) => Adds(r, "anonymous")
<1>1. Append_(Audit(r)) => Adds(r, "audit")
  BY DEF Append_, Adds, Audit
<1>2. ASSUME NEW text, Append_(Activation(r, text)) PROVE Adds(r, "activation")
  BY <1>2 DEF Append_, Adds, Activation
<1>3. ASSUME NEW id, NEW d, Append_(DraftFrame(r, id, d)) PROVE Adds(r, "draft")
  BY <1>3 DEF Append_, Adds, DraftFrame
<1>4. ASSUME NEW id, Append_(Closed(r, id)) PROVE Adds(r, "closed")
  BY <1>4 DEF Append_, Adds, Closed
<1>5. ASSUME NEW on, Append_(Switch(r, on)) PROVE Adds(r, "anonymous")
  BY <1>5 DEF Append_, Adds, Switch
<1> QED
  BY <1>1, <1>2, <1>3, <1>4, <1>5

-----------------------------------------------------------------------------
(* One request's step. *)

\* It leaves the others' threads and answers alone, and what it is asked to do.
Still(r) ==
  /\ Requests' = Requests /\ DOMAIN answer' = Requests
  /\ \A s \in Requests \ {r} : thread'[s] = thread[s] /\ answer'[s] = answer[s]
  /\ DOMAIN thread'[r] = Fields /\ thread'[r].want = thread[r].want

\* Checked step by step.
LEMMA Alone ==
  ASSUME ShapeInv, NEW r \in Requests, Step(r), ~Swap(r)
  PROVE  Still(r)
<1> USE DEF ShapeInv, Still, Requests, Goto, Finish, Silent, Fields
<1>1. CASE \E seen \in {Star, Etag(config)} : Arrive(r, seen)
  <2>1. PICK seen : Arrive(r, seen)
    BY <1>1
  <2> DEFINE pc == IF Op(r) = "sign_in" THEN "resolve" ELSE "authenticate"
             t == [thread[r] EXCEPT !.pc = pc, !.seen = seen, !.since = {config.text}]
  <2>2. thread' = [thread EXCEPT ![r] = t] /\ answer' = answer
    BY <2>1 DEF Arrive
  <2> HIDE DEF pc
  <2>3. DOMAIN t = Fields /\ t.want = thread[r].want
    OBVIOUS
  <2> HIDE DEF t
  <2> QED
    BY <2>2, <2>3
<1>2. CASE Validate(r)
  BY <1>2 DEF Validate
<1>3. CASE CurrentRoles(r)
  BY <1>3 DEF CurrentRoles
<1>4. CASE RefreshRoles(r)
  <2>1. \/ \E x : thread' = [thread EXCEPT ![r] = [thread[r] EXCEPT !.pc = "handle", !.roles = x]]
                  /\ answer' = answer
        \/ Finish(r, "unauthenticated")
    BY <1>4 DEF RefreshRoles
  <2> QED
    BY <2>1
<1>5. CASE ResolveIdentity(r)
  BY <1>5 DEF ResolveIdentity
<1>6. CASE Issue(r)
  BY <1>6 DEF Issue
<1>7. CASE \E op \in {"publish", "rollback", "draft", "edit", "validate", "anonymous"} : Refuse(r, op)
  BY <1>7 DEF Refuse
<1>8. CASE Logout(r)
  BY <1>8 DEF Logout
<1>9. CASE CreateDraft(r)
  BY <1>9 DEF CreateDraft
<1>10. CASE RecordDraft(r)
  BY <1>10 DEF RecordDraft
<1>11. CASE AuditDraft(r)
  BY <1>11 DEF AuditDraft
<1>12. CASE ValidateDraft(r)
  BY <1>12 DEF ValidateDraft
<1>13. CASE AuditValidation(r)
  BY <1>13 DEF AuditValidation
<1>14. CASE ComparePublish(r)
  BY <1>14 DEF ComparePublish
<1>15. CASE LoadVersion(r)
  BY <1>15 DEF LoadVersion
<1>16. CASE PreparePublish(r)
  BY <1>16 DEF PreparePublish
<1>17. CASE ClaimVersion(r)
  BY <1>17 DEF ClaimVersion
<1>18. CASE AuditPublish(r)
  BY <1>18 DEF AuditPublish
<1>19. CASE RecordPublish(r)
  BY <1>19 DEF RecordPublish
<1>20. CASE Abandon(r)
  BY <1>20 DEF Abandon
<1>21. CASE CloseDraft(r)
  BY <1>21 DEF CloseDraft
<1>22. CASE CompareRollback(r)
  BY <1>22 DEF CompareRollback
<1>23. CASE PeekPrevious(r)
  BY <1>23 DEF PeekPrevious
<1>24. CASE TakeVersion(r)
  BY <1>24 DEF TakeVersion
<1>25. CASE AuditRollback(r)
  BY <1>25 DEF AuditRollback
<1>26. CASE RecordRollback(r)
  BY <1>26 DEF RecordRollback
<1>27. CASE PushHistory(r)
  BY <1>27 DEF PushHistory
<1>28. CASE CheckAnonymous(r)
  BY <1>28 DEF CheckAnonymous
<1>29. CASE AuditAnonymous(r)
  BY <1>29 DEF AuditAnonymous
<1>30. CASE RecordAnonymous(r)
  BY <1>30 DEF RecordAnonymous
<1>31. CASE Flip(r)
  BY <1>31 DEF Flip
<1> QED
  BY <1>1, <1>2, <1>3, <1>4, <1>5, <1>6, <1>7, <1>8, <1>9, <1>10, <1>11, <1>12, <1>13, <1>14, <1>15,
     <1>16, <1>17, <1>18, <1>19, <1>20, <1>21, <1>22, <1>23, <1>24, <1>25, <1>26, <1>27, <1>28,
     <1>29, <1>30, <1>31 DEF Step

\* Each of its steps keeps its own record straight and writes one frame at most.
LEMMA OwnRecord ==
  ASSUME ShapeInv, NEW r \in Requests, Step(r), ~Swap(r), RecordOf(r)
  PROVE  RecordOf(r)' /\ (log' = log \/ \E kind : Adds(r, kind))
<1>w. thread'[r].want = thread[r].want
  BY Alone DEF Still
<1>n. log' = log => \A K : FramesBy(r, K)' = FramesBy(r, K)
  BY DEF FramesBy
<1>s. DOMAIN thread[r] = {"pc", "want", "roles", "seen", "version", "text", "was", "id", "since"}
      /\ r \in DOMAIN thread /\ r \in DOMAIN answer
  BY DEF ShapeInv, Fields, Requests
<1>l. \A kind : Adds(r, kind) =>
         /\ \A K : kind \notin K => FramesBy(r, K)' = FramesBy(r, K)
         /\ \A K : kind \in K => FramesBy(r, K)' # {}
         /\ \A K : FramesBy(r, K) # {} => FramesBy(r, K)' # {}
  BY Added DEF ShapeInv
<1> USE DEF RecordOf, OpOf, WroteOf, ToldOf, After, Lasting, Op, Want, At, Goto, Finish, Silent, Fails, disk
<1>1. CASE \E seen \in {Star, Etag(config)} : Arrive(r, seen)
  <2>1. log' = log
    BY <1>1 DEF Arrive, disk
  <2>2. /\ thread[r].pc = "waiting" /\ answer' = answer
          /\ thread'[r].pc = IF Op(r) = "sign_in" THEN "resolve" ELSE "authenticate"
    BY <1>1, <1>s DEF Arrive
  <2> QED
    BY <2>1, <2>2, <1>w, <1>n
<1>2. CASE Validate(r)
  <2>1. log' = log
    BY <1>2 DEF Validate, disk
  <2>2. /\ thread[r].pc = "authenticate"
          /\ \/ thread'[r].pc = "current_roles" /\ answer' = answer
             \/ thread'[r].pc = "done" /\ answer'[r] = "unauthenticated"
    BY <1>2, <1>s DEF Validate
  <2> QED
    BY <2>1, <2>2, <1>w, <1>n
<1>3. CASE CurrentRoles(r)
  <2>1. log' = log
    BY <1>3 DEF CurrentRoles, disk
  <2>2. /\ thread[r].pc = "current_roles"
          /\ \/ thread'[r].pc \in {"handle", "refresh"} /\ answer' = answer
             \/ thread'[r].pc = "done" /\ answer'[r] = "unauthenticated"
    BY <1>3, <1>s DEF CurrentRoles
  <2> QED
    BY <2>1, <2>2, <1>w, <1>n
<1>4. CASE RefreshRoles(r)
  <2>1. log' = log
    BY <1>4 DEF RefreshRoles, disk
  <2>2. /\ thread[r].pc = "refresh"
          /\ \/ thread'[r].pc = "handle" /\ answer' = answer
             \/ thread'[r].pc = "done" /\ answer'[r] = "unauthenticated"
    BY <1>4, <1>s DEF RefreshRoles
  <2> QED
    BY <2>1, <2>2, <1>w, <1>n
<1>5. CASE ResolveIdentity(r)
  <2>1. log' = log
    BY <1>5 DEF ResolveIdentity, disk
  <2>2. /\ thread[r].pc = "resolve"
          /\ \/ thread'[r].pc = "issue" /\ answer' = answer
             \/ thread'[r].pc = "done" /\ answer'[r] = "refused"
    BY <1>5, <1>s DEF ResolveIdentity
  <2> QED
    BY <2>1, <2>2, <1>w, <1>n
<1>6. CASE Issue(r)
  BY <1>6, <1>w, <1>n, <1>s, <1>l, FramesNamed DEF Issue
<1>7. CASE \E op \in {"publish", "rollback", "draft", "edit", "validate", "anonymous"} : Refuse(r, op)
  BY <1>7, <1>w, <1>n, <1>s, <1>l, FramesNamed DEF Refuse
<1>8. CASE Logout(r)
  BY <1>8, <1>w, <1>n, <1>s, <1>l, FramesNamed DEF Logout
<1>9. CASE CreateDraft(r)
  BY <1>9, <1>w, <1>n, <1>s, <1>l, FramesNamed DEF CreateDraft
<1>10. CASE RecordDraft(r)
  BY <1>10, <1>w, <1>n, <1>s, <1>l, FramesNamed DEF RecordDraft
<1>11. CASE AuditDraft(r)
  BY <1>11, <1>w, <1>n, <1>s, <1>l, FramesNamed DEF AuditDraft
<1>12. CASE ValidateDraft(r)
  BY <1>12, <1>w, <1>n, <1>s, <1>l, FramesNamed DEF ValidateDraft
<1>13. CASE AuditValidation(r)
  BY <1>13, <1>w, <1>n, <1>s, <1>l, FramesNamed DEF AuditValidation
<1>14. CASE ComparePublish(r)
  BY <1>14, <1>w, <1>n, <1>s, <1>l, FramesNamed DEF ComparePublish
<1>15. CASE LoadVersion(r)
  BY <1>15, <1>w, <1>n, <1>s, <1>l, FramesNamed DEF LoadVersion
<1>16. CASE PreparePublish(r)
  <2>1. log' = log
    BY <1>16 DEF PreparePublish, disk
  <2>2. /\ thread[r].pc = "prepare"
          /\ \/ thread'[r].pc = "claim_version" /\ answer' = answer
             \/ thread'[r].pc = "done" /\ answer'[r] = "refused"
    BY <1>16, <1>s DEF PreparePublish
  <2> QED
    BY <2>1, <2>2, <1>w, <1>n
<1>17. CASE ClaimVersion(r)
  BY <1>17, <1>w, <1>n, <1>s, <1>l, FramesNamed DEF ClaimVersion
<1>18. CASE AuditPublish(r)
  BY <1>18, <1>w, <1>n, <1>s, <1>l, FramesNamed DEF AuditPublish
<1>19. CASE RecordPublish(r)
  BY <1>19, <1>w, <1>n, <1>s, <1>l, FramesNamed DEF RecordPublish
<1>20. CASE Abandon(r)
  BY <1>20, <1>w, <1>n, <1>s, <1>l, FramesNamed DEF Abandon
<1>21. CASE CloseDraft(r)
  BY <1>21, <1>w, <1>n, <1>s, <1>l, FramesNamed DEF CloseDraft
<1>22. CASE CompareRollback(r)
  <2>1. log' = log
    BY <1>22 DEF CompareRollback, disk
  <2>2. /\ thread[r].pc = "handle" /\ Op(r) = "rollback"
          /\ \/ thread'[r].pc = "previous" /\ answer' = answer
             \/ thread'[r].pc = "done" /\ answer'[r] = "refused"
    BY <1>22, <1>s DEF CompareRollback
  <2> QED
    BY <2>1, <2>2, <1>w, <1>n
<1>23. CASE PeekPrevious(r)
  <2>1. log' = log
    BY <1>23 DEF PeekPrevious, disk
  <2>2. /\ thread[r].pc = "previous"
          /\ \/ thread'[r].pc = "take_version" /\ answer' = answer
             \/ thread'[r].pc = "done" /\ answer'[r] = "refused"
    BY <1>23, <1>s DEF PeekPrevious
  <2> QED
    BY <2>1, <2>2, <1>w, <1>n
<1>24. CASE TakeVersion(r)
  BY <1>24, <1>w, <1>n, <1>s, <1>l, FramesNamed DEF TakeVersion
<1>25. CASE AuditRollback(r)
  BY <1>25, <1>w, <1>n, <1>s, <1>l, FramesNamed DEF AuditRollback
<1>26. CASE RecordRollback(r)
  BY <1>26, <1>w, <1>n, <1>s, <1>l, FramesNamed DEF RecordRollback
<1>27. CASE PushHistory(r)
  BY <1>27, <1>w, <1>n, <1>s, <1>l, FramesNamed DEF PushHistory
<1>28. CASE CheckAnonymous(r)
  BY <1>28, <1>w, <1>n, <1>s, <1>l, FramesNamed DEF CheckAnonymous
<1>29. CASE AuditAnonymous(r)
  BY <1>29, <1>w, <1>n, <1>s, <1>l, FramesNamed DEF AuditAnonymous
<1>30. CASE RecordAnonymous(r)
  BY <1>30, <1>w, <1>n, <1>s, <1>l, FramesNamed DEF RecordAnonymous
<1>31. CASE Flip(r)
  BY <1>31, <1>w, <1>n, <1>s, <1>l, FramesNamed DEF Flip
<1> QED
  BY <1>1, <1>2, <1>3, <1>4, <1>5, <1>6, <1>7, <1>8, <1>9, <1>10, <1>11, <1>12, <1>13, <1>14, <1>15,
     <1>16, <1>17, <1>18, <1>19, <1>20, <1>21, <1>22, <1>23, <1>24, <1>25, <1>26, <1>27, <1>28,
     <1>29, <1>30, <1>31 DEF Step

-----------------------------------------------------------------------------
(* What a start makes of the log. *)

\* The newest activation frame exists: the log is finite.
LEMMA Newest ==
  ASSUME IsLog(log), Activations(log) # {}
  PROVE  \E i \in Activations(log) : \A j \in Activations(log) : j <= i
<1> DEFINE R == {p \in Nat \X Nat : p[1] < p[2]}
           T == {Len(log) - i : i \in Activations(log)}
<1>1. IsWellFoundedOn(R, Nat)
  BY NatLessThanWellFounded DEF OpToRel
<1>2. Len(log) \in Nat /\ Activations(log) \subseteq 1 .. Len(log)
  <2>1. PICK S : log \in Seq(S)
    BY DEF IsLog
  <2> QED
    BY <2>1 DEF Activations
<1>3. T \subseteq Nat /\ T # {}
  BY <1>2
<1>4. PICK x \in T : \A y \in T : ~(<<y, x>> \in R)
  <2> HIDE DEF R, T
  <2> QED BY <1>1, <1>3, WFMin
<1>5. PICK i \in Activations(log) : x = Len(log) - i
  OBVIOUS
<1>6. ASSUME NEW j \in Activations(log) PROVE j <= i
  <2>1. Len(log) - j \in T /\ Len(log) - j \in Nat /\ x \in Nat
    BY <1>3
  <2>2. ~(Len(log) - j < x)
    BY <1>4, <2>1
  <2> QED
    BY <1>2, <1>5, <2>1, <2>2
<1> QED
  BY <1>6

\* It runs the file, or what the newest activation frame records.
LEMMA Resumed ==
  ASSUME IsLog(log), NEW c, c = resume_activation(log)
  PROVE  /\ c.version \in Nat \ {0}
         /\ c.by = Router \/ FramesBy(c.by, {"activation"}) # {}
<1>1. CASE Activations(log) = {}
  BY <1>1 DEF resume_activation
<1>2. CASE Activations(log) # {}
  <2>0. PICK i : i = CHOOSE k \in Activations(log) : \A j \in Activations(log) : j <= k
    OBVIOUS
  <2>1. i \in Activations(log)
    BY <1>2, <2>0, Newest
  <2>2. PICK S : log \in Seq(S)
    BY DEF IsLog
  <2>3. i \in Nat \ {0} /\ i \in DOMAIN log /\ log[i].kind = "activation"
    BY <2>1, <2>2 DEF Activations
  <2>4. c = [version |-> i, text |-> log[i].text, by |-> log[i].by]
    BY <1>2, <2>0 DEF resume_activation
  <2>5. i \in FramesBy(log[i].by, {"activation"})
    BY <2>3 DEF FramesBy
  <2> QED
    BY <2>3, <2>4, <2>5
<1> QED
  BY <1>1, <1>2

\* A start that adopts the file takes a number above every frame.
LEMMA FileAdopted ==
  ASSUME IsLog(log), NEW c, c = adopt(log)
  PROVE  c.version \in Nat \ {0} /\ c.by = Router
<1>1. Len(log) \in Nat
  <2>1. PICK S : log \in Seq(S)
    BY DEF IsLog
  <2> QED
    BY <2>1
<1>2. PICK d : d = resume_activation(log)
  OBVIOUS
<1>3. DOMAIN d = {"version", "text", "by"}
  BY <1>2 DEF resume_activation
<1>4. d.version \in Nat \ {0}
  BY <1>2, Resumed
<1>5. c = [d EXCEPT !.version = IF Activations(log) = {} THEN d.version ELSE Len(log) + 1,
                    !.text = File, !.by = Router]
  BY <1>2 DEF adopt
<1>6. c.by = Router /\ c.version = IF Activations(log) = {} THEN d.version ELSE Len(log) + 1
  BY <1>3, <1>5
<1> QED
  BY <1>1, <1>4, <1>6

\* What is left of the requests, and of the log, after a restart.
Restarted ==
  /\ IsLog(log)' /\ Requests' = Requests /\ answer' = answer
  /\ \A s \in Requests : /\ DOMAIN thread'[s] = Fields /\ thread'[s].want = thread[s].want
                         /\ thread[s].pc = "waiting" => thread'[s] = thread[s]
                         /\ thread[s].pc # "waiting" => thread'[s].pc = "done"
                         /\ \A K : FramesBy(s, K)' = FramesBy(s, K)
  /\ ran' = {config'} /\ next_version' = config'.version + 1 /\ sessions' = <<>>
  /\ config'.version \in Nat \ {0}
  /\ RanRecorded'

\* Whether it resumes or adopts the file.
LEMMA Restarts ==
  ASSUME ShapeInv, NEW adopting, Restart(adopting)
  PROVE  Restarted
<1>1. /\ Requests' = Requests /\ answer' = answer
      /\ \A s \in Requests : /\ DOMAIN thread'[s] = Fields /\ thread'[s].want = thread[s].want
                             /\ thread[s].pc = "waiting" => thread'[s] = thread[s]
                             /\ thread[s].pc # "waiting" => thread'[s].pc = "done"
  BY DEF ShapeInv, Restart, Requests, At, Fields
<1>2. /\ ran' = {config'} /\ next_version' = config'.version + 1 /\ sessions' = <<>>
  BY DEF Restart
<1>3. PICK c : c = IF adopting THEN adopt(log) ELSE resume_activation(log)
  OBVIOUS
<1>4. config' = c
  BY <1>3 DEF Restart
<1>5. CASE ~adopting
  <2>1. log' = log /\ c = resume_activation(log)
    BY <1>3, <1>5 DEF Restart
  <2>2. \A s, K : FramesBy(s, K)' = FramesBy(s, K)
    BY <2>1 DEF FramesBy
  <2>3. IsLog(log)'
    BY <2>1 DEF ShapeInv, IsLog
  <2> QED
    <3>1. c.version \in Nat \ {0} /\ (c.by = Router \/ FramesBy(c.by, {"activation"}) # {})
      BY <2>1, Resumed DEF ShapeInv
    <3>2. RanRecorded'
      BY <1>2, <1>4, <2>1, <3>1 DEF RanRecorded, FramesBy
    <3> QED
      BY <1>1, <1>2, <1>4, <2>2, <2>3, <3>1, <3>2 DEF Restarted
<1>6. CASE adopting
  <2>1. log' = log \o <<Activation(Router, File), Audit(Router)>> /\ c = adopt(log)
    BY <1>3, <1>6 DEF Restart
  <2>2. PICK S : log \in Seq(S)
    BY DEF ShapeInv, IsLog
  <2> DEFINE U == S \cup {Activation(Router, File), Audit(Router)}
  <2>3. log' \in Seq(U)
    <3>1. log \in Seq(U) /\ <<Activation(Router, File), Audit(Router)>> \in Seq(U)
      BY <2>2
    <3> QED
      BY <2>1, <3>1
  <2>4. /\ DOMAIN log = 1 .. Len(log) /\ Len(log) \in Nat /\ DOMAIN log' = 1 .. Len(log) + 2
        /\ \A i \in 1 .. Len(log) : log'[i] = log[i]
        /\ log'[Len(log) + 1] = Activation(Router, File) /\ log'[Len(log) + 2] = Audit(Router)
    BY <2>1, <2>2
  <2>5. ASSUME NEW s \in Requests, NEW K PROVE FramesBy(s, K)' = FramesBy(s, K)
    <3>1. s # Router
      BY DEF ShapeInv
    <3>2. Activation(Router, File).by = Router /\ Audit(Router).by = Router
      BY DEF Activation, Audit
    <3>3. \A i \in DOMAIN log' : i \in DOMAIN log \/ log'[i].by = Router
      BY <2>4, <3>2
    <3> QED
      BY <2>4, <3>1, <3>3 DEF FramesBy
  <2>6. IsLog(log)'
    BY <2>3 DEF IsLog
  <2> QED
    <3>1. c.version \in Nat \ {0} /\ c.by = Router
      BY <2>1, FileAdopted DEF ShapeInv
    <3>2. RanRecorded'
      BY <1>2, <1>4, <3>1 DEF RanRecorded, Router
    <3> QED
      BY <1>1, <1>2, <1>4, <2>5, <2>6, <3>1, <3>2 DEF Restarted
<1> QED
  BY <1>5, <1>6

-----------------------------------------------------------------------------
(* A swap touches every thread under way. *)

Swapped(r) ==
  /\ Requests' = Requests /\ answer' = answer /\ log' = log /\ sessions' = sessions
  /\ next_version' = next_version
  /\ thread[r].pc = "swap" /\ thread'[r].pc = "push_history"
  /\ config' = Activated(r) /\ ran' = ran \cup {Activated(r)}
  /\ \A s \in Requests :
       /\ DOMAIN thread'[s] = Fields
       /\ \A x \in {"want", "roles", "version", "text"} : thread'[s][x] = thread[s][x]
       /\ s # r => thread'[s].pc = thread[s].pc
       /\ thread'[s].since = IF s = r \/ thread[s].pc \in {"waiting", "done"} THEN thread[s].since
                             ELSE thread[s].since \cup {thread[r].text}

\* The swap is such a step.
LEMMA Swaps ==
  ASSUME ShapeInv, NEW r \in Requests, Swap(r)
  PROVE  Swapped(r)
<1>1. /\ Requests' = Requests /\ answer' = answer /\ log' = log /\ sessions' = sessions
      /\ next_version' = next_version /\ thread[r].pc = "swap"
      /\ config' = Activated(r) /\ ran' = ran \cup {Activated(r)}
  BY DEF Swap, Requests, Silent, disk, At
<1>2. ASSUME NEW s \in Requests, s # r
      PROVE  /\ DOMAIN thread'[s] = Fields
             /\ \A x \in {"want", "roles", "version", "text", "pc"} : thread'[s][x] = thread[s][x]
             /\ thread'[s].since = IF thread[s].pc \in {"waiting", "done"} THEN thread[s].since
                                   ELSE thread[s].since \cup {thread[r].text}
  BY <1>2 DEF Swap, ShapeInv, Fields
<1>3. /\ DOMAIN thread'[r] = Fields
      /\ \A x \in {"want", "roles", "version", "text", "since"} : thread'[r][x] = thread[r][x]
      /\ thread'[r].pc = "push_history"
  <2>1. thread'[r] = [thread[r] EXCEPT !.pc = "push_history", !.was = config]
    BY DEF Swap
  <2> QED
    BY <2>1 DEF ShapeInv, Fields
<1> QED
  BY <1>1, <1>2, <1>3 DEF Swapped

\* The shape is kept by all of them.
LEMMA ShapeStep == ShapeInv /\ RecordInv /\ Next => ShapeInv'
<1> SUFFICES ASSUME ShapeInv, RecordInv, Next PROVE ShapeInv'
  OBVIOUS
<1>1. ASSUME NEW r \in Requests, Step(r), Swap(r) PROVE ShapeInv'
  BY <1>1, Swaps DEF Swapped, ShapeInv, IsLog
<1>2. ASSUME NEW r \in Requests, Step(r), ~Swap(r) PROVE ShapeInv'
  <2>1. Still(r)
    BY <1>2, Alone
  <2>2. IsLog(log)'
    <3>1. log' = log \/ \E kind : Adds(r, kind)
      BY <1>2, OwnRecord DEF RecordInv
    <3> QED
      BY <3>1, Added DEF ShapeInv, IsLog
  <2> QED
    BY <2>1, <2>2 DEF Still, ShapeInv
<1>3. ASSUME NEW adopting, Restart(adopting) PROVE ShapeInv'
  BY <1>3, Restarts DEF Restarted, ShapeInv
<1> QED
  BY <1>1, <1>2, <1>3 DEF Next
-----------------------------------------------------------------------------
(* Records. *)

\* Only a swap or a restart changes what runs.
LEMMA Steady ==
  ASSUME NEW r \in Requests, Step(r), ~Swap(r)
  PROVE  config' = config /\ ran' = ran
<1> USE DEF memory
<1>1. CASE \E seen \in {Star, Etag(config)} : Arrive(r, seen)
  BY <1>1 DEF Arrive
<1>2. CASE Validate(r)
  BY <1>2 DEF Validate
<1>3. CASE CurrentRoles(r)
  BY <1>3 DEF CurrentRoles
<1>4. CASE RefreshRoles(r)
  BY <1>4 DEF RefreshRoles
<1>5. CASE ResolveIdentity(r)
  BY <1>5 DEF ResolveIdentity
<1>6. CASE Issue(r)
  BY <1>6 DEF Issue
<1>7. CASE \E op \in {"publish", "rollback", "draft", "edit", "validate", "anonymous"} : Refuse(r, op)
  BY <1>7 DEF Refuse
<1>8. CASE Logout(r)
  BY <1>8 DEF Logout
<1>9. CASE CreateDraft(r)
  BY <1>9 DEF CreateDraft
<1>10. CASE RecordDraft(r)
  BY <1>10 DEF RecordDraft
<1>11. CASE AuditDraft(r)
  BY <1>11 DEF AuditDraft
<1>12. CASE ValidateDraft(r)
  BY <1>12 DEF ValidateDraft
<1>13. CASE AuditValidation(r)
  BY <1>13 DEF AuditValidation
<1>14. CASE ComparePublish(r)
  BY <1>14 DEF ComparePublish
<1>15. CASE LoadVersion(r)
  BY <1>15 DEF LoadVersion
<1>16. CASE PreparePublish(r)
  BY <1>16 DEF PreparePublish
<1>17. CASE ClaimVersion(r)
  BY <1>17 DEF ClaimVersion
<1>18. CASE AuditPublish(r)
  BY <1>18 DEF AuditPublish
<1>19. CASE RecordPublish(r)
  BY <1>19 DEF RecordPublish
<1>20. CASE Abandon(r)
  BY <1>20 DEF Abandon
<1>21. CASE CloseDraft(r)
  BY <1>21 DEF CloseDraft
<1>22. CASE CompareRollback(r)
  BY <1>22 DEF CompareRollback
<1>23. CASE PeekPrevious(r)
  BY <1>23 DEF PeekPrevious
<1>24. CASE TakeVersion(r)
  BY <1>24 DEF TakeVersion
<1>25. CASE AuditRollback(r)
  BY <1>25 DEF AuditRollback
<1>26. CASE RecordRollback(r)
  BY <1>26 DEF RecordRollback
<1>27. CASE PushHistory(r)
  BY <1>27 DEF PushHistory
<1>28. CASE CheckAnonymous(r)
  BY <1>28 DEF CheckAnonymous
<1>29. CASE AuditAnonymous(r)
  BY <1>29 DEF AuditAnonymous
<1>30. CASE RecordAnonymous(r)
  BY <1>30 DEF RecordAnonymous
<1>31. CASE Flip(r)
  BY <1>31 DEF Flip
<1> QED
  BY <1>1, <1>2, <1>3, <1>4, <1>5, <1>6, <1>7, <1>8, <1>9, <1>10, <1>11, <1>12, <1>13, <1>14, <1>15,
     <1>16, <1>17, <1>18, <1>19, <1>20, <1>21, <1>22, <1>23, <1>24, <1>25, <1>26, <1>27, <1>28,
     <1>29, <1>30, <1>31 DEF Step

LEMMA RecordStep == ShapeInv /\ RecordInv /\ Next => RecordInv'
<1> SUFFICES ASSUME ShapeInv, RecordInv, Next PROVE RecordInv'
  OBVIOUS
<1>1. ASSUME NEW r \in Requests, Step(r), ~Swap(r) PROVE RecordInv'
  <2>1. RecordOf(r)' /\ (log' = log \/ \E kind : Adds(r, kind))
    BY <1>1, OwnRecord DEF RecordInv
  <2>2. /\ \A s, K : FramesBy(s, K) # {} => FramesBy(s, K)' # {}
        /\ \A s, K : s # r => FramesBy(s, K)' = FramesBy(s, K)
    <3>1. CASE log' = log
      BY <3>1 DEF FramesBy
    <3>2. CASE \E kind : Adds(r, kind)
      BY <3>2, Added DEF ShapeInv
    <3> QED
      BY <2>1, <3>1, <3>2
  <2>3. Still(r) /\ ran' = ran
    BY <1>1, Alone, Steady
  <2>4. ASSUME NEW s \in Requests, s # r PROVE RecordOf(s)'
    <3>1. RecordOf(s) /\ thread'[s] = thread[s] /\ answer'[s] = answer[s]
      BY <2>3, <2>4 DEF RecordInv, Still
    <3>2. \A K : FramesBy(s, K)' = FramesBy(s, K)
      BY <2>2, <2>4
    <3> QED
      BY <3>1, <3>2 DEF RecordOf, OpOf, WroteOf, ToldOf, Op, Want
  <2>5. RanRecorded'
    BY <2>2, <2>3 DEF RecordInv, RanRecorded
  <2> QED
    BY <2>1, <2>3, <2>4, <2>5 DEF RecordInv, Still
<1>2. ASSUME NEW r \in Requests, Swap(r) PROVE RecordInv'
  <2>1. Swapped(r)
    BY <1>2, Swaps
  <2>2. \A s, K : FramesBy(s, K)' = FramesBy(s, K)
    BY <2>1 DEF Swapped, FramesBy
  <2>3. FramesBy(r, {"activation"}) # {} /\ RecordOf(r)
    BY <2>1 DEF RecordInv, RecordOf, WroteOf, Swapped
  <2>4. RanRecorded'
    <3>1. \A c \in ran' : c \in ran \/ c.by = r
      BY <2>1 DEF Swapped, Activated
    <3> QED
      BY <2>2, <2>3, <3>1 DEF RecordInv, RanRecorded
  <2>5. ASSUME NEW s \in Requests, s # r PROVE RecordOf(s)'
    <3>1. RecordOf(s) /\ thread'[s].pc = thread[s].pc /\ thread'[s].want = thread[s].want /\ answer' = answer
      BY <2>1, <2>5 DEF RecordInv, Swapped
    <3> QED
      BY <2>2, <3>1 DEF RecordOf, OpOf, WroteOf, ToldOf, Op, Want
  <2>6. RecordOf(r)'
    <3>1. /\ thread[r].pc = "swap" /\ thread'[r].pc = "push_history"
          /\ thread'[r].want = thread[r].want /\ answer' = answer
      BY <2>1 DEF Swapped
    <3> QED
      BY <2>2, <2>3, <3>1 DEF RecordOf, OpOf, WroteOf, ToldOf, Op, Want, After
  <2> QED
    BY <2>1, <2>4, <2>5, <2>6 DEF RecordInv, Swapped
<1>3. ASSUME NEW adopting, Restart(adopting) PROVE RecordInv'
  <2>1. Restarted
    BY <1>3, Restarts
  <2>2. ASSUME NEW s \in Requests PROVE RecordOf(s)'
    <3>1. /\ RecordOf(s) /\ thread'[s].want = thread[s].want /\ answer' = answer
          /\ thread'[s].pc = IF thread[s].pc = "waiting" THEN "waiting" ELSE "done"
          /\ \A K : FramesBy(s, K)' = FramesBy(s, K)
      BY <2>1 DEF RecordInv, Restarted
    <3> QED
      BY <3>1 DEF RecordOf, OpOf, WroteOf, ToldOf, Op, Want, After
  <2> QED
    BY <2>1, <2>2 DEF RecordInv, Restarted
<1> QED
  BY <1>1, <1>2, <1>3 DEF Next, Step

-----------------------------------------------------------------------------
(* Version numbers. *)

\* What a step does to the numbers: nothing, take the next one, or give up a claim.
Keeps(r) ==
  next_version' = next_version /\ (Claims(r)' => Claims(r) /\ thread'[r].version = thread[r].version)
Takes(r) == next_version' = next_version + 1 /\ thread'[r].version = next_version
Frees(r) == next_version' = Released(thread[r].version) /\ Claims(r) /\ ~Claims(r)'

\* Every step of a request is one of the three.
LEMMA NumberSteps ==
  ASSUME ShapeInv, NEW r \in Requests, Step(r), ~Swap(r), OpOf(r)
  PROVE  Keeps(r) \/ Takes(r) \/ Frees(r)
<1>s. DOMAIN thread[r] = {"pc", "want", "roles", "seen", "version", "text", "was", "id", "since"}
      /\ r \in DOMAIN thread /\ thread'[r].want = thread[r].want
  BY Alone DEF ShapeInv, Fields, Requests, Still
<1>o. /\ thread[r].pc = "record_publish" => Op(r) = "publish"
      /\ thread[r].pc = "record_rollback" => Op(r) = "rollback"
      /\ thread[r].pc = "record_anonymous" => Op(r) = "anonymous"
  BY DEF OpOf
<1> USE DEF Keeps, Takes, Frees, Claims, Op, Want, At, Goto, Finish, Silent, memory
<1>1. CASE \E seen \in {Star, Etag(config)} : Arrive(r, seen)
  <2>1. next_version' = next_version /\ thread'[r].pc \in {"resolve", "authenticate"}
    BY <1>1, <1>s DEF Arrive
  <2> QED
    BY <2>1
<1>2. CASE Validate(r)
  BY <1>2, <1>s, <1>o DEF Validate
<1>3. CASE CurrentRoles(r)
  BY <1>3, <1>s, <1>o DEF CurrentRoles
<1>4. CASE RefreshRoles(r)
  BY <1>4, <1>s, <1>o DEF RefreshRoles
<1>5. CASE ResolveIdentity(r)
  BY <1>5, <1>s, <1>o DEF ResolveIdentity
<1>6. CASE Issue(r)
  BY <1>6, <1>s, <1>o DEF Issue
<1>7. CASE \E op \in {"publish", "rollback", "draft", "edit", "validate", "anonymous"} : Refuse(r, op)
  BY <1>7, <1>s, <1>o DEF Refuse
<1>8. CASE Logout(r)
  BY <1>8, <1>s, <1>o DEF Logout
<1>9. CASE CreateDraft(r)
  BY <1>9, <1>s, <1>o DEF CreateDraft
<1>10. CASE RecordDraft(r)
  BY <1>10, <1>s, <1>o DEF RecordDraft
<1>11. CASE AuditDraft(r)
  BY <1>11, <1>s, <1>o DEF AuditDraft
<1>12. CASE ValidateDraft(r)
  BY <1>12, <1>s, <1>o DEF ValidateDraft
<1>13. CASE AuditValidation(r)
  BY <1>13, <1>s, <1>o DEF AuditValidation
<1>14. CASE ComparePublish(r)
  BY <1>14, <1>s, <1>o DEF ComparePublish
<1>15. CASE LoadVersion(r)
  BY <1>15, <1>s, <1>o DEF LoadVersion
<1>16. CASE PreparePublish(r)
  BY <1>16, <1>s, <1>o DEF PreparePublish
<1>17. CASE ClaimVersion(r)
  BY <1>17, <1>s, <1>o DEF ClaimVersion
<1>18. CASE AuditPublish(r)
  BY <1>18, <1>s, <1>o DEF AuditPublish
<1>19. CASE RecordPublish(r)
  BY <1>19, <1>s, <1>o DEF RecordPublish
<1>20. CASE Abandon(r)
  <2>1. /\ thread[r].pc = "abandon" /\ thread'[r].pc = "done"
        /\ next_version' = IF Op(r) = "publish" THEN Released(thread[r].version) ELSE next_version
    BY <1>20, <1>s DEF Abandon
  <2> QED
    BY <2>1
<1>21. CASE CloseDraft(r)
  BY <1>21, <1>s, <1>o DEF CloseDraft
<1>22. CASE CompareRollback(r)
  BY <1>22, <1>s, <1>o DEF CompareRollback
<1>23. CASE PeekPrevious(r)
  BY <1>23, <1>s, <1>o DEF PeekPrevious
<1>24. CASE TakeVersion(r)
  BY <1>24, <1>s, <1>o DEF TakeVersion
<1>25. CASE AuditRollback(r)
  BY <1>25, <1>s, <1>o DEF AuditRollback
<1>26. CASE RecordRollback(r)
  BY <1>26, <1>s, <1>o DEF RecordRollback
<1>27. CASE PushHistory(r)
  BY <1>27, <1>s, <1>o DEF PushHistory
<1>28. CASE CheckAnonymous(r)
  BY <1>28, <1>s, <1>o DEF CheckAnonymous
<1>29. CASE AuditAnonymous(r)
  BY <1>29, <1>s, <1>o DEF AuditAnonymous
<1>30. CASE RecordAnonymous(r)
  BY <1>30, <1>s, <1>o DEF RecordAnonymous
<1>31. CASE Flip(r)
  BY <1>31, <1>s, <1>o DEF Flip
<1> QED
  BY <1>1, <1>2, <1>3, <1>4, <1>5, <1>6, <1>7, <1>8, <1>9, <1>10, <1>11, <1>12, <1>13, <1>14, <1>15,
     <1>16, <1>17, <1>18, <1>19, <1>20, <1>21, <1>22, <1>23, <1>24, <1>25, <1>26, <1>27, <1>28,
     <1>29, <1>30, <1>31 DEF Step

LEMMA VersionStep == ShapeInv /\ RecordInv /\ VersionInv /\ Next => VersionInv'
<1> SUFFICES ASSUME ShapeInv, RecordInv, VersionInv, Next PROVE VersionInv'
  OBVIOUS
<1>n. next_version \in Nat \ {0}
  BY DEF VersionInv
<1>1. ASSUME NEW r \in Requests, Step(r), ~Swap(r) PROVE VersionInv'
  <2>1. Still(r) /\ config' = config /\ ran' = ran
    BY <1>1, Alone, Steady
  <2>2. \A s \in Requests \ {r} : thread'[s] = thread[s] /\ (Claims(s)' <=> Claims(s))
    BY <2>1 DEF Still, Claims, Op, Want
  <2>3. \A s \in Requests : ClaimOf(s)
    BY DEF VersionInv
  <2>4. CASE Keeps(r)
    <3>1. \A s \in Requests : Claims(s)' => Claims(s) /\ thread'[s].version = thread[s].version
      BY <2>2, <2>4 DEF Keeps
    <3>2. ASSUME NEW s \in Requests PROVE ClaimOf(s)'
      BY <2>1, <2>3, <2>4, <3>1 DEF Keeps, ClaimOf, Still
    <3> QED
      BY <2>1, <2>4, <3>2 DEF Keeps, VersionInv, VersionsUnique, Still
  <2>5. CASE Takes(r)
    <3>1. \A s \in Requests \ {r} : Claims(s)' => Claims(s) /\ thread'[s].version = thread[s].version
      BY <2>2
    <3>2. \A c \in ran : c.version \in Nat \ {0} /\ c.version < next_version
      BY DEF VersionInv
    <3>3. ASSUME NEW s \in Requests, s # r PROVE ClaimOf(s)'
      BY <1>n, <2>1, <2>3, <2>5, <3>1, <3>3 DEF Takes, ClaimOf, Still
    <3>4. ClaimOf(r)'
      BY <1>n, <2>1, <2>3, <2>5, <3>1, <3>2 DEF Takes, ClaimOf, Still
    <3> QED
      BY <1>n, <2>1, <2>5, <3>2, <3>3, <3>4 DEF Takes, VersionInv, VersionsUnique, Still
  <2>6. CASE Frees(r)
    <3>1. \A s \in Requests : Claims(s)' => s # r /\ Claims(s) /\ thread'[s].version = thread[s].version
      BY <2>2, <2>6 DEF Frees
    <3>2. /\ \A c \in ran : c.version \in Nat \ {0} /\ c.version < next_version
          /\ \A c \in ran : c.version # thread[r].version
          /\ thread[r].version \in Nat \ {0} /\ thread[r].version < next_version
      BY <2>3, <2>6 DEF VersionInv, Frees, ClaimOf
    <3>3. next_version' = IF next_version = thread[r].version + 1 THEN thread[r].version ELSE next_version
      BY <2>6 DEF Frees, Released
    <3>4. next_version' \in Nat /\ \A c \in ran : c.version < next_version'
      BY <1>n, <3>2, <3>3
    <3>5. ASSUME NEW s \in Requests, Claims(s)'
          PROVE  thread[s].version \in Nat \ {0} /\ thread[s].version < next_version'
      <4>1. Claims(s) /\ s # r /\ Claims(r)
        BY <2>6, <3>1, <3>5 DEF Frees
      <4>2. /\ thread[s].version \in Nat \ {0} /\ thread[s].version < next_version
            /\ thread[s].version # thread[r].version
        BY <2>3, <4>1 DEF ClaimOf
      <4> QED
        BY <1>n, <3>2, <3>3, <4>2
    <3>6. ASSUME NEW s \in Requests PROVE ClaimOf(s)'
      BY <2>1, <2>3, <3>1, <3>5 DEF ClaimOf, Still
    <3> QED
      BY <2>1, <3>2, <3>4, <3>6 DEF VersionInv, VersionsUnique, Still
  <2> QED
    BY <1>1, <2>4, <2>5, <2>6, NumberSteps DEF RecordInv, RecordOf
<1>2. ASSUME NEW r \in Requests, Swap(r) PROVE VersionInv'
  <2>1. Swapped(r)
    BY <1>2, Swaps
  <2>2. Claims(r) /\ ~Claims(r)'
    BY <2>1 DEF Swapped, Claims
  <2>3. \A s \in Requests : /\ thread'[s].version = thread[s].version
                            /\ s # r => (Claims(s)' <=> Claims(s))
    BY <2>1 DEF Swapped, Claims, Op, Want
  <2>4. /\ thread[r].version \in Nat \ {0} /\ thread[r].version < next_version
        /\ \A c \in ran : c.version # thread[r].version
        /\ \A s \in Requests \ {r} : Claims(s) => thread[s].version # thread[r].version
    BY <2>2 DEF VersionInv, ClaimOf
  <2>5. PICK new : new = Activated(r)
    OBVIOUS
  <2>6. new.version = thread[r].version
    BY <2>5 DEF Activated
  <2>7. config' = new /\ ran' = ran \cup {new} /\ next_version' = next_version /\ Requests' = Requests
    BY <2>1, <2>5 DEF Swapped
  <2>8. ASSUME NEW s \in Requests PROVE ClaimOf(s)'
    <3>1. CASE s = r
      BY <2>2, <3>1 DEF ClaimOf
    <3>2. CASE s # r
      <4>1. ClaimOf(s) /\ \A q \in Requests : Claims(q)' => Claims(q)
        BY <2>2, <2>3 DEF VersionInv
      <4> QED
        BY <2>3, <2>4, <2>6, <2>7, <3>2, <4>1 DEF ClaimOf
    <3> QED
      BY <3>1, <3>2
  <2> QED
    BY <2>4, <2>6, <2>7, <2>8 DEF VersionInv, VersionsUnique
<1>3. ASSUME NEW adopting, Restart(adopting) PROVE VersionInv'
  <2>1. Restarted
    BY <1>3, Restarts
  <2>2. \A s \in Requests : ~Claims(s)'
    BY <2>1 DEF Restarted, Claims
  <2> QED
    BY <2>1, <2>2 DEF Restarted, VersionInv, VersionsUnique, ClaimOf
<1> QED
  BY <1>1, <1>2, <1>3 DEF Next, Step

-----------------------------------------------------------------------------
(* Roles. *)

\* The steps before a request has its roles, and all the others.
Enters(r) ==
  \/ \E seen \in {Star, Etag(config)} : Arrive(r, seen)
  \/ Validate(r) \/ CurrentRoles(r) \/ RefreshRoles(r) \/ ResolveIdentity(r)

Proceeds(r) ==
  /\ thread'[r].roles = thread[r].roles /\ thread'[r].since = thread[r].since
  /\ \/ thread'[r].pc = "done"
     \/ thread[r].pc \notin Resolving \cup {"push_history"} /\ thread'[r].pc \notin Resolving

\* Every step of a request but the swap is one or the other.
LEMMA RoleSteps ==
  ASSUME ShapeInv, NEW r \in Requests, Step(r), ~Swap(r)
  PROVE  Enters(r) \/ Proceeds(r)
<1>s. DOMAIN thread[r] = {"pc", "want", "roles", "seen", "version", "text", "was", "id", "since"}
      /\ r \in DOMAIN thread
  BY DEF ShapeInv, Fields, Requests
<1> USE DEF Proceeds, Resolving, At, Goto, Finish
<1>1. CASE \E seen \in {Star, Etag(config)} : Arrive(r, seen)
  BY <1>1 DEF Enters
<1>2. CASE Validate(r)
  BY <1>2 DEF Enters
<1>3. CASE CurrentRoles(r)
  BY <1>3 DEF Enters
<1>4. CASE RefreshRoles(r)
  BY <1>4 DEF Enters
<1>5. CASE ResolveIdentity(r)
  BY <1>5 DEF Enters
<1>6. CASE Issue(r)
  BY <1>6, <1>s DEF Issue
<1>7. CASE \E op \in {"publish", "rollback", "draft", "edit", "validate", "anonymous"} : Refuse(r, op)
  BY <1>7, <1>s DEF Refuse
<1>8. CASE Logout(r)
  BY <1>8, <1>s DEF Logout
<1>9. CASE CreateDraft(r)
  BY <1>9, <1>s DEF CreateDraft
<1>10. CASE RecordDraft(r)
  BY <1>10, <1>s DEF RecordDraft
<1>11. CASE AuditDraft(r)
  BY <1>11, <1>s DEF AuditDraft
<1>12. CASE ValidateDraft(r)
  BY <1>12, <1>s DEF ValidateDraft
<1>13. CASE AuditValidation(r)
  BY <1>13, <1>s DEF AuditValidation
<1>14. CASE ComparePublish(r)
  BY <1>14, <1>s DEF ComparePublish
<1>15. CASE LoadVersion(r)
  BY <1>15, <1>s DEF LoadVersion
<1>16. CASE PreparePublish(r)
  <2>1. /\ thread[r].pc = "prepare"
        /\ \/ Finish(r, "refused")
           \/ \E x : thread' = [thread EXCEPT ![r] = [thread[r] EXCEPT !.pc = "claim_version", !.text = x]]
    BY <1>16 DEF PreparePublish
  <2>2. ASSUME NEW x, thread' = [thread EXCEPT ![r] = [thread[r] EXCEPT !.pc = "claim_version", !.text = x]]
        PROVE  Proceeds(r)
    <3>1. thread'[r] = [thread[r] EXCEPT !.pc = "claim_version", !.text = x]
      BY <1>s, <2>2
    <3> QED
      BY <1>s, <2>1, <3>1
  <2>3. CASE Finish(r, "refused")
    BY <1>s, <2>3
  <2> QED
    BY <2>1, <2>2, <2>3
<1>17. CASE ClaimVersion(r)
  BY <1>17, <1>s DEF ClaimVersion
<1>18. CASE AuditPublish(r)
  BY <1>18, <1>s DEF AuditPublish
<1>19. CASE RecordPublish(r)
  BY <1>19, <1>s DEF RecordPublish
<1>20. CASE Abandon(r)
  BY <1>20, <1>s DEF Abandon
<1>21. CASE CloseDraft(r)
  BY <1>21, <1>s DEF CloseDraft
<1>22. CASE CompareRollback(r)
  <2>1. /\ thread[r].pc = "handle"
        /\ \/ Finish(r, "refused")
           \/ \E x : thread' = [thread EXCEPT ![r] = [thread[r] EXCEPT !.pc = "previous", !.version = x]]
    BY <1>22 DEF CompareRollback
  <2>2. ASSUME NEW x, thread' = [thread EXCEPT ![r] = [thread[r] EXCEPT !.pc = "previous", !.version = x]]
        PROVE  Proceeds(r)
    <3>1. thread'[r] = [thread[r] EXCEPT !.pc = "previous", !.version = x]
      BY <1>s, <2>2
    <3> QED
      BY <1>s, <2>1, <3>1
  <2>3. CASE Finish(r, "refused")
    BY <1>s, <2>3
  <2> QED
    BY <2>1, <2>2, <2>3
<1>23. CASE PeekPrevious(r)
  <2>1. /\ thread[r].pc = "previous"
        /\ \/ Finish(r, "refused")
           \/ \E x : thread' = [thread EXCEPT ![r] = [thread[r] EXCEPT !.pc = "take_version", !.text = x]]
    BY <1>23 DEF PeekPrevious
  <2>2. ASSUME NEW x, thread' = [thread EXCEPT ![r] = [thread[r] EXCEPT !.pc = "take_version", !.text = x]]
        PROVE  Proceeds(r)
    <3>1. thread'[r] = [thread[r] EXCEPT !.pc = "take_version", !.text = x]
      BY <1>s, <2>2
    <3> QED
      BY <1>s, <2>1, <3>1
  <2>3. CASE Finish(r, "refused")
    BY <1>s, <2>3
  <2> QED
    BY <2>1, <2>2, <2>3
<1>24. CASE TakeVersion(r)
  BY <1>24, <1>s DEF TakeVersion
<1>25. CASE AuditRollback(r)
  BY <1>25, <1>s DEF AuditRollback
<1>26. CASE RecordRollback(r)
  BY <1>26, <1>s DEF RecordRollback
<1>27. CASE PushHistory(r)
  BY <1>27, <1>s DEF PushHistory
<1>28. CASE CheckAnonymous(r)
  BY <1>28, <1>s DEF CheckAnonymous
<1>29. CASE AuditAnonymous(r)
  BY <1>29, <1>s DEF AuditAnonymous
<1>30. CASE RecordAnonymous(r)
  BY <1>30, <1>s DEF RecordAnonymous
<1>31. CASE Flip(r)
  BY <1>31, <1>s DEF Flip
<1> QED
  BY <1>1, <1>2, <1>3, <1>4, <1>5, <1>6, <1>7, <1>8, <1>9, <1>10, <1>11, <1>12, <1>13, <1>14, <1>15,
     <1>16, <1>17, <1>18, <1>19, <1>20, <1>21, <1>22, <1>23, <1>24, <1>25, <1>26, <1>27, <1>28,
     <1>29, <1>30, <1>31 DEF Step

\* A session's roles were given by the version that it carries.
LEMMA SessionsStep ==
  ASSUME ShapeInv, RoleInv, NEW r \in Requests, Step(r), ~Swap(r)
  PROVE  SessionsInv'
<1>1. config' = config /\ ran' = ran
  BY Steady
<1>2. CASE sessions' = sessions
  BY <1>1, <1>2 DEF RoleInv, SessionsInv, Given
<1>3. ASSUME NEW c, sessions' = Without(sessions, c) PROVE SessionsInv'
  <2>1. \A d \in DOMAIN sessions' : d \in DOMAIN sessions /\ sessions'[d] = sessions[d]
    BY <1>3 DEF Without
  <2> QED
    BY <1>1, <2>1 DEF RoleInv, SessionsInv, Given
<1>4. CASE Issue(r)
  <2>1. \A d \in DOMAIN sessions' : \/ d \in DOMAIN sessions /\ sessions'[d] = sessions[d]
                                    \/ sessions'[d].version = None
    BY <1>4 DEF Issue
  <2> QED
    BY <1>1, <2>1 DEF RoleInv, SessionsInv, Given
<1>5. CASE RefreshRoles(r) /\ sessions' # sessions
  <2>1. PICK c, s : /\ c = Want(r).caller
                    /\ s = [roles |-> Holds(thread[r].text, c), version |-> thread[r].version]
    OBVIOUS
  <2>2. sessions' = [sessions EXCEPT ![c] = s] /\ thread[r].pc = "refresh"
    BY <1>5, <2>1 DEF RefreshRoles, At
  <2>3. Given(c, s.roles, s.version)
    BY <2>1, <2>2 DEF RoleInv, RoleOf, Given
  <2>4. \A d \in DOMAIN sessions' : \/ d \in DOMAIN sessions /\ sessions'[d] = sessions[d]
                                    \/ d = c /\ sessions'[d] = s
    BY <2>2
  <2> QED
    BY <1>1, <2>3, <2>4 DEF RoleInv, SessionsInv, Given
<1>6. \/ sessions' = sessions \/ (\E c : sessions' = Without(sessions, c)) \/ Issue(r)
      \/ RefreshRoles(r)
  <2> USE DEF memory
  <2>1. CASE CurrentRoles(r) \/ Logout(r)
    BY <2>1 DEF CurrentRoles, Logout
  <2>2. CASE ~(CurrentRoles(r) \/ Logout(r) \/ Issue(r) \/ RefreshRoles(r))
    <3>1. sessions' = sessions
      BY <2>2 DEF Step, Arrive, Validate, ResolveIdentity, Refuse, CreateDraft, RecordDraft, AuditDraft,
         ValidateDraft, AuditValidation, ComparePublish, LoadVersion, PreparePublish, ClaimVersion,
         AuditPublish, RecordPublish, Abandon, CloseDraft, CompareRollback, PeekPrevious, TakeVersion,
         AuditRollback, RecordRollback, PushHistory, CheckAnonymous, AuditAnonymous, RecordAnonymous, Flip
    <3> QED
      BY <3>1
  <2> QED
    BY <2>1, <2>2
<1> QED
  BY <1>2, <1>3, <1>4, <1>5, <1>6

\* Roles are those of a configuration in force since the request arrived.
LEMMA EnterStep ==
  ASSUME ShapeInv, VersionInv, RoleInv, NEW r \in Requests, Enters(r), config' = config, ran' = ran,
         thread'[r].want = thread[r].want
  PROVE  RoleOf(r)'
<1>s. DOMAIN thread[r] = {"pc", "want", "roles", "seen", "version", "text", "was", "id", "since"}
      /\ r \in DOMAIN thread
  BY DEF ShapeInv, Fields, Requests
<1>r. RoleOf(r) /\ config \in ran /\ \A a, b \in ran : a.version = b.version => a = b
  BY DEF RoleInv, VersionInv, VersionsUnique
<1>p. PICK c : c = Want(r).caller /\ c = Want(r)'.caller
  BY DEF Want
<1>d. ASSUME thread'[r].pc = "done" PROVE RoleOf(r)'
  BY <1>d DEF RoleOf, Resolving
<1>f. ASSUME NEW what, Finish(r, what) PROVE RoleOf(r)'
  BY <1>d, <1>f, <1>s DEF Finish, Goto
<1>1. CASE \E seen \in {Star, Etag(config)} : Arrive(r, seen)
  <2>1. thread'[r].pc \in {"resolve", "authenticate"} /\ thread'[r].since = {config.text}
    BY <1>1, <1>s DEF Arrive
  <2> QED
    BY <2>1 DEF RoleOf, Resolving
<1>2. CASE Validate(r) /\ c \in KeyCallers
  <2>1. thread[r].pc = "authenticate" /\ thread'[r].pc = "current_roles" /\ thread'[r].since = thread[r].since
    BY <1>2, <1>p, <1>s DEF Validate, At, Goto
  <2> QED
    BY <1>2, <1>p, <1>r, <2>1 DEF RoleOf, Resolving
<1>3. CASE Validate(r) /\ c \notin KeyCallers /\ c \in DOMAIN sessions
  <2>1. PICK t : t = [thread[r] EXCEPT !.pc = "current_roles", !.roles = sessions[c].roles,
                        !.version = IF sessions[c].version = None THEN 0 ELSE sessions[c].version]
    OBVIOUS
  <2>2. thread' = [thread EXCEPT ![r] = t] /\ thread[r].pc = "authenticate"
    BY <1>3, <1>p, <2>1 DEF Validate, At
  <2>3. /\ t.pc = "current_roles" /\ t.roles = sessions[c].roles /\ t.since = thread[r].since
        /\ t.version = IF sessions[c].version = None THEN 0 ELSE sessions[c].version
    BY <1>s, <2>1
  <2>4. thread'[r] = t
    BY <1>s, <2>2
  <2>5. sessions[c].version # None => Given(c, sessions[c].roles, sessions[c].version)
    BY <1>3 DEF RoleInv, SessionsInv
  <2>6. t.version # 0 => Given(c, t.roles, t.version)
    BY <2>3, <2>5
  <2>7. config.text \in t.since
    BY <1>r, <2>2, <2>3 DEF RoleOf
  <2> QED
    BY <1>p, <2>3, <2>4, <2>6, <2>7 DEF RoleOf, Resolving, Given
<1>4. CASE Validate(r) /\ c \notin KeyCallers /\ c \notin DOMAIN sessions
  BY <1>4, <1>f, <1>p DEF Validate
<1>5. ASSUME thread[r].pc = "current_roles", NEW x, x = Holds(config.text, c),
             thread' = [thread EXCEPT ![r] = [thread[r] EXCEPT !.pc = "handle", !.roles = x]]
      PROVE  RoleOf(r)'
  <2>1. thread'[r].pc = "handle" /\ thread'[r].roles = x /\ thread'[r].since = thread[r].since
    BY <1>5, <1>s
  <2>2. config.text \in thread[r].since
    BY <1>5, <1>r DEF RoleOf
  <2> QED
    BY <1>5, <1>p, <2>1, <2>2 DEF RoleOf, Resolving
<1>6. ASSUME thread[r].pc = "current_roles", c \notin KeyCallers, thread[r].version = config.version,
             Goto(r, "handle")
      PROVE  RoleOf(r)'
  <2>1. thread'[r].pc = "handle" /\ thread'[r].roles = thread[r].roles /\ thread'[r].since = thread[r].since
    BY <1>6, <1>s DEF Goto
  <2>2. config.text \in thread[r].since
    BY <1>6, <1>r DEF RoleOf
  <2>3. Given(c, thread[r].roles, config.version)
    BY <1>6, <1>p, <1>r DEF RoleOf, VersionInv
  <2>4. thread[r].roles = Holds(config.text, c)
    BY <1>r, <2>3 DEF Given
  <2> QED
    BY <1>p, <2>1, <2>2, <2>4 DEF RoleOf, Resolving
<1>7. ASSUME thread[r].pc = "current_roles",
             thread' = [thread EXCEPT ![r] = [thread[r] EXCEPT
                                      !.pc = "refresh", !.text = config.text, !.version = config.version]]
      PROVE  RoleOf(r)'
  <2>1. /\ thread'[r].pc = "refresh" /\ thread'[r].text = config.text /\ thread'[r].version = config.version
        /\ thread'[r].since = thread[r].since
    BY <1>7, <1>s
  <2>2. config.text \in thread[r].since
    BY <1>7, <1>r DEF RoleOf
  <2> QED
    BY <1>r, <2>1, <2>2 DEF RoleOf, Resolving
<1>8. CASE CurrentRoles(r)
  BY <1>8, <1>5, <1>6, <1>7, <1>f, <1>p DEF CurrentRoles, At
<1>9. CASE RefreshRoles(r)
  <2>1. PICK x : x = Holds(thread[r].text, c)
    OBVIOUS
  <2>2. /\ thread[r].pc = "refresh"
        /\ \/ Finish(r, "unauthenticated")
           \/ thread' = [thread EXCEPT ![r] = [thread[r] EXCEPT !.pc = "handle", !.roles = x]]
    BY <1>9, <1>p, <2>1 DEF RefreshRoles, At
  <2>3. CASE thread' = [thread EXCEPT ![r] = [thread[r] EXCEPT !.pc = "handle", !.roles = x]]
    <3>1. thread'[r].pc = "handle" /\ thread'[r].roles = x /\ thread'[r].since = thread[r].since
      BY <2>3, <1>s
    <3>2. config.text \in thread[r].since /\ thread[r].text \in thread[r].since
      BY <2>2, <1>r DEF RoleOf
    <3> QED
      BY <1>p, <2>1, <3>1, <3>2 DEF RoleOf, Resolving
  <2> QED
    BY <1>f, <2>2, <2>3
<1>10. CASE ResolveIdentity(r)
  <2>1. /\ thread[r].pc = "resolve"
        /\ \/ Finish(r, "refused")
           \/ \E x : thread' = [thread EXCEPT ![r] = [thread[r] EXCEPT !.pc = "issue", !.roles = x]]
    BY <1>10 DEF ResolveIdentity, At
  <2>2. ASSUME NEW x, thread' = [thread EXCEPT ![r] = [thread[r] EXCEPT !.pc = "issue", !.roles = x]]
        PROVE  RoleOf(r)'
    <3>1. thread'[r].pc = "issue" /\ thread'[r].since = thread[r].since
      BY <2>2, <1>s
    <3> QED
      BY <1>r, <2>1, <3>1 DEF RoleOf, Resolving
  <2> QED
    BY <1>f, <2>1, <2>2
<1> QED
  BY <1>1, <1>2, <1>3, <1>4, <1>8, <1>9, <1>10 DEF Enters

LEMMA RoleStep == ShapeInv /\ RecordInv /\ VersionInv /\ RoleInv /\ Next => RoleInv'
<1> SUFFICES ASSUME ShapeInv, VersionInv, RoleInv, Next PROVE RoleInv'
  OBVIOUS
<1>1. ASSUME NEW r \in Requests, Step(r), ~Swap(r) PROVE RoleInv'
  <2>1. Still(r) /\ config' = config /\ ran' = ran
    BY <1>1, Alone, Steady
  <2>2. SessionsInv'
    BY <1>1, SessionsStep
  <2>3. ASSUME NEW s \in Requests, s # r PROVE RoleOf(s)'
    <3>1. RoleOf(s) /\ thread'[s] = thread[s]
      BY <2>1, <2>3 DEF RoleInv, Still
    <3> QED
      BY <2>1, <3>1 DEF RoleOf, Given, Want
  <2>4. CASE Enters(r)
    <3>1. RoleOf(r)'
      BY <2>1, <2>4, EnterStep DEF Still
    <3> QED
      BY <2>1, <2>2, <2>3, <3>1 DEF RoleInv, Still
  <2>5. CASE Proceeds(r)
    <3>1. RoleOf(r) /\ thread'[r].want = thread[r].want
      BY <2>1 DEF RoleInv, Still
    <3>2. RoleOf(r)'
      BY <2>1, <2>5, <3>1 DEF Proceeds, RoleOf, Resolving, Want
    <3> QED
      BY <2>1, <2>2, <2>3, <3>2 DEF RoleInv, Still
  <2> QED
    BY <1>1, <2>4, <2>5, RoleSteps
<1>2. ASSUME NEW r \in Requests, Swap(r) PROVE RoleInv'
  <2>1. Swapped(r)
    BY <1>2, Swaps
  <2>2. PICK new : new = Activated(r)
    OBVIOUS
  <2>3. config' = new /\ ran' = ran \cup {new} /\ new.text = thread[r].text
    BY <2>1, <2>2 DEF Swapped, Activated
  <2>4. \A c, roles, v : Given(c, roles, v) => Given(c, roles, v)'
    BY <2>3 DEF Given
  <2>5. SessionsInv'
    BY <2>1, <2>4 DEF RoleInv, SessionsInv, Swapped
  <2>6. ASSUME NEW s \in Requests, s # r PROVE RoleOf(s)'
    <3>1. RoleOf(s)
      BY DEF RoleInv
    <3>2. /\ thread'[s].pc = thread[s].pc /\ thread'[s].roles = thread[s].roles
          /\ thread'[s].version = thread[s].version /\ thread'[s].text = thread[s].text
          /\ thread'[s].want = thread[s].want
          /\ thread'[s].since = IF thread[s].pc \in {"waiting", "done"} THEN thread[s].since
                                ELSE thread[s].since \cup {thread[r].text}
      BY <2>1, <2>6 DEF Swapped
    <3>3. thread'[s].pc \notin {"waiting", "done"} => config'.text \in thread'[s].since
      BY <2>3, <3>2
    <3>4. thread[s].since \subseteq thread'[s].since
      BY <3>2
    <3>5. \A k \in ran : k \in ran'
      BY <2>3
    <3> QED
      BY <2>4, <3>1, <3>2, <3>3, <3>4, <3>5 DEF RoleOf, Want
  <2>7. RoleOf(r)'
    <3>1. /\ RoleOf(r) /\ thread[r].pc = "swap" /\ thread'[r].pc = "push_history"
          /\ thread'[r].roles = thread[r].roles /\ thread'[r].since = thread[r].since
          /\ thread'[r].want = thread[r].want
      BY <2>1 DEF RoleInv, Swapped
    <3> QED
      BY <3>1 DEF RoleOf, Resolving, Want
  <2> QED
    BY <2>1, <2>5, <2>6, <2>7 DEF RoleInv, Swapped
<1>3. ASSUME NEW adopting, Restart(adopting) PROVE RoleInv'
  <2>1. Restarted
    BY <1>3, Restarts
  <2>2. DOMAIN sessions' = {}
    BY <2>1 DEF Restarted
  <2>3. ASSUME NEW s \in Requests PROVE RoleOf(s)'
    <3>1. thread'[s].pc \in {"waiting", "done"}
      BY <2>1 DEF Restarted
    <3> QED
      BY <3>1 DEF RoleOf, Resolving
  <2> QED
    BY <2>1, <2>2, <2>3 DEF RoleInv, SessionsInv, Restarted
<1> QED
  BY <1>1, <1>2, <1>3 DEF Next, Step

-----------------------------------------------------------------------------

\* The log of a scene holds drafts, written by no request.
LEMMA PublicationStart == Init => PublicationInv
<1> SUFFICES ASSUME Init PROVE PublicationInv
  OBVIOUS
<1> DEFINE ds == scene.drafts
<1>1. Len(ds) \in Nat /\ Router \notin DOMAIN scene.requests
  BY SceneAssumption DEF Init
<1>2. /\ log = Written(ds) /\ DOMAIN log = 1 .. 2 * Len(ds)
      /\ \A i \in DOMAIN log : log[i].by = Router /\ log[i].kind \in {"draft", "audit"}
  BY DEF Init, Written, DraftFrame, Audit
<1>3. IsLog(log)
  <2>1. log \in Seq({log[i] : i \in DOMAIN log})
    <3>1. PICK n \in Nat : n = 2 * Len(ds)
      BY <1>1
    <3>2. log = [i \in 1 .. n |-> log[i]]
      BY <1>2, <3>1 DEF Written
    <3> QED
      BY <1>2, <3>1, <3>2
  <2> QED
    BY <2>1 DEF IsLog
<1>4. ShapeInv
  <2>1. DOMAIN thread = DOMAIN scene.requests /\ DOMAIN answer = DOMAIN scene.requests
    BY DEF Init
  <2>2. \A r \in Requests : DOMAIN thread[r] = Fields
    BY DEF Init, Idle, Fields, Requests
  <2> QED
    BY <1>1, <1>3, <2>1, <2>2 DEF ShapeInv, Requests
<1>5. config = [version |-> 1, text |-> File, by |-> Router] /\ ran = {config} /\ next_version = config.version + 1
  <2>1. Activations(log) = {}
    BY <1>2 DEF Activations
  <2> QED
    BY <2>1 DEF Init, resume_activation
<1>6. \A r \in Requests : thread[r].pc = "waiting" /\ answer[r] = "none"
  BY DEF Init, Idle, Requests
<1>7. VersionInv
  BY <1>5, <1>6 DEF VersionInv, VersionsUnique, ClaimOf, Claims
<1>8. RecordInv
  <2>1. \A r \in Requests : \A K : FramesBy(r, K) = {}
    BY <1>2, <1>4 DEF FramesBy, ShapeInv
  <2> QED
    BY <1>5, <1>6, <2>1 DEF RecordInv, RanRecorded, RecordOf, OpOf, WroteOf, ToldOf
<1>9. RoleInv
  <2>1. \A c \in DOMAIN sessions : sessions[c] = [roles |-> Holds(File, c), version |-> 1]
    BY DEF Init
  <2> QED
    BY <1>5, <1>6, <2>1 DEF RoleInv, SessionsInv, Given, RoleOf, Resolving
<1> QED
  BY <1>4, <1>7, <1>8, <1>9 DEF PublicationInv

LEMMA PublicationStep == PublicationInv /\ [Next]_vars => PublicationInv'
<1>1. PublicationInv /\ Next => PublicationInv'
  BY ShapeStep, RecordStep, VersionStep, RoleStep DEF PublicationInv
<1>2. ASSUME PublicationInv, UNCHANGED vars PROVE PublicationInv'
  BY <1>2 DEF vars, PublicationInv, ShapeInv, IsLog, Requests, VersionInv, VersionsUnique, ClaimOf, Claims,
     RecordInv, RanRecorded, RecordOf, OpOf, WroteOf, ToldOf, FramesBy, RoleInv, SessionsInv, RoleOf,
     Given, Op, Want
<1> QED
  BY <1>1, <1>2

\* Publications, roll-backs, failures and restarts in any number and order: a
\* version number never names two configurations of one start, what runs or was
\* confirmed is in the log, and what was refused is not (publish_draft, rollback).
THEOREM PublishedOnRecord == Spec => []NumberedAndRecorded
<1>1. PublicationInv => NumberedAndRecorded
  BY DEF PublicationInv, VersionInv, RecordInv, RanRecorded, RecordOf, ToldOf, Lasting, NumberedAndRecorded,
     RecordedFirst
<1> QED
  BY <1>1, PublicationStart, PublicationStep, PTL DEF Spec

\* A request under way never acts on roles that no configuration in force since
\* it arrived gives its caller, whoever publishes while it runs (current_roles).
THEOREM RolesAreCurrent == Spec => []ActsOnCurrentRoles
<1>1. PublicationInv => ActsOnCurrentRoles
  BY DEF PublicationInv, RoleInv, RoleOf, Resolving, ActsOnCurrentRoles, May, Want
<1> QED
  BY <1>1, PublicationStart, PublicationStep, PTL DEF Spec

-----------------------------------------------------------------------------
(* The API keys: what a restart makes of the log. *)

\* A set of numbers that is not empty has a least one.
LEMMA LeastNat ==
  ASSUME NEW T \in SUBSET Nat, T # {}
  PROVE  \E n \in T : \A m \in T : n <= m
<1> DEFINE R == {x \in Nat \X Nat : x[1] < x[2]}
<1>1. IsWellFoundedOn(R, Nat)
  <2>1. IsWellFoundedOn(OpToRel(<, Nat), Nat)
    BY NatLessThanWellFounded
  <2> QED
    BY <2>1 DEF OpToRel, IsWellFoundedOn
<1>2. PICK n \in T : \A m \in T : ~(<<m, n>> \in R)
  <2> HIDE DEF R
  <2> QED
    BY <1>1, WFMin
<1>3. ASSUME NEW m \in T PROVE n <= m
  <2>1. <<m, n>> \in Nat \X Nat /\ <<m, n>> \notin R /\ m \in Nat /\ n \in Nat
    BY <1>2
  <2>2. <<m, n>>[1] = m /\ <<m, n>>[2] = n
    OBVIOUS
  <2>3. ~(m < n)
    BY <2>1, <2>2
  <2> HIDE DEF R
  <2> QED
    BY <2>1, <2>3
<1> QED
  BY <1>3

\* Induction: a set of numbers with 0 and the successor of each is all of them.
LEMMA NatInd ==
  ASSUME NEW P \in SUBSET Nat, 0 \in P, \A n \in P : n + 1 \in P
  PROVE  P = Nat
<1> SUFFICES ASSUME Nat \ P # {} PROVE FALSE
  OBVIOUS
<1>1. PICK n \in Nat \ P : \A m \in Nat \ P : n <= m
  BY LeastNat
<1>2. n # 0 /\ n - 1 \in Nat
  BY <1>1
<1>3. n - 1 \in P
  BY <1>1, <1>2
<1> QED
  BY <1>1, <1>2, <1>3

Nothing == [keys |-> <<>>, pending |-> <<>>]

\* The states of a replay, one after each frame.
Course(l, c) ==
  c = [n \in 0 .. Len(l) |-> IF n = 0 THEN Nothing ELSE Replayed(c[n - 1], l[n])]

\* The last of them.
Rebuilt(l) == (CHOOSE c : Course(l, c))[Len(l)]

LEMMA RestoreIsRebuilt ==
  ASSUME NEW l
  PROVE  restore_keys(l) = Rebuilt(l).keys
BY DEF restore_keys, Rebuilt, Course, Nothing

\* Two replays agree as far as the logs do.
LEMMA CoursesAgree ==
  ASSUME NEW l, NEW k, NEW c, NEW d, Len(l) \in Nat, Len(k) \in Nat, Len(l) <= Len(k),
         \A i \in 1 .. Len(l) : l[i] = k[i], Course(l, c), Course(k, d)
  PROVE  \A n \in 0 .. Len(l) : c[n] = d[n]
<1> DEFINE P == {n \in Nat : n <= Len(l) => c[n] = d[n]}
<1>1. \A n \in 0 .. Len(l) : c[n] = IF n = 0 THEN Nothing ELSE Replayed(c[n - 1], l[n])
  BY DEF Course
<1>2. \A n \in 0 .. Len(k) : d[n] = IF n = 0 THEN Nothing ELSE Replayed(d[n - 1], k[n])
  BY DEF Course
<1>3. 0 \in P
  BY <1>1, <1>2
<1>4. ASSUME NEW n \in P PROVE n + 1 \in P
  <2> SUFFICES ASSUME n + 1 <= Len(l) PROVE c[n + 1] = d[n + 1]
    OBVIOUS
  <2>1. c[n] = d[n] /\ n \in Nat /\ (n + 1) - 1 = n /\ n + 1 # 0
    BY <1>4
  <2>2. n + 1 \in 0 .. Len(l) /\ n + 1 \in 0 .. Len(k) /\ n + 1 \in 1 .. Len(l)
    BY <2>1
  <2>3. c[n + 1] = Replayed(c[n], l[n + 1])
    BY <1>1, <2>1, <2>2
  <2>4. d[n + 1] = Replayed(d[n], k[n + 1])
    BY <1>2, <2>1, <2>2
  <2> QED
    BY <2>1, <2>2, <2>3, <2>4
<1>5. P = Nat
  <2> HIDE DEF P
  <2>1. P \in SUBSET Nat
    BY DEF P
  <2> QED
    BY <1>3, <1>4, <2>1, NatInd
<1> QED
  BY <1>5

\* A log that has a replay has one.
LEMMA RebuiltIs ==
  ASSUME NEW l, Len(l) \in Nat, NEW c, Course(l, c)
  PROVE  Rebuilt(l) = c[Len(l)]
<1> DEFINE d == CHOOSE d : Course(l, d)
<1>1. Course(l, d)
  OBVIOUS
<1> HIDE DEF d
<1>2. \A n \in 0 .. Len(l) : c[n] = d[n]
  BY <1>1, CoursesAgree
<1> QED
  BY <1>2 DEF Rebuilt, d

\* One more frame is one more step of the replay.
LEMMA RebuiltAppend ==
  ASSUME NEW S, NEW l \in Seq(S), NEW f \in S, NEW c, Course(l, c)
  PROVE  /\ \E d : Course(Append(l, f), d)
         /\ Rebuilt(Append(l, f)) = Replayed(Rebuilt(l), f)
<1> DEFINE k == Append(l, f)
           m == Len(l)
           d == [n \in 0 .. Len(k) |-> IF n = m + 1 THEN Replayed(c[m], f) ELSE c[n]]
<1>0. m \in Nat /\ Len(k) = m + 1 /\ k[m + 1] = f /\ \A i \in 1 .. m : k[i] = l[i]
  OBVIOUS
<1>1. \A n \in 0 .. m : c[n] = IF n = 0 THEN Nothing ELSE Replayed(c[n - 1], l[n])
  BY DEF Course
<1>2. d[m] = c[m] /\ d[m + 1] = Replayed(c[m], f) /\ \A n \in 0 .. m : d[n] = c[n]
  BY <1>0
<1>3. DOMAIN d = 0 .. Len(k) /\ d = [n \in 0 .. Len(k) |-> d[n]]
  OBVIOUS
<1> HIDE DEF d, k, m
<1>4. ASSUME NEW n \in 0 .. Len(k) PROVE d[n] = IF n = 0 THEN Nothing ELSE Replayed(d[n - 1], k[n])
  <2>1. CASE n = m + 1
    <3>1. n # 0 /\ n - 1 = m
      BY <1>0, <2>1
    <3> QED
      BY <1>0, <1>2, <2>1, <3>1
  <2>2. CASE n # m + 1 /\ n # 0
    <3>1. n \in 1 .. m /\ n \in 0 .. m /\ n - 1 \in 0 .. m
      BY <1>0, <2>2
    <3>2. d[n] = c[n] /\ d[n - 1] = c[n - 1] /\ k[n] = l[n]
      BY <1>0, <1>2, <3>1
    <3>3. c[n] = Replayed(c[n - 1], l[n])
      BY <1>1, <2>2, <3>1
    <3> QED
      BY <2>2, <3>2, <3>3
  <2>3. CASE n = 0
    <3>1. 0 \in 0 .. m
      BY <1>0
    <3> QED
      BY <1>1, <1>2, <2>3, <3>1
  <2> QED
    BY <2>1, <2>2, <2>3
<1>5. Course(k, d)
  <2>1. [n \in 0 .. Len(k) |-> d[n]] = [n \in 0 .. Len(k) |-> IF n = 0 THEN Nothing ELSE Replayed(d[n - 1], k[n])]
    BY <1>4
  <2> QED
    BY <1>3, <2>1 DEF Course
<1>6. Rebuilt(k) = d[m + 1]
  BY <1>0, <1>5, RebuiltIs
<1>7. Rebuilt(l) = c[m]
  BY <1>0, RebuiltIs DEF m
<1> QED
  BY <1>2, <1>5, <1>6, <1>7 DEF k


KeyFields == {"revoked", "expires_at", "restrictions"}

\* What a restart at this moment would find: the keys, and the restrictions
\* that wait for one.
Back == Rebuilt(frames)
Coming == Back.pending

Replayable ==
  /\ IsLog(frames) /\ \E c : Course(frames, c)
  /\ Back = [keys |-> Durable, pending |-> Coming]

\* The records and the requests, as far as the steps look into them.
KeyShape ==
  /\ key_scene \in KeyScenes
  /\ DOMAIN change = DOMAIN key_scene.changes /\ DOMAIN told = DOMAIN key_scene.changes
  /\ \A q \in Changes : DOMAIN change[q] = {"pc", "ask", "seen"} /\ Ask(q) = key_scene.changes[q]
  /\ \A k \in DOMAIN keys : DOMAIN keys[k] = KeyFields
  /\ \A k \in DOMAIN Durable : DOMAIN Durable[k] = KeyFields

\* What the log gives a key somebody asked for.
LogAsAsked ==
  /\ \A k \in DOMAIN Durable : k \in DOMAIN asked /\ Durable[k].restrictions \in asked[k]
  /\ \A k \in DOMAIN Coming : k \in DOMAIN asked /\ Coming[k] \in asked[k] /\ k \notin DOMAIN Durable

Funded(k) == \E i \in DOMAIN frames : frames[i].kind = "budget" /\ frames[i].id = k

Creating == {"narrow", "audit_create", "record_budget", "record_restriction", "record_key"}
Revoking == {"record_revocation", "revoke", "audit_revoke"}
Revising == {"compare", "audit_change", "record_change", "apply"}

\* Where a request can be, by what it was asked for.
Stage(q) ==
  /\ change[q].pc \in Creating \cup Revoking \cup Revising \cup {"waiting", "done"}
  /\ change[q].pc \in Creating => Ask(q).op = "create"
  /\ change[q].pc \in Revoking => Ask(q).op = "revoke"
  /\ change[q].pc \in Revising => Ask(q).op \in {"expiry", "restrict"}
  /\ told[q] # "none" => change[q].pc = "done"

\* A key being minted is not in the log before its restriction is on its way
\* and its budget is there; it is there when the caller was told so, and it is
\* revoked when the caller was told that it was not created.
MintInv(q) ==
  Ask(q).op = "create" =>
    /\ change[q].pc \in Creating => Key(q) \in DOMAIN asked /\ Ask(q).restrictions \in asked[Key(q)]
    /\ Key(q) \in DOMAIN Durable => told[q] = "ok"
    /\ Ask(q).budget /\ (change[q].pc \in {"record_restriction", "record_key"} \/ told[q] = "ok") => Funded(Key(q))
    /\ change[q].pc = "record_key" /\ Ask(q).restrictions # Wide => Key(q) \in DOMAIN Coming
    /\ told[q] = "refused" /\ Key(q) \in DOMAIN keys => keys[Key(q)].revoked

ReviseInv(q) ==
  change[q].pc \in {"audit_change", "record_change", "apply"} /\ Ask(q).op = "restrict"
    => Key(q) \in DOMAIN asked /\ Ask(q).restrictions \in asked[Key(q)]

\* A revocation is in the log before it is in memory.
RevokeInv(q) ==
  Ask(q).op = "revoke" /\ Creation(Key(q)) = {} =>
    /\ change[q].pc \in {"revoke", "audit_revoke"} \/ told[q] \in {"ok", "unrecorded"}
         => (Key(q) \in DOMAIN Durable => Durable[Key(q)].revoked)
    /\ change[q].pc = "audit_revoke" \/ told[q] \in {"ok", "unrecorded"}
         => (Key(q) \in DOMAIN keys => keys[Key(q)].revoked)

TaskInv(q) == Stage(q) /\ MintInv(q) /\ ReviseInv(q) /\ RevokeInv(q)

KeyInv == Replayable /\ KeyShape /\ LogAsAsked /\ \A q \in Changes : TaskInv(q)

\* What the invariant says of the requests is what the property says.
LEMMA KeysFromInv ==
  ASSUME KeyInv
  PROVE  KeysAsAsked
<1>1. ASSUME NEW k \in DOMAIN Durable, NEW q \in Creation(k)
      PROVE  told[q] # "refused" /\ (Ask(q).budget => Funded(k))
  BY <1>1 DEF KeyInv, TaskInv, MintInv, Creation
<1>2. ASSUME NEW q \in Changes, Ask(q).op = "create", told[q] = "refused" PROVE Key(q) \notin Usable
  BY <1>2 DEF KeyInv, TaskInv, MintInv, Usable
<1>3. CreatedAsAsked
  BY <1>1, <1>2 DEF CreatedAsAsked, KeyInv, LogAsAsked, Funded
<1>4. RevocationFinal
  BY DEF RevocationFinal, KeyInv, TaskInv, RevokeInv, Usable
<1> QED
  BY <1>3, <1>4 DEF KeysAsAsked

\* A frame more, and what a restart makes of it.
LEMMA FrameWritten ==
  ASSUME Replayable, NEW f, frames' = Append(frames, f)
  PROVE  /\ IsLog(frames') /\ \E c : Course(frames', c)
         /\ Back' = Replayed(Back, f)
         /\ \A k : Funded(k) => Funded(k)'
         /\ \A k : f.kind = "budget" /\ f.id = k => Funded(k)'
<1>1. PICK S : frames \in Seq(S)
  BY DEF Replayable, IsLog
<1> DEFINE T == S \cup {f}
<1>2. frames \in Seq(T) /\ f \in T
  BY <1>1
<1> HIDE DEF T
<1>3. PICK c : Course(frames, c)
  BY DEF Replayable
<1>4. (\E d : Course(frames', d)) /\ Rebuilt(frames') = Replayed(Rebuilt(frames), f)
  BY <1>2, <1>3, RebuiltAppend
<1>5. frames' \in Seq(T) /\ Len(frames) \in Nat /\ DOMAIN frames = 1 .. Len(frames)
      /\ DOMAIN frames' = 1 .. (Len(frames) + 1)
      /\ frames'[Len(frames) + 1] = f /\ \A i \in 1 .. Len(frames) : frames'[i] = frames[i]
  BY <1>2
<1>6. ASSUME NEW k, Funded(k) PROVE Funded(k)'
  <2>1. PICK i \in DOMAIN frames : frames[i].kind = "budget" /\ frames[i].id = k
    BY <1>6 DEF Funded
  <2>2. i \in DOMAIN frames' /\ frames'[i] = frames[i]
    BY <1>5
  <2> QED
    BY <2>1, <2>2 DEF Funded
<1>7. ASSUME NEW k, f.kind = "budget", f.id = k PROVE Funded(k)'
  <2>1. Len(frames) + 1 \in DOMAIN frames'
    BY <1>5
  <2> QED
    BY <1>5, <1>7, <2>1 DEF Funded
<1> QED
  BY <1>4, <1>5, <1>6, <1>7 DEF Back, IsLog

\* No frame more.
LEMMA NothingWritten ==
  ASSUME frames' = frames
  PROVE  /\ Back' = Back /\ Durable' = Durable /\ Coming' = Coming /\ (Replayable => Replayable')
         /\ \A k : Funded(k)' <=> Funded(k)
<1>1. Back' = Back
  BY DEF Back
<1>2. Durable' = Durable
  BY DEF Durable
<1>3. Coming' = Coming
  BY <1>1 DEF Coming
<1> QED
  BY <1>1, <1>2, <1>3 DEF Replayable, Funded

LEMMA DurableIsBack == Durable = Back.keys
BY RestoreIsRebuilt DEF Durable, Back

LEMMA DurableIsBackNext == Durable' = Back'.keys
BY RestoreIsRebuilt DEF Durable, Back


\* Records keep their fields, a revocation stays.
Edited(ks, js) ==
  /\ DOMAIN js = DOMAIN ks
  /\ \A k \in DOMAIN ks : DOMAIN js[k] = KeyFields /\ (ks[k].revoked => js[k].revoked)

Formed(ks) == \A k \in DOMAIN ks : DOMAIN ks[k] = KeyFields

\* What a revocation of a record does.
LEMMA RevokeEdits ==
  ASSUME NEW ks, Formed(ks), NEW k
  PROVE  /\ Edited(ks, Revoked(ks, k))
         /\ k \in DOMAIN ks => Revoked(ks, k)[k].revoked
         /\ \A i \in DOMAIN ks : Revoked(ks, k)[i].restrictions = ks[i].restrictions
<1>1. CASE k \in DOMAIN ks
  <2> DEFINE r == [ks[k] EXCEPT !.revoked = TRUE]
  <2>0. DOMAIN ks[k] = KeyFields
    BY <1>1 DEF Formed
  <2>1. DOMAIN r = KeyFields /\ r.revoked = TRUE /\ r.restrictions = ks[k].restrictions
    BY <2>0 DEF KeyFields
  <2>2. Revoked(ks, k) = [ks EXCEPT ![k] = r]
    BY <1>1 DEF Revoked
  <2> HIDE DEF r
  <2> QED
    BY <1>1, <2>1, <2>2 DEF Edited, Formed
<1>2. CASE k \notin DOMAIN ks
  BY <1>2 DEF Revoked, Edited, Formed
<1> QED
  BY <1>1, <1>2

\* What the other two changes of a record do.
LEMMA Edits ==
  ASSUME NEW ks, Formed(ks), NEW k, NEW x
  PROVE  /\ Edited(ks, Expiring(ks, k, x)) /\ Edited(ks, Narrowed(ks, k, x))
         /\ \A i \in DOMAIN ks : /\ Expiring(ks, k, x)[i].restrictions = ks[i].restrictions
                                 /\ i # k => Narrowed(ks, k, x)[i].restrictions = ks[i].restrictions
                                 /\ i = k => Narrowed(ks, k, x)[i].restrictions = x
<1>1. CASE k \in DOMAIN ks
  <2> DEFINE e == [ks[k] EXCEPT !.expires_at = x]
             n == [ks[k] EXCEPT !.restrictions = x]
  <2>0. DOMAIN ks[k] = KeyFields
    BY <1>1 DEF Formed
  <2>1. DOMAIN e = KeyFields /\ e.revoked = ks[k].revoked /\ e.restrictions = ks[k].restrictions
    BY <2>0 DEF KeyFields
  <2>2. DOMAIN n = KeyFields /\ n.revoked = ks[k].revoked /\ n.restrictions = x
    BY <2>0 DEF KeyFields
  <2>3. Expiring(ks, k, x) = [ks EXCEPT ![k] = e] /\ Narrowed(ks, k, x) = [ks EXCEPT ![k] = n]
    BY <1>1 DEF Expiring, Narrowed
  <2> HIDE DEF e, n
  <2> QED
    BY <1>1, <2>1, <2>2, <2>3 DEF Edited, Formed
<1>2. CASE k \notin DOMAIN ks
  BY <1>2 DEF Expiring, Narrowed, Edited, Formed
<1> QED
  BY <1>1, <1>2

\* What is so of a map with one entry more, and with one less.
LEMMA WithLess ==
  ASSUME NEW m, NEW k, NEW x
  PROVE  /\ DOMAIN With(m, k, x) = DOMAIN m \cup {k} /\ With(m, k, x)[k] = x
         /\ \A i \in DOMAIN m : i # k => With(m, k, x)[i] = m[i]
         /\ DOMAIN Less(m, k) = DOMAIN m \ {k} /\ \A i \in DOMAIN m : i # k => Less(m, k)[i] = m[i]
BY DEF With, Less

\* What a frame of each kind does to what a restart finds.
LEMMA BudgetWritten ==
  ASSUME Replayable, NEW q, NEW k, frames' = Append(frames, BudgetFrame(q, k))
  PROVE  Replayable' /\ Durable' = Durable /\ Coming' = Coming
<1>1. /\ IsLog(frames') /\ (\E c : Course(frames', c)) /\ Back' = Replayed(Back, BudgetFrame(q, k))
  BY FrameWritten
<1>2. Back' = Back
  BY <1>1 DEF Replayed, BudgetFrame
<1>3. Durable' = Durable /\ Coming' = Coming
  BY <1>2, DurableIsBack, DurableIsBackNext DEF Coming
<1> QED
  BY <1>1, <1>2, <1>3 DEF Replayable

LEMMA RevocationWritten ==
  ASSUME Replayable, NEW q, NEW k, frames' = Append(frames, Revocation(q, k))
  PROVE  Replayable' /\ Durable' = Revoked(Durable, k) /\ Coming' = Coming
<1>1. /\ IsLog(frames') /\ (\E c : Course(frames', c)) /\ Back' = Replayed(Back, Revocation(q, k))
  BY FrameWritten
<1>2. Back = [keys |-> Durable, pending |-> Coming]
  BY DEF Replayable
<1>3. Back' = [Back EXCEPT !.keys = Revoked(Back.keys, k)]
  BY <1>1 DEF Replayed, Revocation
<1>4. Back' = [keys |-> Revoked(Durable, k), pending |-> Coming]
  BY <1>2, <1>3
<1>5. Durable' = Revoked(Durable, k) /\ Coming' = Coming
  BY <1>4, DurableIsBackNext DEF Coming
<1> QED
  BY <1>1, <1>4, <1>5 DEF Replayable

LEMMA ExpiryWritten ==
  ASSUME Replayable, NEW q, NEW k, NEW x, frames' = Append(frames, ExpiryChange(q, k, x))
  PROVE  Replayable' /\ Durable' = Expiring(Durable, k, x) /\ Coming' = Coming
<1>1. /\ IsLog(frames') /\ (\E c : Course(frames', c)) /\ Back' = Replayed(Back, ExpiryChange(q, k, x))
  BY FrameWritten
<1>2. Back = [keys |-> Durable, pending |-> Coming]
  BY DEF Replayable
<1>3. Back' = [Back EXCEPT !.keys = Expiring(Back.keys, k, x)]
  BY <1>1 DEF Replayed, ExpiryChange
<1>4. Back' = [keys |-> Expiring(Durable, k, x), pending |-> Coming]
  BY <1>2, <1>3
<1>5. Durable' = Expiring(Durable, k, x) /\ Coming' = Coming
  BY <1>4, DurableIsBackNext DEF Coming
<1> QED
  BY <1>1, <1>4, <1>5 DEF Replayable

\* A restriction for a key the log does not have yet waits for it.
LEMMA RestrictionWritten ==
  ASSUME Replayable, NEW q, NEW k, NEW x, frames' = Append(frames, RestrictionChange(q, k, x))
  PROVE  /\ Replayable'
         /\ k \in DOMAIN Durable => Durable' = Narrowed(Durable, k, x) /\ Coming' = Coming
         /\ k \notin DOMAIN Durable => Durable' = Durable /\ Coming' = With(Coming, k, x)
<1>1. /\ IsLog(frames') /\ (\E c : Course(frames', c)) /\ Back' = Replayed(Back, RestrictionChange(q, k, x))
  BY FrameWritten
<1>2. Back = [keys |-> Durable, pending |-> Coming]
  BY DEF Replayable
<1>3. Back' = IF k \in DOMAIN Back.keys THEN [Back EXCEPT !.keys = Narrowed(Back.keys, k, x)]
              ELSE [Back EXCEPT !.pending = With(Back.pending, k, x)]
  BY <1>1 DEF Replayed, RestrictionChange
<1>4. Back' = IF k \in DOMAIN Durable THEN [keys |-> Narrowed(Durable, k, x), pending |-> Coming]
              ELSE [keys |-> Durable, pending |-> With(Coming, k, x)]
  BY <1>2, <1>3
<1>5. /\ k \in DOMAIN Durable => Durable' = Narrowed(Durable, k, x) /\ Coming' = Coming
      /\ k \notin DOMAIN Durable => Durable' = Durable /\ Coming' = With(Coming, k, x)
  BY <1>4, DurableIsBackNext DEF Coming
<1> QED
  BY <1>1, <1>4, <1>5 DEF Replayable

\* A key takes the restriction that waits for it.
LEMMA KeyWritten ==
  ASSUME Replayable, NEW q, NEW k, NEW x, frames' = Append(frames, KeyFrame(q, k, KeyRecord(x)))
  PROVE  /\ Replayable' /\ Coming' = Less(Coming, k)
         /\ \E r : /\ Durable' = With(Durable, k, r) /\ DOMAIN r = KeyFields
                   /\ k \in DOMAIN Coming => r.restrictions = Coming[k]
                   /\ k \notin DOMAIN Coming => r.restrictions = Wide
<1> DEFINE r == IF k \in DOMAIN Coming THEN [KeyRecord(x) EXCEPT !.restrictions = Coming[k]] ELSE KeyRecord(x)
<1>1. /\ IsLog(frames') /\ (\E c : Course(frames', c)) /\ Back' = Replayed(Back, KeyFrame(q, k, KeyRecord(x)))
  BY FrameWritten
<1>2. Back = [keys |-> Durable, pending |-> Coming]
  BY DEF Replayable
<1>3. Back' = [keys |-> With(Back.keys, k, IF k \in DOMAIN Back.pending
                                           THEN [KeyRecord(x) EXCEPT !.restrictions = Back.pending[k]]
                                           ELSE KeyRecord(x)),
               pending |-> Less(Back.pending, k)]
  BY <1>1 DEF Replayed, KeyFrame
<1>4. Back' = [keys |-> With(Durable, k, r), pending |-> Less(Coming, k)]
  BY <1>2, <1>3
<1>5. Durable' = With(Durable, k, r) /\ Coming' = Less(Coming, k)
  BY <1>4, DurableIsBackNext DEF Coming
<1>6. /\ DOMAIN r = KeyFields
      /\ k \in DOMAIN Coming => r.restrictions = Coming[k]
      /\ k \notin DOMAIN Coming => r.restrictions = Wide
  BY DEF KeyRecord, KeyFields
<1> HIDE DEF r
<1> QED
  BY <1>1, <1>4, <1>5, <1>6 DEF Replayable


-----------------------------------------------------------------------------
(* One request's step on the keys. *)

\* The request moves to pc, the others stay where they are.
Goes(q, pc) ==
  /\ DOMAIN change' = DOMAIN change /\ DOMAIN told' = DOMAIN told /\ key_scene' = key_scene
  /\ \A p \in Changes \ {q} : change'[p] = change[p] /\ told'[p] = told[p]
  /\ DOMAIN change'[q] = {"pc", "ask", "seen"} /\ change'[q].ask = change[q].ask /\ change'[q].pc = pc

\* What a step of q leaves of the keys it does not mint.
Mild(q) ==
  /\ \A k \in DOMAIN asked : k \in DOMAIN asked' /\ asked[k] \subseteq asked'[k]
  /\ \A k : Funded(k) => Funded(k)'
  /\ \A k : \/ Ask(q).op = "create" /\ Key(q) = k
            \/ /\ k \in DOMAIN Durable' => k \in DOMAIN Durable /\ (Durable[k].revoked => Durable'[k].revoked)
               /\ k \in DOMAIN keys' => k \in DOMAIN keys /\ (keys[k].revoked => keys'[k].revoked)
               /\ k \in DOMAIN Coming => k \in DOMAIN Coming'

\* Where a step may take a request, the answer it may give.
LEMMA Moves ==
  ASSUME KeyShape, NEW q \in Changes, NEW pc, key_scene' = key_scene
  PROVE  /\ Move(q, pc) /\ Quiet => Goes(q, pc) /\ told'[q] = told[q]
         /\ \A what : Tell(q, what) => Goes(q, "done") /\ told'[q] = what
<1>1. q \in DOMAIN change /\ q \in DOMAIN told /\ DOMAIN change[q] = {"pc", "ask", "seen"}
  BY DEF KeyShape, Changes
<1>2. ASSUME NEW to, Move(q, to)
      PROVE  /\ DOMAIN change' = DOMAIN change /\ \A p \in Changes \ {q} : change'[p] = change[p]
             /\ DOMAIN change'[q] = {"pc", "ask", "seen"} /\ change'[q].ask = change[q].ask /\ change'[q].pc = to
  <2> DEFINE c == [change[q] EXCEPT !.pc = to]
  <2>1. change' = [change EXCEPT ![q] = c]
    BY <1>2 DEF Move
  <2>2. DOMAIN c = {"pc", "ask", "seen"} /\ c.ask = change[q].ask /\ c.pc = to
    BY <1>1
  <2> HIDE DEF c
  <2> QED
    BY <1>1, <2>1, <2>2 DEF Changes
<1>3. ASSUME Move(q, pc), Quiet PROVE Goes(q, pc) /\ told'[q] = told[q]
  BY <1>2, <1>3 DEF Goes, Quiet
<1>4. ASSUME NEW what, Tell(q, what) PROVE Goes(q, "done") /\ told'[q] = what
  <2>1. Move(q, "done") /\ told' = [told EXCEPT ![q] = what]
    BY <1>4 DEF Tell
  <2>2. DOMAIN told' = DOMAIN told /\ told'[q] = what /\ \A p \in Changes \ {q} : told'[p] = told[p]
    BY <1>1, <2>1 DEF KeyShape, Changes
  <2> QED
    BY <1>2, <2>1, <2>2 DEF Goes
<1> QED
  BY <1>3, <1>4

\* What a request was asked for never changes.
LEMMA AskKept ==
  ASSUME KeyShape, NEW q \in Changes, NEW pc, Goes(q, pc)
  PROVE  /\ Changes' = Changes
         /\ \A p \in Changes : Ask(p)' = Ask(p) /\ Key(p)' = Key(p)
         /\ \A k : Creation(k)' = Creation(k)
         /\ change'[q].pc = pc
<1>1. Changes' = Changes
  BY DEF Changes, Goes
<1>2. ASSUME NEW p \in Changes PROVE Ask(p)' = Ask(p)
  <2>1. CASE p = q
    BY <2>1 DEF Goes, Ask
  <2>2. CASE p # q
    BY <2>2 DEF Goes, Ask
  <2> QED
    BY <2>1, <2>2
<1>3. \A p \in Changes : Key(p)' = Key(p)
  BY <1>2 DEF Key
<1>4. ASSUME NEW k PROVE Creation(k)' = Creation(k)
  BY <1>1, <1>2, <1>3 DEF Creation
<1> QED
  BY <1>1, <1>2, <1>3, <1>4 DEF Goes

\* Two requests mint two keys.
LEMMA OneMinter ==
  ASSUME KeyShape, NEW p \in Changes, NEW q \in Changes, p # q, Ask(p).op = "create", Ask(q).op = "create"
  PROVE  Key(p) # Key(q)
BY KeyAssumption DEF KeyShape, Changes, Key

\* The step of one request keeps what is so of the others.
LEMMA OthersKept ==
  ASSUME KeyInv, NEW q \in Changes, NEW pc, Goes(q, pc), Mild(q), NEW p \in Changes, p # q
  PROVE  TaskInv(p)'
<1>0. TaskInv(p) /\ KeyShape
  BY DEF KeyInv
<1>1. /\ change'[p] = change[p] /\ told'[p] = told[p] /\ Ask(p)' = Ask(p) /\ Key(p)' = Key(p)
      /\ Creation(Key(p))' = Creation(Key(p))
  BY <1>0, AskKept DEF Goes
<1>2. Stage(p)'
  BY <1>0, <1>1 DEF TaskInv, Stage
<1>3. ReviseInv(p)'
  BY <1>0, <1>1 DEF TaskInv, ReviseInv, Mild
<1>4. MintInv(p)'
  <2> SUFFICES ASSUME Ask(p).op = "create" PROVE MintInv(p)'
    BY <1>1 DEF MintInv
  <2>1. ~(Ask(q).op = "create" /\ Key(q) = Key(p))
    BY <1>0, OneMinter
  <2>2. /\ Key(p) \in DOMAIN Durable' => Key(p) \in DOMAIN Durable
        /\ Key(p) \in DOMAIN keys' => Key(p) \in DOMAIN keys /\ (keys[Key(p)].revoked => keys'[Key(p)].revoked)
        /\ Key(p) \in DOMAIN Coming => Key(p) \in DOMAIN Coming'
    BY <2>1 DEF Mild
  <2>3. /\ Key(p) \in DOMAIN asked => Key(p) \in DOMAIN asked' /\ asked[Key(p)] \subseteq asked'[Key(p)]
        /\ Funded(Key(p)) => Funded(Key(p))'
    BY <1>1 DEF Mild, Funded
  <2>4. MintInv(p)
    BY <1>0 DEF TaskInv
  <2> QED
    BY <1>1, <2>2, <2>3, <2>4 DEF MintInv
<1>5. RevokeInv(p)'
  <2> SUFFICES ASSUME Ask(p).op = "revoke", Creation(Key(p)) = {} PROVE RevokeInv(p)'
    BY <1>1 DEF RevokeInv
  <2>1. ~(Ask(q).op = "create" /\ Key(q) = Key(p))
    BY DEF Creation
  <2>2. /\ Key(p) \in DOMAIN Durable' => Key(p) \in DOMAIN Durable /\ (Durable[Key(p)].revoked => Durable'[Key(p)].revoked)
        /\ Key(p) \in DOMAIN keys' => Key(p) \in DOMAIN keys /\ (keys[Key(p)].revoked => keys'[Key(p)].revoked)
    BY <2>1 DEF Mild
  <2>3. RevokeInv(p)
    BY <1>0 DEF TaskInv
  <2> QED
    BY <1>1, <2>2, <2>3 DEF RevokeInv
<1> QED
  BY <1>2, <1>3, <1>4, <1>5 DEF TaskInv

\* A step keeps the invariant when it keeps the store's part and the request's own.
LEMMA KeyStepKeeps ==
  ASSUME KeyInv, NEW q \in Changes, NEW pc, Goes(q, pc), Mild(q), Replayable', LogAsAsked', TaskInv(q)',
         Formed(keys)', Formed(Durable)'
  PROVE  KeyInv'
<1>0. KeyShape
  BY DEF KeyInv
<1>1. Changes' = Changes /\ \A p \in Changes : Ask(p)' = Ask(p)
  BY <1>0, AskKept
<1>2. ASSUME NEW p \in Changes PROVE DOMAIN change'[p] = {"pc", "ask", "seen"}
  BY <1>0 DEF Goes, KeyShape
<1>3. KeyShape'
  BY <1>0, <1>1, <1>2 DEF KeyShape, Goes, Formed, Changes
<1>4. \A p \in Changes' : TaskInv(p)'
  BY <1>1, OthersKept
<1> QED
  BY <1>3, <1>4 DEF KeyInv


\* The parts of Mild, one store at a time.
AskedGrows == \A k \in DOMAIN asked : k \in DOMAIN asked' /\ asked[k] \subseteq asked'[k]
KeysMild == DOMAIN keys' = DOMAIN keys /\ \A k \in DOMAIN keys : keys[k].revoked => keys'[k].revoked
LogMild ==
  /\ \A k : Funded(k) => Funded(k)'
  /\ DOMAIN Durable' = DOMAIN Durable /\ \A k \in DOMAIN Durable : Durable[k].revoked => Durable'[k].revoked
  /\ \A k \in DOMAIN Coming : k \in DOMAIN Coming'

LEMMA MildParts ==
  ASSUME NEW q, AskedGrows, KeysMild, LogMild
  PROVE  Mild(q)
BY DEF AskedGrows, KeysMild, LogMild, Mild

\* No frame: the log's part of the invariant stays.
LEMMA LogStays ==
  ASSUME KeyInv, frames' = frames, AskedGrows
  PROVE  /\ Replayable' /\ LogAsAsked' /\ Formed(Durable)' /\ LogMild
         /\ Durable' = Durable /\ Coming' = Coming /\ \A k : Funded(k)' <=> Funded(k)
<1>1. /\ Back' = Back /\ Durable' = Durable /\ Coming' = Coming /\ Replayable'
      /\ \A k : Funded(k)' <=> Funded(k)
  BY NothingWritten DEF KeyInv
<1>2. LogAsAsked'
  BY <1>1 DEF KeyInv, LogAsAsked, AskedGrows
<1>3. Formed(Durable)'
  BY <1>1 DEF KeyInv, KeyShape, Formed
<1> QED
  BY <1>1, <1>2, <1>3 DEF LogMild

\* No change in memory, or one record revoked, expiring or narrowed.
LEMMA MemoryStays ==
  ASSUME KeyInv, NEW k, NEW x,
         \/ keys' = keys \/ keys' = Revoked(keys, k) \/ keys' = Expiring(keys, k, x) \/ keys' = Narrowed(keys, k, x)
  PROVE  Formed(keys)' /\ KeysMild
<1>1. Formed(keys)
  BY DEF KeyInv, KeyShape, Formed
<1>2. /\ Edited(keys, Revoked(keys, k)) /\ Edited(keys, Expiring(keys, k, x)) /\ Edited(keys, Narrowed(keys, k, x))
  BY <1>1, Edits, RevokeEdits
<1>3. Edited(keys, keys)
  BY <1>1 DEF Edited, Formed
<1>4. Edited(keys, keys')
  BY <1>2, <1>3
<1> QED
  BY <1>4 DEF Edited, Formed, KeysMild

LEMMA AskedSame ==
  ASSUME asked' = asked
  PROVE  AskedGrows
BY DEF AskedGrows

\* A request that asks for a restriction.
LEMMA AskedMore ==
  ASSUME NEW q, asked' = Asking(q)
  PROVE  AskedGrows /\ Key(q) \in DOMAIN asked' /\ Ask(q).restrictions \in asked'[Key(q)]
<1> DEFINE x == (IF Key(q) \in DOMAIN asked THEN asked[Key(q)] ELSE {}) \cup {Ask(q).restrictions}
<1>1. asked' = With(asked, Key(q), x)
  BY DEF Asking
<1>2. DOMAIN asked' = DOMAIN asked \cup {Key(q)} /\ asked'[Key(q)] = x
      /\ \A i \in DOMAIN asked : i # Key(q) => asked'[i] = asked[i]
  <2> HIDE DEF x
  <2> QED
    BY <1>1 DEF With
<1>3. ASSUME NEW k \in DOMAIN asked PROVE k \in DOMAIN asked' /\ asked[k] \subseteq asked'[k]
  <2>1. CASE k = Key(q)
    BY <1>2, <2>1
  <2>2. CASE k # Key(q)
    BY <1>2, <2>2
  <2> QED
    BY <2>1, <2>2
<1> QED
  BY <1>2, <1>3 DEF AskedGrows

\* The request itself, after a step that leaves the log alone.
LEMMA TaskAfter ==
  ASSUME KeyInv, NEW q \in Changes, NEW pc, Goes(q, pc)
  PROVE  /\ change'[q].pc = pc /\ Ask(q)' = Ask(q) /\ Key(q)' = Key(q)
         /\ Creation(Key(q))' = Creation(Key(q)) /\ Changes' = Changes
         /\ TaskInv(q) /\ KeyShape
BY AskKept DEF KeyInv

\* FindRevoke, ReadKey: the request has looked, nothing changes.
LEMMA LookKeeps ==
  ASSUME KeyInv, NEW q \in Changes, FindRevoke(q) \/ ReadKey(q)
  PROVE  KeyInv'
<1>0. KeyShape /\ change[q].pc = "waiting" /\ frames' = frames /\ asked' = asked /\ keys' = keys /\ told' = told
  BY DEF KeyInv, FindRevoke, ReadKey, Is, Quiet
<1>1. PICK pc : Goes(q, pc) /\ \/ pc = "record_revocation" /\ Ask(q).op = "revoke"
                               \/ pc = "compare" /\ Ask(q).op \in {"expiry", "restrict"}
  <2>1. CASE FindRevoke(q)
    BY <1>0, <2>1, Moves DEF FindRevoke
  <2>2. CASE ReadKey(q)
    <3> DEFINE c == [change[q] EXCEPT !.pc = "compare", !.seen = keys[Key(q)]]
    <3>1. change' = [change EXCEPT ![q] = c] /\ key_scene' = key_scene
      BY <2>2 DEF ReadKey
    <3>2. DOMAIN c = {"pc", "ask", "seen"} /\ c.ask = change[q].ask /\ c.pc = "compare"
      BY <1>0 DEF KeyShape
    <3> HIDE DEF c
    <3>3. Goes(q, "compare")
      BY <1>0, <3>1, <3>2 DEF Goes, Changes
    <3> QED
      BY <2>2, <3>3 DEF ReadKey
  <2> QED
    BY <2>1, <2>2
<1>2. AskedGrows
  BY <1>0, AskedSame
<1>3. /\ Replayable' /\ LogAsAsked' /\ Formed(Durable)' /\ LogMild /\ Durable' = Durable
  BY <1>0, <1>2, LogStays
<1>4. Formed(keys)' /\ KeysMild
  BY <1>0, MemoryStays
<1>5. Mild(q)
  BY <1>2, <1>3, <1>4, MildParts
<1>6. /\ change'[q].pc = pc /\ Ask(q)' = Ask(q) /\ Key(q)' = Key(q)
      /\ Creation(Key(q))' = Creation(Key(q)) /\ TaskInv(q)
  BY <1>1, TaskAfter
<1>7. told[q] = "none"
  BY <1>0, <1>6 DEF TaskInv, Stage
<1>8. TaskInv(q)'
  <2>1. Stage(q)'
    BY <1>0, <1>1, <1>6, <1>7 DEF Stage, Creating, Revoking, Revising
  <2>2. MintInv(q)' /\ ReviseInv(q)'
    BY <1>1, <1>6 DEF MintInv, ReviseInv
  <2>3. RevokeInv(q)'
    BY <1>0, <1>1, <1>6, <1>7 DEF RevokeInv
  <2> QED
    BY <2>1, <2>2, <2>3 DEF TaskInv
<1> QED
  BY <1>1, <1>3, <1>4, <1>5, <1>8, KeyStepKeeps


\* CreateKey: in memory, and somebody asked for it.
LEMMA CreateKeyKeeps ==
  ASSUME KeyInv, NEW q \in Changes, CreateKey(q)
  PROVE  KeyInv'
<1>0. KeyShape /\ change[q].pc = "waiting" /\ Ask(q).op = "create" /\ frames' = frames /\ asked' = Asking(q)
      /\ keys' = With(keys, Key(q), KeyRecord(Ask(q).expires_at))
  BY DEF KeyInv, CreateKey, Is
<1>1. Goes(q, "narrow") /\ told'[q] = told[q]
  BY <1>0, Moves DEF CreateKey
<1>2. AskedGrows /\ Key(q) \in DOMAIN asked' /\ Ask(q).restrictions \in asked'[Key(q)]
  BY <1>0, AskedMore
<1>3. /\ Replayable' /\ LogAsAsked' /\ Formed(Durable)' /\ LogMild /\ Durable' = Durable
  BY <1>0, <1>2, LogStays
<1>4. DOMAIN keys' = DOMAIN keys \cup {Key(q)} /\ keys'[Key(q)] = KeyRecord(Ask(q).expires_at)
      /\ \A k \in DOMAIN keys : k # Key(q) => keys'[k] = keys[k]
  BY <1>0 DEF With
<1>5. Formed(keys)'
  <2>1. DOMAIN KeyRecord(Ask(q).expires_at) = KeyFields
    BY DEF KeyRecord, KeyFields
  <2> QED
    BY <1>0, <1>4, <2>1 DEF Formed, KeyShape
<1>6. Mild(q)
  BY <1>0, <1>2, <1>3, <1>4 DEF Mild, AskedGrows, LogMild
<1>7. /\ change'[q].pc = "narrow" /\ Ask(q)' = Ask(q) /\ Key(q)' = Key(q)
      /\ Creation(Key(q))' = Creation(Key(q)) /\ TaskInv(q)
  BY <1>1, TaskAfter
<1>8. told[q] = "none"
  BY <1>0, <1>7 DEF TaskInv, Stage
<1>9. TaskInv(q)'
  <2>1. Stage(q)'
    BY <1>0, <1>1, <1>7, <1>8 DEF Stage, Creating, Revoking, Revising
  <2>2. MintInv(q)'
    BY <1>0, <1>1, <1>2, <1>3, <1>7, <1>8 DEF TaskInv, MintInv
  <2>3. RevokeInv(q)' /\ ReviseInv(q)'
    BY <1>0, <1>7 DEF RevokeInv, ReviseInv
  <2> QED
    BY <2>1, <2>2, <2>3 DEF TaskInv
<1> QED
  BY <1>1, <1>3, <1>5, <1>6, <1>9, KeyStepKeeps

\* NarrowNewKey: the record in memory takes the restriction.
LEMMA NarrowNewKeyKeeps ==
  ASSUME KeyInv, NEW q \in Changes, NarrowNewKey(q)
  PROVE  KeyInv'
<1>0. KeyShape /\ change[q].pc = "narrow" /\ frames' = frames /\ asked' = asked
      /\ keys' = Narrowed(keys, Key(q), Ask(q).restrictions)
  BY DEF KeyInv, NarrowNewKey, Is
<1>1. Goes(q, "audit_create") /\ told'[q] = told[q]
  BY <1>0, Moves DEF NarrowNewKey
<1>2. AskedGrows
  BY <1>0, AskedSame
<1>3. /\ Replayable' /\ LogAsAsked' /\ Formed(Durable)' /\ LogMild /\ Durable' = Durable
  BY <1>0, <1>2, LogStays
<1>4. Formed(keys)' /\ KeysMild
  BY <1>0, MemoryStays
<1>5. Mild(q)
  BY <1>2, <1>3, <1>4, MildParts
<1>6. /\ change'[q].pc = "audit_create" /\ Ask(q)' = Ask(q) /\ Key(q)' = Key(q)
      /\ Creation(Key(q))' = Creation(Key(q)) /\ TaskInv(q)
  BY <1>1, TaskAfter
<1>7. told[q] = "none" /\ Ask(q).op = "create"
  BY <1>0, <1>6 DEF TaskInv, Stage, Creating
<1>8. TaskInv(q)'
  <2>1. Stage(q)'
    BY <1>0, <1>1, <1>6, <1>7 DEF Stage, Creating, Revoking, Revising
  <2>2. MintInv(q)'
    BY <1>0, <1>1, <1>3, <1>6, <1>7 DEF TaskInv, MintInv, Creating
  <2>3. RevokeInv(q)' /\ ReviseInv(q)'
    BY <1>6, <1>7 DEF RevokeInv, ReviseInv
  <2> QED
    BY <2>1, <2>2, <2>3 DEF TaskInv
<1> QED
  BY <1>1, <1>3, <1>4, <1>5, <1>8, KeyStepKeeps

\* NotCreated: an append failed, and the key is revoked before the answer.
LEMMA NotCreatedKeeps ==
  ASSUME KeyInv, NEW q \in Changes, change[q].pc \in Creating, NotCreated(q), key_scene' = key_scene,
         frames' = frames, asked' = asked
  PROVE  KeyInv'
<1>0. KeyShape /\ keys' = Revoked(keys, Key(q))
  BY DEF KeyInv, NotCreated
<1>1. Goes(q, "done") /\ told'[q] = "refused"
  BY <1>0, Moves DEF NotCreated
<1>2. AskedGrows
  BY AskedSame
<1>3. /\ Replayable' /\ LogAsAsked' /\ Formed(Durable)' /\ LogMild /\ Durable' = Durable
  BY <1>2, LogStays
<1>4. Formed(keys)' /\ KeysMild
  BY <1>0, MemoryStays
<1>5. Mild(q)
  BY <1>2, <1>3, <1>4, MildParts
<1>6. /\ change'[q].pc = "done" /\ Ask(q)' = Ask(q) /\ Key(q)' = Key(q)
      /\ Creation(Key(q))' = Creation(Key(q)) /\ TaskInv(q)
  BY <1>1, TaskAfter
<1>7. told[q] = "none" /\ Ask(q).op = "create"
  BY <1>6 DEF TaskInv, Stage, Creating
<1>8. Key(q) \in DOMAIN keys' => keys'[Key(q)].revoked
  <2>1. Formed(keys)
    BY <1>0 DEF KeyShape, Formed
  <2> QED
    BY <1>0, <1>4, <2>1, RevokeEdits DEF KeysMild
<1>9. TaskInv(q)'
  <2>1. Stage(q)'
    BY <1>6 DEF Stage, Creating, Revoking, Revising
  <2>2. MintInv(q)'
    BY <1>1, <1>3, <1>6, <1>7, <1>8 DEF TaskInv, MintInv, Creating
  <2>3. RevokeInv(q)' /\ ReviseInv(q)'
    BY <1>6, <1>7 DEF RevokeInv, ReviseInv
  <2> QED
    BY <2>1, <2>2, <2>3 DEF TaskInv
<1> QED
  BY <1>1, <1>3, <1>4, <1>5, <1>9, KeyStepKeeps

\* AuditCreate: a record that no restart reads.
LEMMA AuditCreateKeeps ==
  ASSUME KeyInv, NEW q \in Changes, AuditCreate(q)
  PROVE  KeyInv'
<1>0. KeyShape /\ change[q].pc = "audit_create" /\ frames' = frames /\ asked' = asked /\ key_scene' = key_scene
  BY DEF KeyInv, AuditCreate, Is, Audited, WriteFails
<1>1. CASE NotCreated(q)
  BY <1>0, <1>1, NotCreatedKeeps DEF Creating
<1>2. CASE ~NotCreated(q)
  <2> DEFINE pc == IF Ask(q).budget THEN "record_budget"
                   ELSE IF Ask(q).restrictions # Wide THEN "record_restriction" ELSE "record_key"
  <2>0. keys' = keys /\ Move(q, pc) /\ Quiet
    BY <1>2 DEF AuditCreate
  <2>1. /\ pc \in {"record_budget", "record_restriction", "record_key"}
        /\ pc # "record_budget" => ~Ask(q).budget
        /\ pc = "record_key" => Ask(q).restrictions = Wide
    OBVIOUS
  <2> HIDE DEF pc
  <2>2. Goes(q, pc) /\ told'[q] = told[q]
    BY <1>0, <2>0, Moves
  <2>3. AskedGrows
    BY <1>0, AskedSame
  <2>4. /\ Replayable' /\ LogAsAsked' /\ Formed(Durable)' /\ LogMild /\ Durable' = Durable
    BY <1>0, <2>3, LogStays
  <2>5. Formed(keys)' /\ KeysMild
    BY <2>0, MemoryStays
  <2>6. Mild(q)
    BY <2>3, <2>4, <2>5, MildParts
  <2>7. /\ change'[q].pc = pc /\ Ask(q)' = Ask(q) /\ Key(q)' = Key(q)
        /\ Creation(Key(q))' = Creation(Key(q)) /\ TaskInv(q)
    BY <2>2, TaskAfter
  <2>8. told[q] = "none" /\ Ask(q).op = "create"
    BY <1>0, <2>7 DEF TaskInv, Stage, Creating
  <2>9. TaskInv(q)'
    <3>1. Stage(q)'
      BY <2>1, <2>2, <2>7, <2>8 DEF Stage, Creating, Revoking, Revising
    <3>2. MintInv(q)'
      BY <1>0, <2>1, <2>2, <2>4, <2>7, <2>8 DEF TaskInv, MintInv, Creating
    <3>3. RevokeInv(q)' /\ ReviseInv(q)'
      BY <2>1, <2>7, <2>8 DEF RevokeInv, ReviseInv
    <3> QED
      BY <3>1, <3>2, <3>3 DEF TaskInv
  <2> QED
    BY <2>2, <2>4, <2>5, <2>6, <2>9, KeyStepKeeps
<1> QED
  BY <1>1, <1>2

\* RecordBudget: the budget is in the log before the key.
LEMMA RecordBudgetKeeps ==
  ASSUME KeyInv, NEW q \in Changes, RecordBudget(q)
  PROVE  KeyInv'
<1>0. KeyShape /\ change[q].pc = "record_budget" /\ asked' = asked /\ key_scene' = key_scene /\ Replayable
  BY DEF KeyInv, RecordBudget, Is
<1>1. CASE WriteFails /\ NotCreated(q)
  BY <1>0, <1>1, NotCreatedKeeps DEF Creating, WriteFails
<1>2. CASE ~(WriteFails /\ NotCreated(q))
  <2> DEFINE pc == IF Ask(q).restrictions # Wide THEN "record_restriction" ELSE "record_key"
  <2>0. keys' = keys /\ Move(q, pc) /\ Quiet /\ frames' = Append(frames, BudgetFrame(q, Key(q)))
    BY <1>2 DEF RecordBudget, Write_
  <2>1. /\ pc \in {"record_restriction", "record_key"}
        /\ pc = "record_key" => Ask(q).restrictions = Wide
    OBVIOUS
  <2> HIDE DEF pc
  <2>2. Goes(q, pc) /\ told'[q] = told[q]
    BY <1>0, <2>0, Moves
  <2>3. AskedGrows
    BY <1>0, AskedSame
  <2>4. Replayable' /\ Durable' = Durable /\ Coming' = Coming
    BY <1>0, <2>0, BudgetWritten
  <2>5. (\A k : Funded(k) => Funded(k)') /\ \A k : k = Key(q) => Funded(k)'
    BY <1>0, <2>0, FrameWritten DEF BudgetFrame
  <2>6. LogAsAsked' /\ Formed(Durable)' /\ LogMild
    BY <1>0, <2>4, <2>5 DEF KeyInv, KeyShape, LogAsAsked, Formed, LogMild
  <2>7. Formed(keys)' /\ KeysMild
    BY <2>0, MemoryStays
  <2>8. Mild(q)
    BY <2>3, <2>6, <2>7, MildParts
  <2>9. /\ change'[q].pc = pc /\ Ask(q)' = Ask(q) /\ Key(q)' = Key(q)
        /\ Creation(Key(q))' = Creation(Key(q)) /\ TaskInv(q)
    BY <2>2, TaskAfter
  <2>10. told[q] = "none" /\ Ask(q).op = "create"
    BY <1>0, <2>9 DEF TaskInv, Stage, Creating
  <2>11. Funded(Key(q))'
    BY <2>5, <2>9 DEF Funded
  <2>12. TaskInv(q)'
    <3>1. Stage(q)'
      BY <2>1, <2>2, <2>9, <2>10 DEF Stage, Creating, Revoking, Revising
    <3>2. MintInv(q)'
      BY <1>0, <2>1, <2>2, <2>4, <2>9, <2>10, <2>11 DEF TaskInv, MintInv, Creating
    <3>3. RevokeInv(q)' /\ ReviseInv(q)'
      BY <2>1, <2>9, <2>10 DEF RevokeInv, ReviseInv
    <3> QED
      BY <3>1, <3>2, <3>3 DEF TaskInv
  <2> QED
    BY <2>2, <2>4, <2>6, <2>7, <2>8, <2>12, KeyStepKeeps
<1> QED
  BY <1>1, <1>2


\* A restriction somebody asked for is written.
LEMMA RestrictionKept ==
  ASSUME KeyInv, NEW q, NEW k, NEW x, frames' = Append(frames, RestrictionChange(q, k, x)), asked' = asked,
         k \in DOMAIN asked, x \in asked[k]
  PROVE  /\ Replayable' /\ LogAsAsked' /\ Formed(Durable)' /\ LogMild /\ DOMAIN Durable' = DOMAIN Durable
         /\ k \notin DOMAIN Durable => k \in DOMAIN Coming'
<1>0. Replayable /\ LogAsAsked /\ Formed(Durable)
  BY DEF KeyInv, KeyShape, Formed
<1>1. /\ Replayable'
      /\ k \in DOMAIN Durable => Durable' = Narrowed(Durable, k, x) /\ Coming' = Coming
      /\ k \notin DOMAIN Durable => Durable' = Durable /\ Coming' = With(Coming, k, x)
  BY <1>0, RestrictionWritten
<1>2. \A i : Funded(i) => Funded(i)'
  BY <1>0, FrameWritten
<1>3. CASE k \in DOMAIN Durable
  <2>1. Durable' = Narrowed(Durable, k, x) /\ Coming' = Coming
    BY <1>1, <1>3
  <2>2. Edited(Durable, Durable')
        /\ \A i \in DOMAIN Durable : /\ i # k => Durable'[i].restrictions = Durable[i].restrictions
                                     /\ i = k => Durable'[i].restrictions = x
    <3>1. /\ Edited(Durable, Narrowed(Durable, k, x))
          /\ \A i \in DOMAIN Durable : /\ i # k => Narrowed(Durable, k, x)[i].restrictions = Durable[i].restrictions
                                       /\ i = k => Narrowed(Durable, k, x)[i].restrictions = x
      BY <1>0, Edits
    <3> QED
      BY <2>1, <3>1
  <2>3. DOMAIN Durable' = DOMAIN Durable
    BY <2>2 DEF Edited
  <2>4. LogAsAsked'
    <3>1. \A i \in DOMAIN Durable' : i \in DOMAIN asked' /\ Durable'[i].restrictions \in asked'[i]
      BY <1>0, <2>2, <2>3 DEF LogAsAsked
    <3>2. \A i \in DOMAIN Coming' : i \in DOMAIN asked' /\ Coming'[i] \in asked'[i] /\ i \notin DOMAIN Durable'
      BY <1>0, <2>1, <2>3 DEF LogAsAsked
    <3> QED
      BY <3>1, <3>2 DEF LogAsAsked
  <2>5. Formed(Durable)' /\ LogMild
    BY <1>2, <2>1, <2>2, <2>3 DEF Edited, Formed, LogMild
  <2> QED
    BY <1>1, <1>3, <2>3, <2>4, <2>5
<1>4. CASE k \notin DOMAIN Durable
  <2>1. Durable' = Durable /\ Coming' = With(Coming, k, x)
    BY <1>1, <1>4
  <2>2. DOMAIN Coming' = DOMAIN Coming \cup {k} /\ Coming'[k] = x
        /\ \A i \in DOMAIN Coming : i # k => Coming'[i] = Coming[i]
    BY <2>1 DEF With
  <2>3. LogAsAsked'
    BY <1>0, <1>4, <2>1, <2>2 DEF LogAsAsked
  <2>4. Formed(Durable)' /\ LogMild
    BY <1>0, <1>2, <2>1, <2>2 DEF Formed, LogMild
  <2> QED
    BY <1>1, <2>1, <2>2, <2>3, <2>4
<1> QED
  BY <1>3, <1>4

\* RecordRestriction: the restriction is in the log before the key.
LEMMA RecordRestrictionKeeps ==
  ASSUME KeyInv, NEW q \in Changes, RecordRestriction(q)
  PROVE  KeyInv'
<1>0. KeyShape /\ change[q].pc = "record_restriction" /\ asked' = asked /\ key_scene' = key_scene
  BY DEF KeyInv, RecordRestriction, Is
<1>1. CASE WriteFails /\ NotCreated(q)
  BY <1>0, <1>1, NotCreatedKeeps DEF Creating, WriteFails
<1>2. CASE ~(WriteFails /\ NotCreated(q))
  <2>0. keys' = keys /\ Move(q, "record_key") /\ Quiet
        /\ frames' = Append(frames, RestrictionChange(q, Key(q), Ask(q).restrictions))
    BY <1>2 DEF RecordRestriction, Write_
  <2>1. Goes(q, "record_key") /\ told'[q] = told[q]
    BY <1>0, <2>0, Moves
  <2>2. /\ change'[q].pc = "record_key" /\ Ask(q)' = Ask(q) /\ Key(q)' = Key(q)
        /\ Creation(Key(q))' = Creation(Key(q)) /\ TaskInv(q)
    BY <2>1, TaskAfter
  <2>3. told[q] = "none" /\ Ask(q).op = "create"
    BY <1>0, <2>2 DEF TaskInv, Stage, Creating
  <2>4. Key(q) \in DOMAIN asked /\ Ask(q).restrictions \in asked[Key(q)] /\ Key(q) \notin DOMAIN Durable
        /\ (Ask(q).budget => Funded(Key(q)))
    BY <1>0, <2>2, <2>3 DEF TaskInv, MintInv, Creating
  <2>5. /\ Replayable' /\ LogAsAsked' /\ Formed(Durable)' /\ LogMild /\ DOMAIN Durable' = DOMAIN Durable
        /\ Key(q) \in DOMAIN Coming'
    BY <1>0, <2>0, <2>4, RestrictionKept
  <2>6. AskedGrows
    BY <1>0, AskedSame
  <2>7. Formed(keys)' /\ KeysMild
    BY <2>0, MemoryStays
  <2>8. Mild(q)
    BY <2>5, <2>6, <2>7, MildParts
  <2>9. Ask(q).budget => Funded(Key(q))'
    <3>1. \A k : k = Key(q) /\ Funded(k) => Funded(k)'
      BY <2>5 DEF LogMild
    <3> QED
      BY <2>2, <2>4, <3>1 DEF Funded
  <2>10. TaskInv(q)'
    <3>1. Stage(q)'
      BY <2>1, <2>2, <2>3 DEF Stage, Creating, Revoking, Revising
    <3>2. MintInv(q)'
      BY <1>0, <2>1, <2>2, <2>3, <2>4, <2>5, <2>9 DEF MintInv, Creating
    <3>3. RevokeInv(q)' /\ ReviseInv(q)'
      BY <2>2, <2>3 DEF RevokeInv, ReviseInv
    <3> QED
      BY <3>1, <3>2, <3>3 DEF TaskInv
  <2> QED
    BY <2>1, <2>5, <2>7, <2>8, <2>10, KeyStepKeeps
<1> QED
  BY <1>1, <1>2

\* RecordKey: the key is in the log, with its restriction and its budget.
LEMMA RecordKeyKeeps ==
  ASSUME KeyInv, NEW q \in Changes, RecordKey(q)
  PROVE  KeyInv'
<1>0. KeyShape /\ change[q].pc = "record_key" /\ asked' = asked /\ key_scene' = key_scene /\ Replayable
      /\ LogAsAsked /\ Formed(Durable)
  BY DEF KeyInv, KeyShape, Formed, RecordKey, Is
<1>1. CASE WriteFails /\ NotCreated(q)
  BY <1>0, <1>1, NotCreatedKeeps DEF Creating, WriteFails
<1>2. CASE ~(WriteFails /\ NotCreated(q))
  <2>0. keys' = keys /\ Tell(q, "ok")
        /\ frames' = Append(frames, KeyFrame(q, Key(q), KeyRecord(Ask(q).expires_at)))
    BY <1>2 DEF RecordKey, Write_
  <2>1. Goes(q, "done") /\ told'[q] = "ok"
    BY <1>0, <2>0, Moves
  <2>2. /\ change'[q].pc = "done" /\ Ask(q)' = Ask(q) /\ Key(q)' = Key(q)
        /\ Creation(Key(q))' = Creation(Key(q)) /\ TaskInv(q)
    BY <2>1, TaskAfter
  <2>3. told[q] = "none" /\ Ask(q).op = "create"
    BY <1>0, <2>2 DEF TaskInv, Stage, Creating
  <2>4. /\ Key(q) \in DOMAIN asked /\ Ask(q).restrictions \in asked[Key(q)]
        /\ Ask(q).budget => Funded(Key(q))
        /\ Ask(q).restrictions # Wide => Key(q) \in DOMAIN Coming
    BY <1>0, <2>2, <2>3 DEF TaskInv, MintInv, Creating
  <2>5. PICK r : /\ Durable' = With(Durable, Key(q), r) /\ DOMAIN r = KeyFields
                 /\ Key(q) \in DOMAIN Coming => r.restrictions = Coming[Key(q)]
                 /\ Key(q) \notin DOMAIN Coming => r.restrictions = Wide
                 /\ Replayable' /\ Coming' = Less(Coming, Key(q))
    BY <1>0, <2>0, KeyWritten
  <2>6. r.restrictions \in asked[Key(q)]
    BY <1>0, <2>4, <2>5 DEF LogAsAsked
  <2>7. /\ DOMAIN Durable' = DOMAIN Durable \cup {Key(q)} /\ Durable'[Key(q)] = r
        /\ \A k \in DOMAIN Durable : k # Key(q) => Durable'[k] = Durable[k]
        /\ DOMAIN Coming' = DOMAIN Coming \ {Key(q)} /\ \A k \in DOMAIN Coming' : Coming'[k] = Coming[k]
    BY <2>5 DEF With, Less
  <2>8. LogAsAsked'
    BY <1>0, <2>4, <2>6, <2>7 DEF LogAsAsked
  <2>9. Formed(Durable)'
    BY <1>0, <2>5, <2>7 DEF Formed
  <2>10. \A k : Funded(k) => Funded(k)'
    BY <1>0, <2>0, FrameWritten
  <2>11. Formed(keys)' /\ KeysMild
    BY <2>0, MemoryStays
  <2>12. Mild(q)
    BY <1>0, <2>3, <2>7, <2>10, <2>11 DEF Mild, KeysMild
  <2>13. Ask(q).budget => Funded(Key(q))'
    <3>1. \A k : k = Key(q) /\ Funded(k) => Funded(k)'
      BY <2>10
    <3> QED
      BY <2>2, <2>4, <3>1 DEF Funded
  <2>14. TaskInv(q)'
    <3>1. Stage(q)'
      BY <2>1, <2>2, <2>3 DEF Stage, Creating, Revoking, Revising
    <3>2. MintInv(q)'
      BY <2>1, <2>2, <2>13 DEF MintInv, Creating
    <3>3. RevokeInv(q)' /\ ReviseInv(q)'
      BY <2>2, <2>3 DEF RevokeInv, ReviseInv
    <3> QED
      BY <3>1, <3>2, <3>3 DEF TaskInv
  <2> QED
    BY <2>1, <2>5, <2>8, <2>9, <2>11, <2>12, <2>14, KeyStepKeeps
<1> QED
  BY <1>1, <1>2

\* A refusal that changes nothing.
LEMMA RefusalKeeps ==
  ASSUME KeyInv, NEW q \in Changes, change[q].pc \in {"record_revocation"} \cup Revising, Tell(q, "refused"),
         key_scene' = key_scene, keys' = keys, frames' = frames, asked' = asked
  PROVE  KeyInv'
<1>0. KeyShape
  BY DEF KeyInv
<1>1. Goes(q, "done") /\ told'[q] = "refused"
  BY <1>0, Moves
<1>2. AskedGrows
  BY AskedSame
<1>3. /\ Replayable' /\ LogAsAsked' /\ Formed(Durable)' /\ LogMild /\ Durable' = Durable
  BY <1>2, LogStays
<1>4. Formed(keys)' /\ KeysMild
  BY MemoryStays
<1>5. Mild(q)
  BY <1>2, <1>3, <1>4, MildParts
<1>6. /\ change'[q].pc = "done" /\ Ask(q)' = Ask(q) /\ TaskInv(q)
  BY <1>1, TaskAfter
<1>7. Ask(q).op # "create"
  BY <1>6 DEF TaskInv, Stage, Revoking, Revising
<1>8. TaskInv(q)'
  BY <1>1, <1>6, <1>7 DEF TaskInv, Stage, MintInv, ReviseInv, RevokeInv, Creating, Revoking, Revising
<1> QED
  BY <1>1, <1>3, <1>4, <1>5, <1>8, KeyStepKeeps


\* RecordRevocation: in the log before in memory.
LEMMA RecordRevocationKeeps ==
  ASSUME KeyInv, NEW q \in Changes, RecordRevocation(q)
  PROVE  KeyInv'
<1>0. KeyShape /\ change[q].pc = "record_revocation" /\ asked' = asked /\ key_scene' = key_scene /\ keys' = keys
      /\ Replayable /\ LogAsAsked /\ Formed(Durable)
  BY DEF KeyInv, KeyShape, Formed, RecordRevocation, Is
<1>1. CASE WriteFails /\ Tell(q, "refused")
  BY <1>0, <1>1, RefusalKeeps DEF WriteFails
<1>2. CASE ~(WriteFails /\ Tell(q, "refused"))
  <2>0. Move(q, "revoke") /\ Quiet /\ frames' = Append(frames, Revocation(q, Key(q)))
    BY <1>2 DEF RecordRevocation, Write_
  <2>1. Goes(q, "revoke") /\ told'[q] = told[q]
    BY <1>0, <2>0, Moves
  <2>2. Replayable' /\ Durable' = Revoked(Durable, Key(q)) /\ Coming' = Coming
    BY <1>0, <2>0, RevocationWritten
  <2>3. /\ Edited(Durable, Durable')
        /\ Key(q) \in DOMAIN Durable => Durable'[Key(q)].revoked
        /\ \A i \in DOMAIN Durable : Durable'[i].restrictions = Durable[i].restrictions
    <3>1. /\ Edited(Durable, Revoked(Durable, Key(q)))
          /\ Key(q) \in DOMAIN Durable => Revoked(Durable, Key(q))[Key(q)].revoked
          /\ \A i \in DOMAIN Durable : Revoked(Durable, Key(q))[i].restrictions = Durable[i].restrictions
      BY <1>0, RevokeEdits
    <3> QED
      BY <2>2, <3>1
  <2>4. \A k : Funded(k) => Funded(k)'
    BY <1>0, <2>0, FrameWritten
  <2>5. DOMAIN Durable' = DOMAIN Durable
    BY <2>3 DEF Edited
  <2>6. LogAsAsked' /\ Formed(Durable)' /\ LogMild
    BY <1>0, <2>2, <2>3, <2>4, <2>5 DEF LogAsAsked, Formed, LogMild, Edited
  <2>7. AskedGrows
    BY <1>0, AskedSame
  <2>8. Formed(keys)' /\ KeysMild
    BY <1>0, MemoryStays
  <2>9. Mild(q)
    BY <2>6, <2>7, <2>8, MildParts
  <2>10. /\ change'[q].pc = "revoke" /\ Ask(q)' = Ask(q) /\ Key(q)' = Key(q)
         /\ Creation(Key(q))' = Creation(Key(q)) /\ TaskInv(q)
    BY <2>1, TaskAfter
  <2>11. told[q] = "none" /\ Ask(q).op = "revoke"
    BY <1>0, <2>10 DEF TaskInv, Stage, Revoking
  <2>12. TaskInv(q)'
    <3>1. Stage(q)'
      BY <2>1, <2>10, <2>11 DEF Stage, Creating, Revoking, Revising
    <3>2. MintInv(q)' /\ ReviseInv(q)'
      BY <2>10, <2>11 DEF MintInv, ReviseInv
    <3>3. RevokeInv(q)'
      BY <2>1, <2>3, <2>5, <2>10, <2>11 DEF RevokeInv
    <3> QED
      BY <3>1, <3>2, <3>3 DEF TaskInv
  <2> QED
    BY <2>1, <2>2, <2>6, <2>8, <2>9, <2>12, KeyStepKeeps
<1> QED
  BY <1>1, <1>2

\* RevokeKey, AuditRevoke: in memory, and the answer.
LEMMA RevokeKeyKeeps ==
  ASSUME KeyInv, NEW q \in Changes, RevokeKey(q) \/ AuditRevoke(q)
  PROVE  KeyInv'
<1>0. KeyShape /\ asked' = asked /\ key_scene' = key_scene /\ frames' = frames /\ Formed(keys)
  BY DEF KeyInv, KeyShape, Formed, RevokeKey, AuditRevoke, Audited, WriteFails
<1>1. AskedGrows
  BY <1>0, AskedSame
<1>2. /\ Replayable' /\ LogAsAsked' /\ Formed(Durable)' /\ LogMild /\ Durable' = Durable
  BY <1>0, <1>1, LogStays
<1>3. Formed(keys)' /\ KeysMild
  <2>1. keys' = keys \/ keys' = Revoked(keys, Key(q))
    BY DEF RevokeKey, AuditRevoke
  <2> QED
    BY <2>1, MemoryStays
<1>4. Mild(q)
  BY <1>1, <1>2, <1>3, MildParts
<1>5. CASE RevokeKey(q)
  <2>1. Goes(q, "audit_revoke") /\ told'[q] = told[q]
    BY <1>0, <1>5, Moves DEF RevokeKey
  <2>2. /\ change'[q].pc = "audit_revoke" /\ Ask(q)' = Ask(q) /\ Key(q)' = Key(q)
        /\ Creation(Key(q))' = Creation(Key(q)) /\ TaskInv(q)
    BY <2>1, TaskAfter
  <2>3. change[q].pc = "revoke" /\ told[q] = "none" /\ Ask(q).op = "revoke"
    BY <1>5, <2>2 DEF TaskInv, Stage, Revoking, RevokeKey, Is
  <2>4. Key(q) \in DOMAIN keys' => keys'[Key(q)].revoked
    BY <1>0, <1>3, <1>5, RevokeEdits DEF KeysMild, RevokeKey
  <2>5. TaskInv(q)'
    <3>1. Stage(q)'
      BY <2>1, <2>2, <2>3 DEF Stage, Creating, Revoking, Revising
    <3>2. MintInv(q)' /\ ReviseInv(q)'
      BY <2>2, <2>3 DEF MintInv, ReviseInv
    <3>3. RevokeInv(q)'
      BY <1>2, <2>1, <2>2, <2>3, <2>4 DEF TaskInv, RevokeInv
    <3> QED
      BY <3>1, <3>2, <3>3 DEF TaskInv
  <2> QED
    BY <1>2, <1>3, <1>4, <2>1, <2>5, KeyStepKeeps
<1>6. CASE AuditRevoke(q)
  <2>0. keys' = keys
    BY <1>6 DEF AuditRevoke
  <2>1. Goes(q, "done") /\ told'[q] \in {"ok", "unrecorded"}
    <3>1. Tell(q, "ok") \/ Tell(q, "unrecorded")
      BY <1>6 DEF AuditRevoke
    <3> QED
      BY <1>0, <3>1, Moves
  <2>2. /\ change'[q].pc = "done" /\ Ask(q)' = Ask(q) /\ Key(q)' = Key(q)
        /\ Creation(Key(q))' = Creation(Key(q)) /\ TaskInv(q)
    BY <2>1, TaskAfter
  <2>3. change[q].pc = "audit_revoke" /\ Ask(q).op = "revoke"
    BY <1>6, <2>2 DEF TaskInv, Stage, Revoking, AuditRevoke, Is
  <2>4. TaskInv(q)'
    <3>1. Stage(q)'
      BY <2>2 DEF Stage, Creating, Revoking, Revising
    <3>2. MintInv(q)' /\ ReviseInv(q)'
      BY <2>2, <2>3 DEF MintInv, ReviseInv
    <3>3. RevokeInv(q)'
      BY <1>2, <2>0, <2>2, <2>3 DEF TaskInv, RevokeInv
    <3> QED
      BY <3>1, <3>2, <3>3 DEF TaskInv
  <2> QED
    BY <1>2, <1>3, <1>4, <2>1, <2>4, KeyStepKeeps
<1> QED
  BY <1>5, <1>6

\* CompareKey: the tag matches, and the restriction has been asked for.
LEMMA CompareKeyKeeps ==
  ASSUME KeyInv, NEW q \in Changes, CompareKey(q)
  PROVE  KeyInv'
<1>0. KeyShape /\ change[q].pc = "compare" /\ key_scene' = key_scene /\ frames' = frames /\ keys' = keys
  BY DEF KeyInv, CompareKey, Is
<1>1. CASE Tell(q, "refused") /\ UNCHANGED asked
  BY <1>0, <1>1, RefusalKeeps DEF Revising
<1>2. CASE ~(Tell(q, "refused") /\ UNCHANGED asked)
  <2>0. Move(q, "audit_change") /\ Quiet /\ asked' = IF Ask(q).op = "restrict" THEN Asking(q) ELSE asked
    BY <1>2 DEF CompareKey
  <2>1. Goes(q, "audit_change") /\ told'[q] = told[q]
    BY <1>0, <2>0, Moves
  <2>2. /\ AskedGrows
        /\ Ask(q).op = "restrict" => Key(q) \in DOMAIN asked' /\ Ask(q).restrictions \in asked'[Key(q)]
    BY <2>0, AskedMore, AskedSame
  <2>3. /\ Replayable' /\ LogAsAsked' /\ Formed(Durable)' /\ LogMild /\ Durable' = Durable
    BY <1>0, <2>2, LogStays
  <2>4. Formed(keys)' /\ KeysMild
    BY <1>0, MemoryStays
  <2>5. Mild(q)
    BY <2>2, <2>3, <2>4, MildParts
  <2>6. /\ change'[q].pc = "audit_change" /\ Ask(q)' = Ask(q) /\ Key(q)' = Key(q) /\ TaskInv(q)
    BY <2>1, TaskAfter
  <2>7. told[q] = "none" /\ Ask(q).op \in {"expiry", "restrict"}
    BY <1>0, <2>6 DEF TaskInv, Stage, Revising
  <2>8. TaskInv(q)'
    <3>1. Stage(q)'
      BY <2>1, <2>6, <2>7 DEF Stage, Creating, Revoking, Revising
    <3>2. MintInv(q)' /\ RevokeInv(q)'
      BY <2>6, <2>7 DEF MintInv, RevokeInv
    <3>3. ReviseInv(q)'
      BY <2>2, <2>6 DEF ReviseInv
    <3> QED
      BY <3>1, <3>2, <3>3 DEF TaskInv
  <2> QED
    BY <2>1, <2>3, <2>4, <2>5, <2>8, KeyStepKeeps
<1> QED
  BY <1>1, <1>2

\* AuditChange, ApplyChange: before the frame, and after it.
LEMMA ReviseKeeps ==
  ASSUME KeyInv, NEW q \in Changes, AuditChange(q) \/ ApplyChange(q)
  PROVE  KeyInv'
<1>0. KeyShape /\ asked' = asked /\ key_scene' = key_scene /\ frames' = frames
  BY DEF KeyInv, AuditChange, ApplyChange, Audited, WriteFails
<1>1. AskedGrows
  BY <1>0, AskedSame
<1>2. /\ Replayable' /\ LogAsAsked' /\ Formed(Durable)' /\ LogMild /\ Durable' = Durable
  BY <1>0, <1>1, LogStays
<1>3. PICK pc : Goes(q, pc) /\ \/ pc = "record_change" /\ told'[q] = told[q] /\ change[q].pc = "audit_change"
                               \/ pc = "done" /\ change[q].pc \in {"audit_change", "apply"}
  <2>1. CASE AuditChange(q)
    <3>1. \/ Move(q, "record_change") /\ Quiet
          \/ Tell(q, "refused")
      BY <2>1 DEF AuditChange
    <3> QED
      BY <1>0, <2>1, <3>1, Moves DEF AuditChange, Is
  <2>2. CASE ApplyChange(q)
    BY <1>0, <2>2, Moves DEF ApplyChange, Is
  <2> QED
    BY <2>1, <2>2
<1>4. Formed(keys)' /\ KeysMild
  <2>1. PICK x : keys' = keys \/ keys' = Expiring(keys, Key(q), x) \/ keys' = Narrowed(keys, Key(q), x)
    BY DEF AuditChange, ApplyChange
  <2> QED
    BY <2>1, MemoryStays
<1>5. Mild(q)
  BY <1>1, <1>2, <1>4, MildParts
<1>6. /\ change'[q].pc = pc /\ Ask(q)' = Ask(q) /\ Key(q)' = Key(q) /\ TaskInv(q)
  BY <1>3, TaskAfter
<1>7. told[q] = "none" /\ Ask(q).op \in {"expiry", "restrict"}
  BY <1>3, <1>6 DEF TaskInv, Stage, Revising
<1>8. TaskInv(q)'
  <2>1. Stage(q)'
    BY <1>3, <1>6, <1>7 DEF Stage, Creating, Revoking, Revising
  <2>2. MintInv(q)' /\ RevokeInv(q)'
    BY <1>6, <1>7 DEF MintInv, RevokeInv
  <2>3. ReviseInv(q)'
    BY <1>0, <1>3, <1>6 DEF TaskInv, ReviseInv
  <2> QED
    BY <2>1, <2>2, <2>3 DEF TaskInv
<1> QED
  BY <1>2, <1>3, <1>4, <1>5, <1>8, KeyStepKeeps

\* RecordChange: the change alone is written.
LEMMA RecordChangeKeeps ==
  ASSUME KeyInv, NEW q \in Changes, RecordChange(q)
  PROVE  KeyInv'
<1>0. KeyShape /\ change[q].pc = "record_change" /\ asked' = asked /\ key_scene' = key_scene /\ keys' = keys
      /\ Replayable /\ LogAsAsked /\ Formed(Durable)
  BY DEF KeyInv, KeyShape, Formed, RecordChange, Is
<1>1. CASE WriteFails /\ Tell(q, "refused")
  BY <1>0, <1>1, RefusalKeeps DEF WriteFails, Revising
<1>2. CASE ~(WriteFails /\ Tell(q, "refused"))
  <2>0. Move(q, "apply") /\ Quiet /\ frames' = Append(frames, ChangeFrame(q))
    BY <1>2 DEF RecordChange, Write_
  <2>1. Goes(q, "apply") /\ told'[q] = told[q]
    BY <1>0, <2>0, Moves
  <2>2. /\ change'[q].pc = "apply" /\ Ask(q)' = Ask(q) /\ Key(q)' = Key(q) /\ TaskInv(q)
    BY <2>1, TaskAfter
  <2>3. told[q] = "none" /\ Ask(q).op \in {"expiry", "restrict"}
    BY <1>0, <2>2 DEF TaskInv, Stage, Revising
  <2>4. Replayable' /\ LogAsAsked' /\ Formed(Durable)' /\ LogMild
    <3>1. CASE Ask(q).op = "expiry"
      <4>0. frames' = Append(frames, ExpiryChange(q, Key(q), Ask(q).expires_at))
        BY <2>0, <3>1 DEF ChangeFrame
      <4>1. Replayable' /\ Durable' = Expiring(Durable, Key(q), Ask(q).expires_at) /\ Coming' = Coming
        BY <1>0, <4>0, ExpiryWritten
      <4>2. /\ Edited(Durable, Durable')
            /\ \A i \in DOMAIN Durable : Durable'[i].restrictions = Durable[i].restrictions
        BY <1>0, <4>1, Edits
      <4>3. \A k : Funded(k) => Funded(k)'
        BY <1>0, <4>0, FrameWritten
      <4>4. DOMAIN Durable' = DOMAIN Durable
        BY <4>2 DEF Edited
      <4> QED
        BY <1>0, <4>1, <4>2, <4>3, <4>4 DEF LogAsAsked, Formed, LogMild, Edited
    <3>2. CASE Ask(q).op = "restrict"
      <4>0. frames' = Append(frames, RestrictionChange(q, Key(q), Ask(q).restrictions))
        BY <2>0, <3>2 DEF ChangeFrame
      <4>1. Key(q) \in DOMAIN asked /\ Ask(q).restrictions \in asked[Key(q)]
        BY <1>0, <2>2, <3>2 DEF TaskInv, ReviseInv
      <4> QED
        BY <1>0, <4>0, <4>1, RestrictionKept
    <3> QED
      BY <2>3, <3>1, <3>2
  <2>5. AskedGrows
    BY <1>0, AskedSame
  <2>6. Formed(keys)' /\ KeysMild
    BY <1>0, MemoryStays
  <2>7. Mild(q)
    BY <2>4, <2>5, <2>6, MildParts
  <2>8. TaskInv(q)'
    <3>1. Stage(q)'
      BY <2>1, <2>2, <2>3 DEF Stage, Creating, Revoking, Revising
    <3>2. MintInv(q)' /\ RevokeInv(q)'
      BY <2>2, <2>3 DEF MintInv, RevokeInv
    <3>3. ReviseInv(q)'
      BY <1>0, <2>2 DEF TaskInv, ReviseInv
    <3> QED
      BY <3>1, <3>2, <3>3 DEF TaskInv
  <2> QED
    BY <2>1, <2>4, <2>6, <2>7, <2>8, KeyStepKeeps
<1> QED
  BY <1>1, <1>2


\* A replay begins with nothing.
LEMMA NothingThere ==
  /\ DOMAIN Nothing.keys = {} /\ DOMAIN Nothing.pending = {}
  /\ Nothing = [keys |-> Nothing.keys, pending |-> Nothing.pending]
<1>1. DOMAIN <<>> = {}
  OBVIOUS
<1>2. Nothing.keys = <<>> /\ Nothing.pending = <<>>
  BY DEF Nothing
<1> QED
  BY <1>1, <1>2 DEF Nothing

\* KeyRestart: memory is what the log gives, and the requests in hand are gone.
LEMMA KeyRestartKeeps ==
  ASSUME KeyInv, KeyRestart
  PROVE  KeyInv'
<1>0. /\ KeyShape /\ keys' = Durable /\ frames' = frames /\ asked' = asked /\ told' = told /\ key_scene' = key_scene
      /\ change' = [q \in Changes |-> IF Is(q, "waiting") THEN change[q] ELSE [change[q] EXCEPT !.pc = "done"]]
  BY DEF KeyInv, KeyRestart, Durable
<1>1. AskedGrows
  BY <1>0, AskedSame
<1>2. /\ Replayable' /\ LogAsAsked' /\ Formed(Durable)' /\ Durable' = Durable /\ Coming' = Coming
      /\ \A k : Funded(k)' <=> Funded(k)
  BY <1>0, <1>1, LogStays
<1>3. Changes' = Changes
  BY <1>0 DEF Changes
<1>4. ASSUME NEW q \in Changes
      PROVE  /\ DOMAIN change'[q] = {"pc", "ask", "seen"} /\ Ask(q)' = Ask(q) /\ Key(q)' = Key(q)
             /\ \/ change'[q].pc = "waiting" /\ change[q].pc = "waiting"
                \/ change'[q].pc = "done"
  <2>0. DOMAIN change[q] = {"pc", "ask", "seen"}
    BY <1>0 DEF KeyShape
  <2>1. CASE Is(q, "waiting")
    <3>1. change'[q] = change[q] /\ change[q].pc = "waiting"
      BY <1>0, <2>1 DEF Is
    <3> QED
      BY <2>0, <3>1 DEF Ask, Key
  <2>2. CASE ~Is(q, "waiting")
    <3> DEFINE c == [change[q] EXCEPT !.pc = "done"]
    <3>1. change'[q] = c
      BY <1>0, <2>2
    <3>2. DOMAIN c = {"pc", "ask", "seen"} /\ c.ask = change[q].ask /\ c.pc = "done"
      BY <2>0
    <3> HIDE DEF c
    <3> QED
      BY <3>1, <3>2 DEF Ask, Key
  <2> QED
    BY <2>1, <2>2
<1>5. KeyShape'
  BY <1>0, <1>2, <1>3, <1>4 DEF KeyShape, Formed, Changes
<1>6. ASSUME NEW q \in Changes PROVE TaskInv(q)'
  <2>0. TaskInv(q)
    BY DEF KeyInv
  <2>1. /\ Ask(q)' = Ask(q) /\ Key(q)' = Key(q) /\ told'[q] = told[q]
        /\ \/ change'[q].pc = "waiting" /\ change[q].pc = "waiting"
           \/ change'[q].pc = "done"
    BY <1>0, <1>4
  <2>2. Creation(Key(q))' = Creation(Key(q))
    BY <1>3, <1>4, <2>1 DEF Creation
  <2>3. Stage(q)'
    BY <2>0, <2>1 DEF TaskInv, Stage, Creating, Revoking, Revising
  <2>4. ReviseInv(q)'
    BY <2>1 DEF ReviseInv
  <2>5. Funded(Key(q)) => Funded(Key(q))'
    BY <1>0, <2>1 DEF Funded
  <2>6. MintInv(q)'
    BY <1>0, <1>2, <2>0, <2>1, <2>5 DEF TaskInv, MintInv, Creating
  <2>7. RevokeInv(q)'
    BY <1>0, <1>2, <2>0, <2>1, <2>2 DEF TaskInv, RevokeInv
  <2> QED
    BY <2>3, <2>4, <2>6, <2>7 DEF TaskInv
<1> QED
  BY <1>2, <1>3, <1>5, <1>6 DEF KeyInv

\* The log of a scene: its keys as they were minted.
LEMMA KeysAtFirst == KeyInit => KeyInv
<1> SUFFICES ASSUME KeyInit PROVE KeyInv
  OBVIOUS
<1> DEFINE ids == key_scene.keys
           rec == KeyRecord(Never)
           N == Len(ids)
           c == [n \in 0 .. N |-> IF n = 0 THEN Nothing
                                  ELSE [keys |-> [k \in {ids[i] : i \in 1 .. n} |-> rec],
                                        pending |-> [k \in {} |-> rec]]]
<1>0. /\ key_scene \in KeyScenes /\ N \in Nat /\ DOMAIN ids = 1 .. N
      /\ frames = [i \in 1 .. N |-> KeyFrame(0, ids[i], rec)]
  BY KeyAssumption DEF KeyInit
<1>1. IsLog(frames) /\ Len(frames) = N
  <2> DEFINE T == {KeyFrame(0, ids[i], rec) : i \in 1 .. N}
  <2>1. frames \in [1 .. N -> T]
    BY <1>0
  <2> HIDE DEF T
  <2>2. frames \in Seq(T) /\ Len(frames) = N
    BY <1>0, <2>1
  <2> QED
    BY <2>2 DEF IsLog
<1>2. Course(frames, c)
  <2>0. /\ c[0] = Nothing /\ DOMAIN c = 0 .. N
        /\ \A n \in 1 .. N : c[n] = [keys |-> [k \in {ids[i] : i \in 1 .. n} |-> rec], pending |-> [k \in {} |-> rec]]
    BY <1>0
  <2>1. c = [n \in 0 .. N |-> c[n]]
    OBVIOUS
  <2> HIDE DEF c
  <2>2. ASSUME NEW n \in 1 .. N PROVE c[n] = Replayed(c[n - 1], frames[n])
    <3> DEFINE S == {ids[i] : i \in 1 .. n}
               R == {ids[i] : i \in 1 .. (n - 1)}
    <3>1. frames[n] = KeyFrame(0, ids[n], rec)
      BY <1>0
    <3>2. DOMAIN c[n - 1].keys = R /\ (\A k \in R : c[n - 1].keys[k] = rec) /\ DOMAIN c[n - 1].pending = {}
      <4>1. CASE n = 1
        <5>1. R = {} /\ c[n - 1] = Nothing
          BY <1>0, <2>0, <4>1
        <5> QED
          BY <5>1, NothingThere
      <4>2. CASE n # 1
        <5>1. n - 1 \in 1 .. N
          BY <1>0, <4>2
        <5>2. c[n - 1] = [keys |-> [k \in R |-> rec], pending |-> [k \in {} |-> rec]]
          BY <2>0, <5>1
        <5> HIDE DEF R, rec
        <5> QED
          BY <5>2
      <4> QED
        BY <4>1, <4>2
    <3>3. S = R \cup {ids[n]}
      BY <1>0
    <3> HIDE DEF S, R, rec
    <3>4. Replayed(c[n - 1], frames[n]) = [keys |-> With(c[n - 1].keys, ids[n], rec), pending |-> Less(c[n - 1].pending, ids[n])]
      BY <3>1, <3>2 DEF Replayed, KeyFrame
    <3>5. With(c[n - 1].keys, ids[n], rec) = [k \in S |-> rec]
      BY <3>2, <3>3 DEF With
    <3>6. Less(c[n - 1].pending, ids[n]) = [k \in {} |-> rec]
      BY <3>2 DEF Less
    <3>7. c[n] = [keys |-> [k \in S |-> rec], pending |-> [k \in {} |-> rec]]
      BY <2>0 DEF S
    <3> QED
      BY <3>4, <3>5, <3>6, <3>7
  <2>3. ASSUME NEW n \in 0 .. N PROVE c[n] = IF n = 0 THEN Nothing ELSE Replayed(c[n - 1], frames[n])
    <3>1. CASE n = 0
      BY <2>0, <3>1
    <3>2. CASE n # 0
      <4>1. n \in 1 .. N
        BY <1>0, <3>2
      <4> QED
        BY <2>2, <3>2, <4>1
    <3> QED
      BY <3>1, <3>2
  <2>4. [n \in 0 .. N |-> c[n]] = [n \in 0 .. N |-> IF n = 0 THEN Nothing ELSE Replayed(c[n - 1], frames[n])]
    BY <2>3
  <2> QED
    BY <1>1, <2>1, <2>4 DEF Course
<1>3. Back = c[N]
  BY <1>0, <1>1, <1>2, RebuiltIs DEF Back
<1> DEFINE S == {ids[i] : i \in 1 .. N}
<1>4. /\ Back = [keys |-> Back.keys, pending |-> Back.pending]
      /\ DOMAIN Back.keys = S /\ (\A k \in S : Back.keys[k] = rec) /\ DOMAIN Back.pending = {}
  <2>1. CASE N = 0
    <3>1. Back = Nothing /\ S = {}
      BY <1>0, <1>3, <2>1
    <3> QED
      BY <3>1, NothingThere
  <2>2. CASE N # 0
    <3>1. Back = [keys |-> [k \in S |-> rec], pending |-> [k \in {} |-> rec]]
      BY <1>0, <1>3, <2>2
    <3> HIDE DEF S, rec
    <3> QED
      BY <3>1
  <2> QED
    BY <2>1, <2>2
<1>5. Durable = Back.keys /\ Coming = Back.pending
  BY DurableIsBack DEF Coming
<1>6. Replayable
  BY <1>1, <1>2, <1>4, <1>5 DEF Replayable
<1>7. keys = Durable /\ asked = [k \in DOMAIN Durable |-> {Wide}]
  BY DEF KeyInit, Durable
<1>8. rec.restrictions = Wide /\ DOMAIN rec = KeyFields
  BY DEF KeyRecord, KeyFields
<1> HIDE DEF c, S, rec
<1>9. LogAsAsked
  BY <1>4, <1>5, <1>7, <1>8 DEF LogAsAsked
<1>10. /\ DOMAIN change = DOMAIN key_scene.changes /\ DOMAIN told = DOMAIN key_scene.changes
       /\ \A q \in Changes : /\ DOMAIN change[q] = {"pc", "ask", "seen"} /\ Ask(q) = key_scene.changes[q]
                             /\ change[q].pc = "waiting" /\ told[q] = "none"
  BY DEF KeyInit, Changes, Ask
<1>11. KeyShape
  BY <1>0, <1>4, <1>5, <1>7, <1>8, <1>10 DEF KeyShape
<1>12. ASSUME NEW q \in Changes PROVE TaskInv(q)
  <2>1. Ask(q).op = "create" => Key(q) \notin DOMAIN Durable
    BY <1>0, <1>4, <1>5, <1>10, KeyAssumption DEF S, Changes, Key
  <2> QED
    BY <1>10, <2>1 DEF TaskInv, Stage, MintInv, ReviseInv, RevokeInv, Creating, Revoking, Revising
<1> QED
  BY <1>6, <1>9, <1>11, <1>12 DEF KeyInv

\* Every step keeps the invariant.
LEMMA KeyNextKeeps ==
  ASSUME KeyInv, [KeyNext]_keyVars
  PROVE  KeyInv'
<1>1. ASSUME NEW q \in Changes, KeyStep(q) PROVE KeyInv'
  <2>1. CASE CreateKey(q)
    BY <2>1, CreateKeyKeeps
  <2>2. CASE NarrowNewKey(q)
    BY <2>2, NarrowNewKeyKeeps
  <2>3. CASE AuditCreate(q)
    BY <2>3, AuditCreateKeeps
  <2>4. CASE RecordBudget(q)
    BY <2>4, RecordBudgetKeeps
  <2>5. CASE RecordRestriction(q)
    BY <2>5, RecordRestrictionKeeps
  <2>6. CASE RecordKey(q)
    BY <2>6, RecordKeyKeeps
  <2>7. CASE FindRevoke(q) \/ ReadKey(q)
    BY <2>7, LookKeeps
  <2>8. CASE RecordRevocation(q)
    BY <2>8, RecordRevocationKeeps
  <2>9. CASE RevokeKey(q) \/ AuditRevoke(q)
    BY <2>9, RevokeKeyKeeps
  <2>10. CASE CompareKey(q)
    BY <2>10, CompareKeyKeeps
  <2>11. CASE AuditChange(q) \/ ApplyChange(q)
    BY <2>11, ReviseKeeps
  <2>12. CASE RecordChange(q)
    BY <2>12, RecordChangeKeeps
  <2> QED
    BY <1>1, <2>1, <2>2, <2>3, <2>4, <2>5, <2>6, <2>7, <2>8, <2>9, <2>10, <2>11, <2>12 DEF KeyStep
<1>2. CASE KeyRestart
  BY <1>2, KeyRestartKeeps
<1>3. CASE UNCHANGED keyVars
  <2>1. /\ key_scene' = key_scene /\ keys' = keys /\ frames' = frames /\ change' = change /\ told' = told
        /\ asked' = asked
    BY <1>3 DEF keyVars
  <2>2. AskedGrows
    BY <2>1, AskedSame
  <2>3. /\ Replayable' /\ LogAsAsked' /\ Durable' = Durable /\ Coming' = Coming
    BY <2>1, <2>2, LogStays
  <2>4. Changes' = Changes /\ \A q \in Changes : Ask(q)' = Ask(q) /\ Key(q)' = Key(q)
    BY <2>1 DEF Changes, Ask, Key
  <2>5. KeyShape'
    BY <2>1, <2>3, <2>4 DEF KeyInv, KeyShape
  <2>6. ASSUME NEW q \in Changes PROVE TaskInv(q)'
    <3>1. Creation(Key(q))' = Creation(Key(q))
      BY <2>4 DEF Creation
    <3>2. Funded(Key(q)) => Funded(Key(q))'
      BY <2>1, <2>4 DEF Funded
    <3>3. TaskInv(q)
      BY DEF KeyInv
    <3>4. Stage(q)' /\ ReviseInv(q)'
      BY <2>1, <2>4, <3>3 DEF TaskInv, Stage, ReviseInv
    <3>5. MintInv(q)'
      BY <2>1, <2>3, <2>4, <3>2, <3>3 DEF TaskInv, MintInv
    <3>6. RevokeInv(q)'
      BY <2>1, <2>3, <2>4, <3>1, <3>3 DEF TaskInv, RevokeInv
    <3> QED
      BY <3>4, <3>5, <3>6 DEF TaskInv
  <2> QED
    BY <2>3, <2>4, <2>5, <2>6 DEF KeyInv
<1> QED
  BY <1>1, <1>2, <1>3 DEF KeyNext

\* The keys in memory, the log, and the requests, at every moment.
THEOREM KeyInvariant == KeySpec => []KeyInv
<1>1. KeyInit => KeyInv
  BY KeysAtFirst
<1>2. KeyInv /\ [KeyNext]_keyVars => KeyInv'
  BY KeyNextKeeps
<1> QED
  BY <1>1, <1>2, PTL DEF KeySpec

\* However far a creation got before it was refused or the process ended, no
\* restart brings the key back wider than asked for or without its budget, a
\* key said not to have been created never works, and no change that races the
\* revocation of a durable key undoes it.
THEOREM KeysKept == KeySpec => []KeysAsAsked
<1>1. KeyInv => KeysAsAsked
  BY KeysFromInv
<1> QED
  BY <1>1, KeyInvariant, PTL

-----------------------------------------------------------------------------
(* The sign-in endpoints: the books of each, and the permits. *)

AttemptType ==
  [pc : Uncounted \cup {"idle", "present", "exchange", "locked", "enter", "verify", "write"},
   at : Endpoints, now : Nat, slot : BOOLEAN, start : Nat, rolled : Nat, record : BOOLEAN]

\* The types of the sign-in state.
SignTypeOK ==
  /\ served \subseteq Endpoints /\ clock \in Nat
  /\ account \in [window_start : Nat, failures : Nat] /\ in_flight \in Nat
  /\ budget \in [Endpoints -> [window_start : Nat, recorded : Nat, suppressed : Nat]]
  /\ transaction \in BOOLEAN /\ signed_in \in Nat
  /\ attempt \in [Attempts -> AttemptType]
  /\ failed \in [Endpoints -> Nat]
  /\ written \in [Endpoints -> [single : Nat, summed : Nat, windows : Nat]]

\* What an attempt has with it at which point.
Fits(x, time) ==
  /\ x.pc \in {"idle", "present", "exchange", "locked", "enter"} => ~x.slot
  /\ x.pc = "verify" => x.slot
  /\ x.rolled > 0 => x.pc \in {"reset", "count", "suppress", "write"}
  /\ x.record => x.pc = "write"
  /\ x.now <= time
  /\ x.pc = "roll" => x.start + ANONYMOUS_AUDIT_WINDOW_MILLIS <= x.now

Carries(a) == Fits(attempt[a], clock)

\* The attempts not yet counted, with a record to write, between a window's
\* beginning and its reset; the failures in their hands; the permits.
Open(e) == {a \in Attempts : attempt[a].at = e /\ attempt[a].pc \in Uncounted}
ToWrite(e) == {a \in Attempts : attempt[a].at = e /\ attempt[a].pc = "write" /\ attempt[a].record}
Turning(e) == {a \in Attempts : attempt[a].at = e /\ attempt[a].pc \in {"swap", "reset"}}
InHand(e) == UNION {{a} \X (1 .. attempt[a].rolled) : a \in {b \in Attempts : attempt[b].at = e}}
Permits == {a \in Attempts : attempt[a].slot}

Tally(e) ==
  failed[e] = written[e].single + written[e].summed + budget[e].suppressed
              + Cardinality(InHand(e)) + Cardinality(Open(e)) + Cardinality(ToWrite(e))

\* What the present window still admits.
Room(e) == IF budget[e].recorded < MAX_ANONYMOUS_AUDITS_PER_WINDOW
           THEN MAX_ANONYMOUS_AUDITS_PER_WINDOW - budget[e].recorded ELSE 0

(***************************************************************************)
(* A window pays for as many records as it may have: they were written,    *)
(* are about to be, or there is room for them, or the thread that begins   *)
(* the window is still to make the room.                                   *)
(***************************************************************************)
Paid(e) ==
  written[e].single + Cardinality(ToWrite(e)) + MAX_ANONYMOUS_AUDITS_PER_WINDOW * Cardinality(Turning(e)) + Room(e)
    <= MAX_ANONYMOUS_AUDITS_PER_WINDOW * (written[e].windows + 1)

Windows(e) ==
  /\ written[e].windows * ANONYMOUS_AUDIT_WINDOW_MILLIS <= budget[e].window_start
  /\ budget[e].window_start <= clock

Books(e) == IsFiniteSet(InHand(e)) /\ Tally(e) /\ Paid(e) /\ Windows(e)

PermitsBack == in_flight = Cardinality(Permits) /\ in_flight <= MAX_CONCURRENT_PASSWORD_CHECKS

OneSession ==
  /\ signed_in <= 1
  /\ \A a \in Attempts : attempt[a].pc = "exchange" =>
       /\ ~transaction /\ signed_in = 0
       /\ \A b \in Attempts : attempt[b].pc = "exchange" => b = a
  /\ transaction => signed_in = 0

SignInv ==
  /\ SignTypeOK /\ (\A a \in Attempts : Carries(a)) /\ (\A e \in Endpoints : Books(e))
  /\ PermitsBack /\ OneSession

Bit(b) == IF b THEN 1 ELSE 0

\* Two sets of attempts that differ in a at most.
LEMMA OneDiffers ==
  ASSUME NEW S \in SUBSET Attempts, NEW T \in SUBSET Attempts, NEW a, \A b : b # a => (b \in T <=> b \in S)
  PROVE  /\ Cardinality(S) \in Nat /\ Cardinality(T) \in Nat
         /\ Cardinality(T) + Bit(a \in S) = Cardinality(S) + Bit(a \in T)
<1>0. IsFiniteSet(S) /\ IsFiniteSet(T)
  BY SignAssumption, FS_Subset
<1>1. Cardinality(S) \in Nat /\ Cardinality(T) \in Nat
  BY <1>0, FS_CardinalityType
<1>2. CASE a \in T /\ a \notin S
  <2>1. T = S \cup {a}
    BY <1>2
  <2>2. Cardinality(S \cup {a}) = Cardinality(S) + 1
    BY <1>0, <1>2, FS_AddElement
  <2> QED
    BY <1>1, <1>2, <2>1, <2>2 DEF Bit
<1>3. CASE a \notin T /\ a \in S
  <2>1. S = T \cup {a}
    BY <1>3
  <2>2. Cardinality(T \cup {a}) = Cardinality(T) + 1
    BY <1>0, <1>3, FS_AddElement
  <2> QED
    BY <1>1, <1>3, <2>1, <2>2 DEF Bit
<1>4. CASE a \in T <=> a \in S
  <2>1. T = S
    BY <1>4
  <2> QED
    BY <1>1, <2>1
<1> QED
  BY <1>1, <1>2, <1>3, <1>4

\* A set of pairs, and the pairs of one attempt besides.
LEMMA PairsBesides ==
  ASSUME NEW S, IsFiniteSet(S), NEW a, NEW n \in Nat, S \cap ({a} \X (1 .. n)) = {}
  PROVE  /\ IsFiniteSet(S \cup ({a} \X (1 .. n))) /\ Cardinality(S) \in Nat
         /\ Cardinality(S \cup ({a} \X (1 .. n))) = Cardinality(S) + n
<1> DEFINE T == {a} \X (1 .. n)
<1>0. IsFiniteSet(1 .. n) /\ Cardinality(1 .. n) = n
  BY FS_Interval
<1>1. IsFiniteSet({a}) /\ Cardinality({a}) = 1
  BY FS_Singleton
<1>2. IsFiniteSet(T) /\ Cardinality(T) = n
  BY <1>0, <1>1, FS_Product
<1>3. Cardinality(S \cap T) = 0 /\ Cardinality(S) \in Nat
  BY FS_EmptySet, FS_CardinalityType
<1> HIDE DEF T
<1>4. IsFiniteSet(S \cup T) /\ Cardinality(S \cup T) = Cardinality(S) + Cardinality(T) - Cardinality(S \cap T)
  BY <1>2, FS_Union
<1> QED
  BY <1>2, <1>3, <1>4 DEF T

\* One attempt moves from x to y: the other attempts are where they were.
Turns(a, x, y) ==
  /\ attempt \in [Attempts -> AttemptType] /\ x = attempt[a]
  /\ y \in AttemptType /\ attempt' = [attempt EXCEPT ![a] = y]

\* The failures in hand change by those of the attempt that moves.
LEMMA InHandAfter ==
  ASSUME NEW a \in Attempts, NEW x, NEW y, Turns(a, x, y), NEW e \in Endpoints, IsFiniteSet(InHand(e))
  PROVE  /\ IsFiniteSet(InHand(e)') /\ Cardinality(InHand(e)) \in Nat /\ Cardinality(InHand(e)') \in Nat
         /\ Cardinality(InHand(e)') + (IF x.at = e THEN x.rolled ELSE 0)
              = Cardinality(InHand(e)) + (IF y.at = e THEN y.rolled ELSE 0)
<1> DEFINE n == IF x.at = e THEN x.rolled ELSE 0
           m == IF y.at = e THEN y.rolled ELSE 0
           B == {p \in InHand(e) : p[1] # a}
<1>0. n \in Nat /\ m \in Nat /\ attempt'[a] = y /\ \A b \in Attempts : b # a => attempt'[b] = attempt[b]
  BY DEF Turns, AttemptType
<1>1. InHand(e) = B \cup ({a} \X (1 .. n))
  BY DEF InHand, Turns, AttemptType
<1>2. InHand(e)' = B \cup ({a} \X (1 .. m))
  BY <1>0 DEF InHand, Turns, AttemptType
<1>3. B \cap ({a} \X (1 .. n)) = {} /\ B \cap ({a} \X (1 .. m)) = {}
  OBVIOUS
<1>4. IsFiniteSet(B)
  BY FS_Subset
<1> HIDE DEF B, n, m
<1>5. Cardinality(B \cup ({a} \X (1 .. n))) = Cardinality(B) + n /\ Cardinality(B) \in Nat
  BY <1>0, <1>3, <1>4, PairsBesides
<1>6. IsFiniteSet(B \cup ({a} \X (1 .. m))) /\ Cardinality(B \cup ({a} \X (1 .. m))) = Cardinality(B) + m
  BY <1>0, <1>3, <1>4, PairsBesides
<1>7. Cardinality(InHand(e)') = Cardinality(B) + m /\ Cardinality(InHand(e)) = Cardinality(B) + n
  BY <1>1, <1>2, <1>5, <1>6
<1>8. Cardinality(InHand(e)') + n = Cardinality(InHand(e)) + m
  BY <1>0, <1>5, <1>7
<1>9. IsFiniteSet(InHand(e)') /\ Cardinality(InHand(e)) \in Nat /\ Cardinality(InHand(e)') \in Nat
  BY <1>0, <1>2, <1>5, <1>6, <1>7
<1> QED
  BY <1>8, <1>9 DEF n, m

\* So do the attempts on their way, and the permits.
LEMMA SetsAfter ==
  ASSUME NEW a \in Attempts, NEW x, NEW y, Turns(a, x, y), NEW e \in Endpoints
  PROVE  /\ Cardinality(Open(e)) \in Nat /\ Cardinality(Open(e)') \in Nat
         /\ Cardinality(Open(e)') + Bit(x.at = e /\ x.pc \in Uncounted)
              = Cardinality(Open(e)) + Bit(y.at = e /\ y.pc \in Uncounted)
         /\ Cardinality(ToWrite(e)) \in Nat /\ Cardinality(ToWrite(e)') \in Nat
         /\ Cardinality(ToWrite(e)') + Bit(x.at = e /\ x.pc = "write" /\ x.record)
              = Cardinality(ToWrite(e)) + Bit(y.at = e /\ y.pc = "write" /\ y.record)
         /\ Cardinality(Turning(e)) \in Nat /\ Cardinality(Turning(e)') \in Nat
         /\ Cardinality(Turning(e)') + Bit(x.at = e /\ x.pc \in {"swap", "reset"})
              = Cardinality(Turning(e)) + Bit(y.at = e /\ y.pc \in {"swap", "reset"})
<1>0. attempt'[a] = y /\ x = attempt[a] /\ \A b \in Attempts : b # a => attempt'[b] = attempt[b]
  BY DEF Turns
<1>1. /\ Open(e) \in SUBSET Attempts /\ Open(e)' \in SUBSET Attempts
      /\ \A b : b # a => (b \in Open(e)' <=> b \in Open(e))
      /\ Bit(a \in Open(e)) = Bit(x.at = e /\ x.pc \in Uncounted)
      /\ Bit(a \in Open(e)') = Bit(y.at = e /\ y.pc \in Uncounted)
  BY <1>0 DEF Open, Bit
<1>2. /\ ToWrite(e) \in SUBSET Attempts /\ ToWrite(e)' \in SUBSET Attempts
      /\ \A b : b # a => (b \in ToWrite(e)' <=> b \in ToWrite(e))
      /\ Bit(a \in ToWrite(e)) = Bit(x.at = e /\ x.pc = "write" /\ x.record)
      /\ Bit(a \in ToWrite(e)') = Bit(y.at = e /\ y.pc = "write" /\ y.record)
  BY <1>0 DEF ToWrite, Bit
<1>3. /\ Turning(e) \in SUBSET Attempts /\ Turning(e)' \in SUBSET Attempts
      /\ \A b : b # a => (b \in Turning(e)' <=> b \in Turning(e))
      /\ Bit(a \in Turning(e)) = Bit(x.at = e /\ x.pc \in {"swap", "reset"})
      /\ Bit(a \in Turning(e)') = Bit(y.at = e /\ y.pc \in {"swap", "reset"})
  BY <1>0 DEF Turning, Bit
<1> HIDE DEF Bit
<1>4. /\ Cardinality(Open(e)) \in Nat /\ Cardinality(Open(e)') \in Nat
      /\ Cardinality(Open(e)') + Bit(a \in Open(e)) = Cardinality(Open(e)) + Bit(a \in Open(e)')
  BY <1>1, OneDiffers
<1>5. /\ Cardinality(ToWrite(e)) \in Nat /\ Cardinality(ToWrite(e)') \in Nat
      /\ Cardinality(ToWrite(e)') + Bit(a \in ToWrite(e)) = Cardinality(ToWrite(e)) + Bit(a \in ToWrite(e)')
  BY <1>2, OneDiffers
<1>6. /\ Cardinality(Turning(e)) \in Nat /\ Cardinality(Turning(e)') \in Nat
      /\ Cardinality(Turning(e)') + Bit(a \in Turning(e)) = Cardinality(Turning(e)) + Bit(a \in Turning(e)')
  BY <1>3, OneDiffers
<1> QED
  BY <1>1, <1>2, <1>3, <1>4, <1>5, <1>6

\* An endpoint whose books the step leaves alone.
LEMMA QuietBooks ==
  ASSUME SignTypeOK, NEW a \in Attempts, NEW x, NEW y, Turns(a, x, y), NEW e \in Endpoints, Books(e),
         failed'[e] = failed[e], budget'[e] = budget[e], written'[e] = written[e], clock' = clock,
         (x.at = e /\ x.pc \in Uncounted) <=> (y.at = e /\ y.pc \in Uncounted),
         (x.at = e /\ x.pc = "write" /\ x.record) <=> (y.at = e /\ y.pc = "write" /\ y.record),
         (x.at = e /\ x.pc \in {"swap", "reset"}) <=> (y.at = e /\ y.pc \in {"swap", "reset"}),
         (IF x.at = e THEN x.rolled ELSE 0) = (IF y.at = e THEN y.rolled ELSE 0)
  PROVE  Books(e)'
<1>1. /\ Bit(x.at = e /\ x.pc \in Uncounted) = Bit(y.at = e /\ y.pc \in Uncounted)
      /\ Bit(x.at = e /\ x.pc = "write" /\ x.record) = Bit(y.at = e /\ y.pc = "write" /\ y.record)
      /\ Bit(x.at = e /\ x.pc \in {"swap", "reset"}) = Bit(y.at = e /\ y.pc \in {"swap", "reset"})
      /\ Bit(x.at = e /\ x.pc \in Uncounted) \in Nat /\ Bit(x.at = e /\ x.pc = "write" /\ x.record) \in Nat
      /\ Bit(x.at = e /\ x.pc \in {"swap", "reset"}) \in Nat
  BY DEF Bit
<1>2. Cardinality(Open(e)') = Cardinality(Open(e)) /\ Cardinality(ToWrite(e)') = Cardinality(ToWrite(e))
      /\ Cardinality(Turning(e)') = Cardinality(Turning(e))
  BY <1>1, SetsAfter
<1>3. IsFiniteSet(InHand(e)') /\ Cardinality(InHand(e)') = Cardinality(InHand(e))
  <2>1. (IF x.at = e THEN x.rolled ELSE 0) \in Nat
    BY DEF Turns, AttemptType
  <2> QED
    BY <2>1, InHandAfter DEF Books
<1>4. Room(e)' = Room(e)
  BY DEF Room
<1> QED
  BY <1>2, <1>3, <1>4 DEF Books, Tally, Paid, Windows

\* A failure is counted as it happens.
LEMMA FailBooks ==
  ASSUME SignTypeOK, NEW a \in Attempts, NEW x, NEW y, Turns(a, x, y), NEW e \in Endpoints, Books(e),
         x.pc \notin Uncounted, x.pc # "write", y.pc = "load_window", y.at = x.at, y.rolled = x.rolled,
         failed' = [failed EXCEPT ![x.at] = @ + 1], budget'[e] = budget[e], written'[e] = written[e], clock' = clock
  PROVE  Books(e)'
<1>0. x.at \in Endpoints
  BY DEF Turns, AttemptType
<1>1. CASE e # x.at
  BY <1>0, <1>1, QuietBooks DEF SignTypeOK
<1>2. CASE e = x.at
  <2>1. failed'[e] = failed[e] + 1 /\ failed[e] \in Nat
    BY <1>0, <1>2 DEF SignTypeOK
  <2>2. /\ Bit(x.at = e /\ x.pc \in Uncounted) = 0 /\ Bit(y.at = e /\ y.pc \in Uncounted) = 1
        /\ Bit(x.at = e /\ x.pc = "write" /\ x.record) = 0 /\ Bit(y.at = e /\ y.pc = "write" /\ y.record) = 0
        /\ Bit(x.at = e /\ x.pc \in {"swap", "reset"}) = 0 /\ Bit(y.at = e /\ y.pc \in {"swap", "reset"}) = 0
    BY <1>2 DEF Bit, Uncounted
  <2>3. /\ Cardinality(Open(e)') = Cardinality(Open(e)) + 1 /\ Cardinality(ToWrite(e)') = Cardinality(ToWrite(e))
        /\ Cardinality(Turning(e)') = Cardinality(Turning(e))
        /\ Cardinality(Open(e)) \in Nat /\ Cardinality(ToWrite(e)) \in Nat
    BY <2>2, SetsAfter
  <2>4. /\ IsFiniteSet(InHand(e)') /\ Cardinality(InHand(e)') = Cardinality(InHand(e))
        /\ Cardinality(InHand(e)) \in Nat
    <3>1. x.rolled \in Nat
      BY DEF Turns, AttemptType
    <3> QED
      BY <1>2, <3>1, InHandAfter DEF Books
  <2>5. Room(e)' = Room(e)
    BY DEF Room
  <2>6. budget[e].suppressed \in Nat /\ written[e].single \in Nat /\ written[e].summed \in Nat
    BY DEF SignTypeOK
  <2>7. Tally(e)'
    BY <2>1, <2>3, <2>4, <2>6 DEF Books, Tally
  <2> QED
    BY <2>3, <2>4, <2>5, <2>7 DEF Books, Paid, Windows
<1> QED
  BY <1>1, <1>2

\* Permits are with the attempts that have one.
LEMMA PermitsAfter ==
  ASSUME NEW a \in Attempts, NEW x, NEW y, Turns(a, x, y), PermitsBack, in_flight \in Nat,
         in_flight' + Bit(x.slot) = in_flight + Bit(y.slot), in_flight' \in Nat,
         in_flight' <= MAX_CONCURRENT_PASSWORD_CHECKS
  PROVE  PermitsBack'
<1>0. attempt'[a] = y /\ x = attempt[a] /\ \A b \in Attempts : b # a => attempt'[b] = attempt[b]
  BY DEF Turns
<1>1. /\ Permits \in SUBSET Attempts /\ Permits' \in SUBSET Attempts
      /\ \A b : b # a => (b \in Permits' <=> b \in Permits)
      /\ Bit(a \in Permits) = Bit(x.slot) /\ Bit(a \in Permits') = Bit(y.slot)
      /\ Bit(x.slot) \in Nat /\ Bit(y.slot) \in Nat
  BY <1>0 DEF Permits, Bit
<1>2. /\ Cardinality(Permits) \in Nat /\ Cardinality(Permits') \in Nat
      /\ Cardinality(Permits') + Bit(a \in Permits) = Cardinality(Permits) + Bit(a \in Permits')
  BY <1>1, OneDiffers
<1>3. in_flight' = Cardinality(Permits')
  BY <1>1, <1>2 DEF PermitsBack
<1> QED
  BY <1>3 DEF PermitsBack


\* What one attempt adds to the books of an endpoint.
IsOpen(x, e) == Bit(x.at = e /\ x.pc \in Uncounted)
IsToWrite(x, e) == Bit(x.at = e /\ x.pc = "write" /\ x.record)
IsTurning(x, e) == Bit(x.at = e /\ x.pc \in {"swap", "reset"})
Held(x, e) == IF x.at = e THEN x.rolled ELSE 0

\* The books balance when what the attempt adds changes as the entries do.
LEMMA BooksAfter ==
  ASSUME SignTypeOK, NEW a \in Attempts, NEW x, NEW y, Turns(a, x, y), NEW e \in Endpoints, Books(e),
         failed'[e] = failed[e],
         budget'[e] \in [window_start : Nat, recorded : Nat, suppressed : Nat],
         written'[e] \in [single : Nat, summed : Nat, windows : Nat],
         written'[e].single + written'[e].summed + budget'[e].suppressed + Held(y, e) + IsOpen(y, e) + IsToWrite(y, e)
           = written[e].single + written[e].summed + budget[e].suppressed + Held(x, e) + IsOpen(x, e) + IsToWrite(x, e),
         written'[e].single + IsToWrite(y, e) + MAX_ANONYMOUS_AUDITS_PER_WINDOW * IsTurning(y, e) + Room(e)'
             + MAX_ANONYMOUS_AUDITS_PER_WINDOW * written[e].windows
           <= written[e].single + IsToWrite(x, e) + MAX_ANONYMOUS_AUDITS_PER_WINDOW * IsTurning(x, e) + Room(e)
             + MAX_ANONYMOUS_AUDITS_PER_WINDOW * written'[e].windows,
         Windows(e)'
  PROVE  Books(e)'
<1> DEFINE M == MAX_ANONYMOUS_AUDITS_PER_WINDOW
           t == Cardinality(Turning(e))
           u == Cardinality(Turning(e)')
           w == Cardinality(ToWrite(e))
           v == Cardinality(ToWrite(e)')
           R == Room(e)
           S == Room(e)'
<1>0. M \in Nat /\ R \in Nat /\ S \in Nat
  BY SignAssumption DEF SignTypeOK, Room
<1>1. /\ IsOpen(x, e) \in Nat /\ IsOpen(y, e) \in Nat /\ IsToWrite(x, e) \in Nat /\ IsToWrite(y, e) \in Nat
      /\ IsTurning(x, e) \in Nat /\ IsTurning(y, e) \in Nat /\ Held(x, e) \in Nat /\ Held(y, e) \in Nat
  BY DEF IsOpen, IsToWrite, IsTurning, Bit, Held, Turns, AttemptType
<1>2. /\ Cardinality(Open(e)) \in Nat /\ Cardinality(Open(e)') \in Nat
      /\ Cardinality(Open(e)') + IsOpen(x, e) = Cardinality(Open(e)) + IsOpen(y, e)
      /\ w \in Nat /\ v \in Nat /\ v + IsToWrite(x, e) = w + IsToWrite(y, e)
      /\ t \in Nat /\ u \in Nat /\ u + IsTurning(x, e) = t + IsTurning(y, e)
  BY SetsAfter DEF IsOpen, IsToWrite, IsTurning
<1>3. /\ IsFiniteSet(InHand(e)') /\ Cardinality(InHand(e)) \in Nat /\ Cardinality(InHand(e)') \in Nat
      /\ Cardinality(InHand(e)') + Held(x, e) = Cardinality(InHand(e)) + Held(y, e)
  BY InHandAfter DEF Books, Held
<1>4. /\ budget[e].suppressed \in Nat /\ written[e].single \in Nat /\ written[e].summed \in Nat
      /\ written[e].windows \in Nat /\ failed[e] \in Nat
  BY DEF SignTypeOK
<1>5. /\ budget'[e].suppressed \in Nat /\ written'[e].single \in Nat /\ written'[e].summed \in Nat
      /\ written'[e].windows \in Nat
  OBVIOUS
<1>6. Tally(e)'
  <2> DEFINE before == written[e].single + written[e].summed + budget[e].suppressed
             after == written'[e].single + written'[e].summed + budget'[e].suppressed
             h == Cardinality(InHand(e))
             g == Cardinality(InHand(e)')
             o == Cardinality(Open(e))
             k == Cardinality(Open(e)')
  <2>1. before \in Nat /\ after \in Nat
    BY <1>4, <1>5
  <2>2. after + Held(y, e) + IsOpen(y, e) + IsToWrite(y, e) = before + Held(x, e) + IsOpen(x, e) + IsToWrite(x, e)
    OBVIOUS
  <2>3. failed[e] = before + h + o + w
    BY DEF Books, Tally
  <2>4. h \in Nat /\ g \in Nat /\ o \in Nat /\ k \in Nat
        /\ g + Held(x, e) = h + Held(y, e) /\ k + IsOpen(x, e) = o + IsOpen(y, e)
    BY <1>2, <1>3
  <2> HIDE DEF before, after, h, g, o, k, v, w
  <2>5. before + h + o + w = after + g + k + v
    BY <1>1, <1>2, <2>1, <2>2, <2>4
  <2>6. failed'[e] = after + g + k + v
    BY <2>3, <2>5
  <2> QED
    BY <2>6 DEF Tally, after, g, k, v
<1>7. Paid(e)'
  <2> DEFINE i == IsTurning(x, e)
             j == IsTurning(y, e)
             n == written[e].windows
             m == written'[e].windows
             c == written[e].single
             d == written'[e].single
             p == IsToWrite(x, e)
             q == IsToWrite(y, e)
  <2>1. c + w + M * t + R <= M * (n + 1)
    BY DEF Books, Paid
  <2>2. d + q + M * j + S + M * n <= c + p + M * i + R + M * m
    OBVIOUS
  <2>3. i \in Nat /\ j \in Nat /\ n \in Nat /\ m \in Nat /\ c \in Nat /\ d \in Nat /\ p \in Nat /\ q \in Nat
        /\ t \in Nat /\ u \in Nat /\ w \in Nat /\ v \in Nat /\ u + i = t + j /\ v + p = w + q
    BY <1>1, <1>2, <1>4, <1>5
  <2> HIDE DEF M, t, u, w, v, R, S, i, j, n, m, c, d, p, q
  <2>4. M * u + M * i = M * t + M * j
    <3>1. M * (u + i) = M * (t + j)
      BY <2>3
    <3>2. M * (u + i) = M * u + M * i /\ M * (t + j) = M * t + M * j
      BY <1>0, <2>3
    <3> QED
      BY <3>1, <3>2
  <2>5. M * (n + 1) = M * n + M /\ M * (m + 1) = M * m + M
    BY <1>0, <2>3
  <2>6. /\ M * u \in Nat /\ M * i \in Nat /\ M * t \in Nat /\ M * j \in Nat
        /\ M * n \in Nat /\ M * m \in Nat
    BY <1>0, <2>3
  <2>7. d + v + M * u + S <= M * m + M
    <3> DEFINE mu == M * u
               mi == M * i
               mt == M * t
               mj == M * j
               mn == M * n
               mm == M * m
    <3>1. mu \in Nat /\ mi \in Nat /\ mt \in Nat /\ mj \in Nat /\ mn \in Nat /\ mm \in Nat
          /\ mu + mi = mt + mj /\ c + w + mt + R <= mn + M /\ d + q + mj + S + mn <= c + p + mi + R + mm
      BY <2>1, <2>2, <2>4, <2>5, <2>6
    <3> HIDE DEF mu, mi, mt, mj, mn, mm
    <3>2. d + v + mu + S <= mm + M
      BY <1>0, <2>3, <3>1
    <3> QED
      BY <3>2 DEF mu, mm
  <2>8. d + v + M * u + S <= M * (m + 1)
    BY <2>5, <2>7
  <2> QED
    BY <2>8 DEF Paid, M, u, v, S, m, d
<1> QED
  BY <1>3, <1>6, <1>7 DEF Books


\* An attempt that moves keeps the invariant when it keeps these parts of it.
LEMMA MoveKeeps ==
  ASSUME SignInv, NEW a \in Attempts, NEW x, NEW y, Turns(a, x, y), served' = served, clock' = clock,
         account' \in [window_start : Nat, failures : Nat], in_flight' \in Nat,
         budget' \in [Endpoints -> [window_start : Nat, recorded : Nat, suppressed : Nat]],
         transaction' \in BOOLEAN, signed_in' \in Nat, failed' \in [Endpoints -> Nat],
         written' \in [Endpoints -> [single : Nat, summed : Nat, windows : Nat]],
         Fits(y, clock), \A e \in Endpoints : Books(e)', OneSession',
         in_flight' + Bit(x.slot) = in_flight + Bit(y.slot), in_flight' <= MAX_CONCURRENT_PASSWORD_CHECKS
  PROVE  SignInv'
<1>1. attempt' \in [Attempts -> AttemptType]
  BY DEF Turns
<1>2. SignTypeOK'
  BY <1>1 DEF SignTypeOK, SignInv
<1>3. ASSUME NEW b \in Attempts PROVE Carries(b)'
  <2>1. CASE b = a
    <3>1. attempt'[b] = y
      BY <2>1 DEF Turns
    <3> QED
      BY <3>1 DEF Carries
  <2>2. CASE b # a
    <3>1. attempt'[b] = attempt[b]
      BY <2>2 DEF Turns
    <3>2. Fits(attempt[b], clock)
      BY DEF SignInv, Carries
    <3> QED
      BY <3>1, <3>2 DEF Carries
  <2> QED
    BY <2>1, <2>2
<1>4. PermitsBack'
  BY PermitsAfter DEF SignInv, SignTypeOK
<1> QED
  BY <1>2, <1>3, <1>4 DEF SignInv

\* No attempt gets to the exchange: at most one session still.
LEMMA SessionKept ==
  ASSUME OneSession, NEW a \in Attempts, NEW x, NEW y, Turns(a, x, y), y.pc # "exchange",
         transaction' = transaction, signed_in' = signed_in
  PROVE  OneSession'
<1>1. \A b \in Attempts : attempt'[b].pc = "exchange" => attempt[b].pc = "exchange"
  BY DEF Turns
<1> QED
  BY <1>1 DEF OneSession

\* A step that fails the attempt.
LEMMA FailKeeps ==
  ASSUME SignInv, NEW a \in Attempts, attempt[a].pc \in {"present", "exchange", "locked", "enter", "verify"},
         attempt' = [attempt EXCEPT ![a].pc = "load_window"], Failing(a),
         served' = served, clock' = clock, account' \in [window_start : Nat, failures : Nat],
         in_flight' = in_flight, budget' = budget, written' = written,
         transaction' = transaction, signed_in' = signed_in
  PROVE  SignInv'
<1>0. PICK x \in AttemptType : x = attempt[a]
  BY DEF SignInv, SignTypeOK
<1> DEFINE y == [x EXCEPT !.pc = "load_window"]
<1>1. /\ y \in AttemptType /\ y.pc = "load_window" /\ y.at = x.at /\ y.now = x.now /\ y.slot = x.slot
      /\ y.rolled = x.rolled /\ y.record = x.record
  BY DEF AttemptType, Uncounted
<1>2. Fits(x, clock) /\ x.pc \in {"present", "exchange", "locked", "enter", "verify"} /\ x.rolled \in Nat
      /\ x.now \in Nat /\ x.at \in Endpoints
  BY <1>0 DEF SignInv, Carries, AttemptType
<1>3. Turns(a, x, y)
  BY <1>0, <1>1 DEF Turns, SignInv, SignTypeOK
<1> HIDE DEF y
<1>4. Fits(y, clock)
  BY <1>1, <1>2 DEF Fits
<1>5. failed' = [failed EXCEPT ![x.at] = @ + 1] /\ failed' \in [Endpoints -> Nat]
  BY <1>0, <1>2 DEF Failing, E, SignInv, SignTypeOK
<1>6. ASSUME NEW e \in Endpoints PROVE Books(e)'
  <2>1. x.pc \notin Uncounted /\ x.pc # "write"
    BY <1>2 DEF Uncounted
  <2> QED
    BY <1>1, <1>3, <1>5, <2>1, FailBooks DEF SignInv
<1>7. OneSession'
  BY <1>1, <1>3, SessionKept DEF SignInv
<1>8. Bit(x.slot) = Bit(y.slot) /\ Bit(x.slot) \in Nat
  BY <1>1 DEF Bit
<1> QED
  BY <1>1, <1>3, <1>4, <1>5, <1>6, <1>7, <1>8, MoveKeeps DEF SignInv, SignTypeOK, PermitsBack

\* Two places of an attempt that the books do not tell apart.
Alike(x, y, e) ==
  /\ (x.at = e /\ x.pc \in Uncounted) <=> (y.at = e /\ y.pc \in Uncounted)
  /\ (x.at = e /\ x.pc = "write" /\ x.record) <=> (y.at = e /\ y.pc = "write" /\ y.record)
  /\ (x.at = e /\ x.pc \in {"swap", "reset"}) <=> (y.at = e /\ y.pc \in {"swap", "reset"})
  /\ (IF x.at = e THEN x.rolled ELSE 0) = (IF y.at = e THEN y.rolled ELSE 0)

\* A step that the books do not tell.
LEMMA QuietKeeps ==
  ASSUME SignInv, NEW a \in Attempts, NEW x, NEW y, Turns(a, x, y), \A e \in Endpoints : Alike(x, y, e),
         Fits(y, clock), OneSession', served' = served, clock' = clock,
         account' \in [window_start : Nat, failures : Nat], in_flight' \in Nat,
         transaction' \in BOOLEAN, signed_in' \in Nat, budget' = budget, written' = written, failed' = failed,
         in_flight' + Bit(x.slot) = in_flight + Bit(y.slot), in_flight' <= MAX_CONCURRENT_PASSWORD_CHECKS
  PROVE  SignInv'
<1>1. ASSUME NEW e \in Endpoints PROVE Books(e)'
  BY QuietBooks DEF Alike, SignInv
<1> QED
  BY <1>1, MoveKeeps DEF SignInv, SignTypeOK


\* An attempt at rest adds nothing to any book.
LEMMA RestAlike ==
  ASSUME NEW x \in AttemptType, x.pc \notin Uncounted, x.pc # "write", x.rolled = 0
  PROVE  /\ AtRest \in AttemptType /\ Fits(AtRest, 0) /\ \A e \in Endpoints : Alike(x, AtRest, e)
         /\ AtRest.pc = "idle" /\ ~AtRest.slot /\ AtRest.rolled = 0
<1>1. AtRest \in AttemptType
  BY DEF AtRest, AttemptType, Endpoints, Uncounted
<1>2. /\ AtRest.pc = "idle" /\ AtRest.slot = FALSE /\ AtRest.rolled = 0 /\ AtRest.record = FALSE /\ AtRest.now = 0
  BY DEF AtRest
<1>3. Fits(AtRest, 0)
  BY <1>2 DEF Fits
<1>4. \A e \in Endpoints : Alike(x, AtRest, e)
  BY <1>2 DEF Alike, Uncounted
<1> QED
  BY <1>1, <1>2, <1>3, <1>4

\* Begin: an attempt reads the clock.
LEMMA BeginKeeps ==
  ASSUME SignInv, NEW a \in Attempts, NEW e \in served, Begin(a, e)
  PROVE  SignInv'
<1>0. PICK x \in AttemptType : x = attempt[a]
  BY DEF SignInv, SignTypeOK
<1> DEFINE p == IF e = "password" THEN "locked" ELSE "present"
           y == [AtRest EXCEPT !.at = e, !.now = clock, !.pc = p]
<1>1. /\ y \in AttemptType /\ y.pc = p /\ y.now = clock /\ y.slot = FALSE
      /\ y.rolled = 0 /\ y.record = FALSE
  BY DEF AtRest, AttemptType, SignInv, SignTypeOK
<1>2. Fits(x, clock) /\ x.pc = "idle" /\ x.rolled \in Nat
  BY <1>0 DEF SignInv, Carries, AttemptType, Begin, In
<1>3. Turns(a, x, y)
  BY <1>0, <1>1 DEF Turns, SignInv, SignTypeOK, Begin
<1>4. p \in {"locked", "present"}
  OBVIOUS
<1> HIDE DEF y, p
<1>5. Fits(y, clock)
  BY <1>1, <1>4 DEF Fits, SignInv, SignTypeOK
<1>6. \A f \in Endpoints : Alike(x, y, f)
  BY <1>1, <1>2, <1>4 DEF Alike, Fits, Uncounted
<1>7. OneSession'
  BY <1>1, <1>3, <1>4, SessionKept DEF SignInv, Begin
<1>8. Bit(x.slot) = 0 /\ Bit(y.slot) = 0
  BY <1>1, <1>2 DEF Bit, Fits
<1> QED
  BY <1>1, <1>3, <1>5, <1>6, <1>7, <1>8, QuietKeeps DEF SignInv, SignTypeOK, PermitsBack, Begin, throttle

\* BreakGlass: the token is right.
LEMMA BreakGlassKeeps ==
  ASSUME SignInv, NEW a \in Attempts, BreakGlass(a)
  PROVE  SignInv'
<1>0. PICK x \in AttemptType : x = attempt[a]
  BY DEF SignInv, SignTypeOK
<1>2. Fits(x, clock) /\ x.pc = "present" /\ x.rolled \in Nat /\ clock \in Nat
  BY <1>0 DEF SignInv, Carries, AttemptType, BreakGlass, In, SignTypeOK
<1>3. /\ AtRest \in AttemptType /\ Fits(AtRest, 0) /\ \A e \in Endpoints : Alike(x, AtRest, e)
      /\ AtRest.pc = "idle" /\ ~AtRest.slot
  BY <1>2, RestAlike DEF Fits, Uncounted
<1>4. Turns(a, x, AtRest)
  BY <1>0, <1>3 DEF Turns, SignInv, SignTypeOK, BreakGlass
<1>5. Fits(AtRest, clock)
  BY <1>2, <1>3 DEF Fits, AtRest
<1>7. OneSession'
  BY <1>3, <1>4, SessionKept DEF SignInv, BreakGlass
<1>8. Bit(x.slot) = 0 /\ Bit(AtRest.slot) = 0
  BY <1>2, <1>3 DEF Bit, Fits
<1> QED
  BY <1>3, <1>4, <1>5, <1>7, <1>8, QuietKeeps DEF SignInv, SignTypeOK, PermitsBack, BreakGlass, throttle

\* Take: the first call-back has the transaction, and it alone.
LEMMA TakeKeeps ==
  ASSUME SignInv, NEW a \in Attempts, Take(a)
  PROVE  SignInv'
<1>1. CASE ~transaction
  <2>1. transaction' = transaction
    BY <1>1 DEF Take, SignInv, SignTypeOK
  <2> QED
    BY <1>1, <2>1, FailKeeps DEF Take, In, throttle, SignInv, SignTypeOK
<1>2. CASE transaction
  <2>0. PICK x \in AttemptType : x = attempt[a]
    BY DEF SignInv, SignTypeOK
  <2> DEFINE y == [x EXCEPT !.pc = "exchange"]
  <2>1. /\ y \in AttemptType /\ y.pc = "exchange" /\ y.at = x.at /\ y.now = x.now /\ y.slot = x.slot
        /\ y.rolled = x.rolled /\ y.record = x.record
    BY DEF AttemptType
  <2>2. Fits(x, clock) /\ x.pc = "present" /\ x.rolled \in Nat
    BY <2>0 DEF SignInv, Carries, AttemptType, Take, In
  <2>3. Turns(a, x, y)
    BY <1>2, <2>0, <2>1 DEF Turns, SignInv, SignTypeOK, Take
  <2> HIDE DEF y
  <2>5. Fits(y, clock)
    BY <2>1, <2>2 DEF Fits
  <2>6. \A f \in Endpoints : Alike(x, y, f)
    BY <2>1, <2>2 DEF Alike, Uncounted
  <2>7. OneSession'
    <3>1. \A b \in Attempts : attempt'[b].pc = "exchange" => b = a
      BY <1>2, <2>3 DEF OneSession, SignInv, Turns
    <3>2. transaction' = FALSE /\ signed_in' = 0
      BY <1>2 DEF Take, OneSession, SignInv
    <3> QED
      BY <3>1, <3>2 DEF OneSession
  <2>8. Bit(x.slot) = 0 /\ Bit(y.slot) = 0
    BY <2>1, <2>2 DEF Bit, Fits
  <2> QED
    BY <1>2, <2>3, <2>5, <2>6, <2>7, <2>8, QuietKeeps DEF SignInv, SignTypeOK, PermitsBack, Take, throttle
<1> QED
  BY <1>1, <1>2

\* Exchange: a session, or a failure; the transaction is gone either way.
LEMMA ExchangeKeeps ==
  ASSUME SignInv, NEW a \in Attempts, NEW good \in BOOLEAN, Exchange(a, good)
  PROVE  SignInv'
<1>1. CASE ~good
  BY <1>1, FailKeeps DEF Exchange, In, throttle, SignInv, SignTypeOK
<1>2. CASE good
  <2>0. PICK x \in AttemptType : x = attempt[a]
    BY DEF SignInv, SignTypeOK
  <2>2. Fits(x, clock) /\ x.pc = "exchange" /\ x.rolled \in Nat /\ clock \in Nat
    BY <2>0 DEF SignInv, Carries, AttemptType, Exchange, In, SignTypeOK
  <2>3. /\ AtRest \in AttemptType /\ Fits(AtRest, 0) /\ \A e \in Endpoints : Alike(x, AtRest, e)
        /\ AtRest.pc = "idle" /\ ~AtRest.slot
    BY <2>2, RestAlike DEF Fits, Uncounted
  <2>4. Turns(a, x, AtRest)
    BY <1>2, <2>0, <2>3 DEF Turns, SignInv, SignTypeOK, Exchange
  <2>5. Fits(AtRest, clock)
    BY <2>2, <2>3 DEF Fits, AtRest
  <2>7. OneSession'
    <3>1. \A b \in Attempts : attempt'[b].pc # "exchange"
      BY <2>0, <2>2, <2>3, <2>4 DEF OneSession, SignInv, Turns
    <3>2. transaction' = FALSE /\ signed_in' = 1
      BY <1>2, <2>0, <2>2 DEF Exchange, OneSession, SignInv, SignTypeOK
    <3> QED
      BY <3>1, <3>2 DEF OneSession
  <2>8. Bit(x.slot) = 0 /\ Bit(AtRest.slot) = 0
    BY <2>2, <2>3 DEF Bit, Fits
  <2> QED
    BY <1>2, <2>3, <2>4, <2>5, <2>7, <2>8, QuietKeeps DEF SignInv, SignTypeOK, PermitsBack, Exchange, throttle
<1> QED
  BY <1>1, <1>2


\* CheckLocked: the window is looked at before a permit is asked for.
LEMMA CheckLockedKeeps ==
  ASSUME SignInv, NEW a \in Attempts, CheckLocked(a)
  PROVE  SignInv'
<1>1. CASE Locked(attempt[a].now)
  BY <1>1, FailKeeps DEF CheckLocked, In, throttle, SignInv, SignTypeOK
<1>2. CASE ~Locked(attempt[a].now)
  <2>0. PICK x \in AttemptType : x = attempt[a]
    BY DEF SignInv, SignTypeOK
  <2> DEFINE y == [x EXCEPT !.pc = "enter"]
  <2>1. /\ y \in AttemptType /\ y.pc = "enter" /\ y.at = x.at /\ y.now = x.now /\ y.slot = x.slot
        /\ y.rolled = x.rolled /\ y.record = x.record
    BY DEF AttemptType
  <2>2. Fits(x, clock) /\ x.pc = "locked" /\ x.rolled \in Nat
    BY <2>0 DEF SignInv, Carries, AttemptType, CheckLocked, In
  <2>3. Turns(a, x, y)
    BY <1>2, <2>0, <2>1 DEF Turns, SignInv, SignTypeOK, CheckLocked
  <2> HIDE DEF y
  <2>5. Fits(y, clock)
    BY <2>1, <2>2 DEF Fits
  <2>6. \A f \in Endpoints : Alike(x, y, f)
    BY <2>1, <2>2 DEF Alike, Uncounted
  <2>7. OneSession'
    BY <2>1, <2>3, SessionKept DEF SignInv, CheckLocked
  <2>8. Bit(x.slot) = 0 /\ Bit(y.slot) = 0
    BY <2>1, <2>2 DEF Bit, Fits
  <2> QED
    BY <1>2, <2>3, <2>5, <2>6, <2>7, <2>8, QuietKeeps DEF SignInv, SignTypeOK, PermitsBack, CheckLocked, throttle
<1> QED
  BY <1>1, <1>2

\* Enter: a permit for the attempt, or a failure.
LEMMA EnterKeeps ==
  ASSUME SignInv, NEW a \in Attempts, Enter(a)
  PROVE  SignInv'
<1>1. CASE ~(in_flight < MAX_CONCURRENT_PASSWORD_CHECKS)
  BY <1>1, FailKeeps DEF Enter, In, throttle, SignInv, SignTypeOK
<1>2. CASE in_flight < MAX_CONCURRENT_PASSWORD_CHECKS
  <2>0. PICK x \in AttemptType : x = attempt[a]
    BY DEF SignInv, SignTypeOK
  <2> DEFINE y == [x EXCEPT !.pc = "verify", !.slot = TRUE]
  <2>1. /\ y \in AttemptType /\ y.pc = "verify" /\ y.at = x.at /\ y.now = x.now /\ y.slot = TRUE
        /\ y.rolled = x.rolled /\ y.record = x.record
    BY DEF AttemptType
  <2>2. Fits(x, clock) /\ x.pc = "enter" /\ x.rolled \in Nat
    BY <2>0 DEF SignInv, Carries, AttemptType, Enter, In
  <2>3. Turns(a, x, y)
    BY <1>2, <2>0, <2>1 DEF Turns, SignInv, SignTypeOK, Enter
  <2> HIDE DEF y
  <2>5. Fits(y, clock)
    BY <2>1, <2>2 DEF Fits
  <2>6. \A f \in Endpoints : Alike(x, y, f)
    BY <2>1, <2>2 DEF Alike, Uncounted
  <2>7. OneSession'
    BY <2>1, <2>3, SessionKept DEF SignInv, Enter
  <2>8. Bit(x.slot) = 0 /\ Bit(y.slot) = 1
    BY <2>1, <2>2 DEF Bit, Fits
  <2>9. in_flight' = in_flight + 1 /\ in_flight \in Nat /\ in_flight' <= MAX_CONCURRENT_PASSWORD_CHECKS
    BY <1>2, SignAssumption DEF Enter, SignInv, SignTypeOK
  <2> QED
    BY <1>2, <2>3, <2>5, <2>6, <2>7, <2>8, <2>9, QuietKeeps DEF SignInv, SignTypeOK, Enter
<1> QED
  BY <1>1, <1>2

\* WrongPassword: the failure is entered in the account's window.
LEMMA WrongPasswordKeeps ==
  ASSUME SignInv, NEW a \in Attempts, WrongPassword(a)
  PROVE  SignInv'
<1>0. PICK x \in AttemptType : x = attempt[a]
  BY DEF SignInv, SignTypeOK
<1>1. PICK c \in [window_start : Nat, failures : Nat] : c = account
  BY DEF SignInv, SignTypeOK
<1>2. account' \in [window_start : Nat, failures : Nat]
  <2>1. x.now \in Nat
    BY DEF AttemptType
  <2>2. [c EXCEPT !.failures = c.failures + 1] \in [window_start : Nat, failures : Nat]
    OBVIOUS
  <2> QED
    BY <1>0, <1>1, <2>1, <2>2 DEF WrongPassword, RecordFailure
<1> QED
  BY <1>2, FailKeeps DEF WrongPassword, In

\* RightPassword: the window is forgotten and the permit comes back.
LEMMA RightPasswordKeeps ==
  ASSUME SignInv, NEW a \in Attempts, NEW bound \in BOOLEAN, RightPassword(a, bound)
  PROVE  SignInv'
<1>1. CASE ~bound
  BY <1>1, FailKeeps DEF RightPassword, In, throttle, SignInv, SignTypeOK
<1>2. CASE bound
  <2>0. PICK x \in AttemptType : x = attempt[a]
    BY DEF SignInv, SignTypeOK
  <2>1. account' \in [window_start : Nat, failures : Nat]
    BY <1>2 DEF RightPassword, SignInv, SignTypeOK
  <2>2. Fits(x, clock) /\ x.pc = "verify" /\ x.rolled \in Nat /\ clock \in Nat
    BY <2>0 DEF SignInv, Carries, AttemptType, RightPassword, In, SignTypeOK
  <2>3. /\ AtRest \in AttemptType /\ Fits(AtRest, 0) /\ \A e \in Endpoints : Alike(x, AtRest, e)
        /\ AtRest.pc = "idle" /\ ~AtRest.slot
    BY <2>2, RestAlike DEF Fits, Uncounted
  <2>4. Turns(a, x, AtRest)
    BY <1>2, <2>0, <2>3 DEF Turns, SignInv, SignTypeOK, RightPassword
  <2>5. Fits(AtRest, clock)
    BY <2>2, <2>3 DEF Fits, AtRest
  <2>7. OneSession'
    BY <2>3, <2>4, SessionKept DEF SignInv, RightPassword
  <2>8. Bit(x.slot) = 1 /\ Bit(AtRest.slot) = 0
    BY <2>2, <2>3 DEF Bit, Fits
  <2>9. /\ in_flight' = in_flight - 1 /\ in_flight \in Nat /\ in_flight' \in Nat
        /\ in_flight' <= MAX_CONCURRENT_PASSWORD_CHECKS
    <3>1. Permits \in SUBSET Attempts /\ a \in Permits
      BY <2>0, <2>2 DEF Permits, Fits
    <3>2. IsFiniteSet(Permits) /\ Cardinality(Permits) \in Nat /\ Cardinality(Permits) # 0
      BY <3>1, SignAssumption, FS_Subset, FS_EmptySet, FS_CardinalityType
    <3>3. in_flight' = in_flight - 1 /\ MAX_CONCURRENT_PASSWORD_CHECKS \in Nat
      BY <1>2, SignAssumption DEF RightPassword
    <3>4. in_flight = Cardinality(Permits) /\ in_flight <= MAX_CONCURRENT_PASSWORD_CHECKS
      BY DEF SignInv, PermitsBack
    <3> QED
      BY <3>2, <3>3, <3>4
  <2> QED
    BY <1>2, <2>1, <2>3, <2>4, <2>5, <2>7, <2>8, <2>9, QuietKeeps DEF SignInv, SignTypeOK, RightPassword
<1> QED
  BY <1>1, <1>2

\* LoadWindow: the thread reads when the window began, and the clock.
LEMMA LoadWindowKeeps ==
  ASSUME SignInv, NEW a \in Attempts, LoadWindow(a)
  PROVE  SignInv'
<1>0. PICK x \in AttemptType : x = attempt[a]
  BY DEF SignInv, SignTypeOK
<1> DEFINE s == budget[x.at].window_start
           p == IF clock - s >= ANONYMOUS_AUDIT_WINDOW_MILLIS THEN "roll" ELSE "count"
           y == [x EXCEPT !.start = s, !.now = clock, !.pc = p]
<1>1. s \in Nat /\ clock \in Nat /\ p \in {"roll", "count"}
  BY DEF SignInv, SignTypeOK, AttemptType
<1>2. /\ y \in AttemptType /\ y.pc = p /\ y.at = x.at /\ y.now = clock /\ y.start = s /\ y.slot = x.slot
      /\ y.rolled = x.rolled /\ y.record = x.record
  BY <1>1 DEF AttemptType, Uncounted
<1>3. Fits(x, clock) /\ x.pc = "load_window" /\ x.rolled \in Nat
  BY <1>0 DEF SignInv, Carries, AttemptType, LoadWindow, In
<1>4. Turns(a, x, y)
  BY <1>0, <1>2 DEF Turns, SignInv, SignTypeOK, LoadWindow, E
<1>5. p = "roll" => s + ANONYMOUS_AUDIT_WINDOW_MILLIS <= clock
  BY <1>1, SignAssumption
<1> HIDE DEF y, p, s
<1>6. Fits(y, clock)
  BY <1>1, <1>2, <1>3, <1>5 DEF Fits
<1>7. \A f \in Endpoints : Alike(x, y, f)
  BY <1>1, <1>2, <1>3 DEF Alike, Uncounted, Fits
<1>8. OneSession'
  BY <1>1, <1>2, <1>4, SessionKept DEF SignInv, LoadWindow
<1>9. Bit(x.slot) = Bit(y.slot) /\ Bit(x.slot) \in Nat
  BY <1>2 DEF Bit
<1> QED
  BY <1>4, <1>6, <1>7, <1>8, <1>9, QuietKeeps DEF SignInv, SignTypeOK, PermitsBack, LoadWindow, throttle


\* A step of `admit` that touches one endpoint's books.
LEMMA AdmitKeeps ==
  ASSUME SignInv, NEW a \in Attempts, NEW x, NEW y, Turns(a, x, y), Fits(y, clock), y.pc # "exchange",
         served' = served, clock' = clock, account' = account, transaction' = transaction,
         signed_in' = signed_in, failed' = failed, in_flight' \in Nat,
         in_flight' + Bit(x.slot) = in_flight + Bit(y.slot), in_flight' <= MAX_CONCURRENT_PASSWORD_CHECKS,
         budget' \in [Endpoints -> [window_start : Nat, recorded : Nat, suppressed : Nat]],
         written' \in [Endpoints -> [single : Nat, summed : Nat, windows : Nat]],
         \A e \in Endpoints : e # x.at => Alike(x, y, e) /\ budget'[e] = budget[e] /\ written'[e] = written[e],
         Books(x.at)'
  PROVE  SignInv'
<1>1. ASSUME NEW e \in Endpoints PROVE Books(e)'
  <2>1. CASE e = x.at
    BY <2>1
  <2>2. CASE e # x.at
    BY <2>2, QuietBooks DEF Alike, SignInv
  <2> QED
    BY <2>1, <2>2
<1>2. OneSession'
  BY SessionKept DEF SignInv
<1> QED
  BY <1>1, <1>2, MoveKeeps DEF SignInv, SignTypeOK

\* Roll: a window is begun when the last is over, by one thread.
LEMMA RollKeeps ==
  ASSUME SignInv, NEW a \in Attempts, Roll(a)
  PROVE  SignInv'
<1>0. PICK x \in AttemptType : x = attempt[a]
  BY DEF SignInv, SignTypeOK
<1> DEFINE won == budget[x.at].window_start = x.start
           p == IF won THEN "swap" ELSE "count"
           y == [x EXCEPT !.pc = p]
<1>1. p \in {"swap", "count"} /\ (won => p = "swap") /\ (~won => p = "count")
  OBVIOUS
<1>2. /\ y \in AttemptType /\ y.pc = p /\ y.at = x.at /\ y.now = x.now /\ y.start = x.start /\ y.slot = x.slot
      /\ y.rolled = x.rolled /\ y.record = x.record
  BY <1>1 DEF AttemptType, Uncounted
<1>3. Fits(x, clock) /\ x.pc = "roll" /\ x.rolled \in Nat /\ x.now \in Nat /\ x.start \in Nat /\ x.at \in Endpoints
  BY <1>0 DEF SignInv, Carries, AttemptType, Roll, In
<1>4. Turns(a, x, y)
  BY <1>0, <1>2 DEF Turns, SignInv, SignTypeOK, Roll, E
<1> HIDE DEF y, p
<1>5. x.rolled = 0 /\ x.record = FALSE
  BY <1>3 DEF Fits, AttemptType
<1>6. Fits(y, clock) /\ y.pc # "exchange"
  BY <1>1, <1>2, <1>3, <1>5 DEF Fits
<1>7. Bit(x.slot) = Bit(y.slot) /\ Bit(x.slot) \in Nat
  BY <1>2 DEF Bit
<1>8. CASE ~won
  <2>1. \A f \in Endpoints : Alike(x, y, f)
    BY <1>1, <1>2, <1>3, <1>8 DEF Alike, Uncounted
  <2>2. budget' = budget /\ written' = written
    BY <1>0, <1>8 DEF Roll, E
  <2>3. OneSession'
    BY <1>4, <1>6, SessionKept DEF SignInv, Roll
  <2> QED
    BY <1>4, <1>6, <1>7, <2>1, <2>2, <2>3, QuietKeeps DEF SignInv, SignTypeOK, PermitsBack, Roll, throttle
<1>9. CASE won
  <2> DEFINE e == x.at
  <2>0. /\ budget' = [budget EXCEPT ![e] = [budget[e] EXCEPT !.window_start = x.now]]
        /\ written' = [written EXCEPT ![e] = [written[e] EXCEPT !.windows = written[e].windows + 1]]
    BY <1>0, <1>9 DEF Roll, E
  <2>1. /\ budget' \in [Endpoints -> [window_start : Nat, recorded : Nat, suppressed : Nat]]
        /\ written' \in [Endpoints -> [single : Nat, summed : Nat, windows : Nat]]
    <3>1. PICK b \in [window_start : Nat, recorded : Nat, suppressed : Nat] : b = budget[e]
      BY <1>3 DEF SignInv, SignTypeOK
    <3>2. PICK r \in [single : Nat, summed : Nat, windows : Nat] : r = written[e]
      BY <1>3 DEF SignInv, SignTypeOK
    <3>3. [b EXCEPT !.window_start = x.now] \in [window_start : Nat, recorded : Nat, suppressed : Nat]
      BY <1>3
    <3>4. [r EXCEPT !.windows = r.windows + 1] \in [single : Nat, summed : Nat, windows : Nat]
      OBVIOUS
    <3> QED
      BY <1>3, <2>0, <3>1, <3>2, <3>3, <3>4 DEF SignInv, SignTypeOK
  <2>2. /\ budget'[e].window_start = x.now /\ budget'[e].recorded = budget[e].recorded
        /\ budget'[e].suppressed = budget[e].suppressed
        /\ written'[e].windows = written[e].windows + 1
        /\ written'[e].single = written[e].single /\ written'[e].summed = written[e].summed
    BY <1>3, <2>0 DEF SignInv, SignTypeOK
  <2>3. \A f \in Endpoints : f # x.at => Alike(x, y, f) /\ budget'[f] = budget[f] /\ written'[f] = written[f]
    BY <1>1, <1>2, <1>3, <2>0, <1>9 DEF Alike, Uncounted, SignInv, SignTypeOK
  <2>4. Windows(e)'
    <3> DEFINE n == written[e].windows
               W == ANONYMOUS_AUDIT_WINDOW_MILLIS
    <3>1. n \in Nat /\ W \in Nat /\ n * W <= x.start /\ x.start + W <= x.now /\ x.now <= clock
      BY <1>3, <1>9, SignAssumption DEF SignInv, SignTypeOK, Books, Windows, Fits
    <3>2. n * W \in Nat /\ (n + 1) * W = n * W + W
      BY <3>1
    <3>3. (n + 1) * W <= x.now
      BY <1>3, <3>1, <3>2
    <3> QED
      BY <2>2, <3>1, <3>3 DEF Windows, Roll
  <2>5. Room(e)' = Room(e)
    BY <2>2 DEF Room
  <2>6. /\ IsOpen(x, e) = 1 /\ IsOpen(y, e) = 1 /\ IsToWrite(x, e) = 0 /\ IsToWrite(y, e) = 0
        /\ IsTurning(x, e) = 0 /\ IsTurning(y, e) = 1 /\ Held(x, e) = 0 /\ Held(y, e) = 0
    BY <1>1, <1>2, <1>3, <1>5, <1>9 DEF IsOpen, IsToWrite, IsTurning, Held, Bit, Uncounted
  <2>7. Books(e)'
    <3> DEFINE M == MAX_ANONYMOUS_AUDITS_PER_WINDOW
               n == written[e].windows
    <3>0. M \in Nat /\ Room(e) \in Nat /\ n \in Nat /\ written[e].single \in Nat /\ written[e].summed \in Nat
          /\ budget[e].suppressed \in Nat
      BY <1>3, SignAssumption DEF Room, SignInv, SignTypeOK
    <3>1. M * (n + 1) = M * n + M /\ M * n \in Nat /\ M * 0 = 0 /\ M * 1 = M
      BY <3>0
    <3>2. written'[e].single + IsToWrite(y, e) + M * IsTurning(y, e) + Room(e)' + M * n
            <= written[e].single + IsToWrite(x, e) + M * IsTurning(x, e) + Room(e) + M * written'[e].windows
      BY <2>2, <2>5, <2>6, <3>0, <3>1
    <3>3. written'[e].single + written'[e].summed + budget'[e].suppressed + Held(y, e) + IsOpen(y, e) + IsToWrite(y, e)
           = written[e].single + written[e].summed + budget[e].suppressed + Held(x, e) + IsOpen(x, e) + IsToWrite(x, e)
      BY <2>2, <2>6, <3>0
    <3>4. failed'[e] = failed[e]
      BY DEF Roll
    <3>5. /\ budget'[e] \in [window_start : Nat, recorded : Nat, suppressed : Nat]
          /\ written'[e] \in [single : Nat, summed : Nat, windows : Nat]
      BY <1>3, <2>1
    <3> HIDE DEF e
    <3> QED
      BY <1>3, <1>4, <2>4, <3>2, <3>3, <3>4, <3>5, BooksAfter DEF SignInv, e
  <2> QED
    BY <1>4, <1>6, <1>7, <2>1, <2>3, <2>7, AdmitKeeps DEF SignInv, SignTypeOK, PermitsBack, Roll, throttle
<1> QED
  BY <1>8, <1>9


\* SwapSuppressed: the count is taken, and is with the thread.
LEMMA SwapSuppressedKeeps ==
  ASSUME SignInv, NEW a \in Attempts, SwapSuppressed(a)
  PROVE  SignInv'
<1>0. PICK x \in AttemptType : x = attempt[a]
  BY DEF SignInv, SignTypeOK
<1>1. Fits(x, clock) /\ x.pc = "swap" /\ x.rolled \in Nat /\ x.at \in Endpoints
  BY <1>0 DEF SignInv, Carries, AttemptType, SwapSuppressed, In
<1> DEFINE e == x.at
<1>2. PICK b \in [window_start : Nat, recorded : Nat, suppressed : Nat] : b = budget[e]
  BY <1>1 DEF SignInv, SignTypeOK
<1> DEFINE y == [x EXCEPT !.pc = "reset", !.rolled = b.suppressed]
           c == [b EXCEPT !.suppressed = 0]
<1>3. /\ y \in AttemptType /\ y.pc = "reset" /\ y.at = x.at /\ y.now = x.now /\ y.slot = x.slot
      /\ y.rolled = b.suppressed /\ y.record = x.record
  BY DEF AttemptType, Uncounted
<1>4. /\ c \in [window_start : Nat, recorded : Nat, suppressed : Nat]
      /\ c.window_start = b.window_start /\ c.recorded = b.recorded /\ c.suppressed = 0
  OBVIOUS
<1>5. Turns(a, x, y)
  BY <1>0, <1>2, <1>3 DEF Turns, SignInv, SignTypeOK, SwapSuppressed, E
<1>6. budget' = [budget EXCEPT ![e] = c]
  BY <1>0, <1>2 DEF SwapSuppressed, E
<1> HIDE DEF y, c
<1>7. /\ budget' \in [Endpoints -> [window_start : Nat, recorded : Nat, suppressed : Nat]]
      /\ budget'[e] = c /\ \A f \in Endpoints : f # e => budget'[f] = budget[f]
  BY <1>1, <1>4, <1>6 DEF SignInv, SignTypeOK
<1>8. x.rolled = 0 /\ x.record = FALSE
  BY <1>1 DEF Fits, AttemptType
<1>9. Fits(y, clock) /\ y.pc # "exchange"
  BY <1>1, <1>3, <1>8 DEF Fits
<1>10. Bit(x.slot) = Bit(y.slot) /\ Bit(x.slot) \in Nat
  BY <1>3 DEF Bit
<1>11. \A f \in Endpoints : f # x.at => Alike(x, y, f) /\ budget'[f] = budget[f] /\ written'[f] = written[f]
  BY <1>3, <1>7 DEF Alike, SwapSuppressed
<1>12. /\ IsOpen(x, e) = 1 /\ IsOpen(y, e) = 1 /\ IsToWrite(x, e) = 0 /\ IsToWrite(y, e) = 0
       /\ IsTurning(x, e) = 1 /\ IsTurning(y, e) = 1 /\ Held(x, e) = 0 /\ Held(y, e) = b.suppressed
  BY <1>1, <1>3, <1>8 DEF IsOpen, IsToWrite, IsTurning, Held, Bit, Uncounted
<1>13. Books(e)'
  <2>0. written' = written /\ failed' = failed /\ clock' = clock
    BY DEF SwapSuppressed
  <2>1. written'[e] = written[e] /\ failed'[e] = failed[e] /\ Room(e)' = Room(e)
        /\ written[e] \in [single : Nat, summed : Nat, windows : Nat]
    BY <1>1, <1>2, <1>4, <1>7, <2>0 DEF Room, SignInv, SignTypeOK
  <2>2. Windows(e)'
    BY <1>1, <1>2, <1>4, <1>7, <2>0 DEF Windows, Books, SignInv
  <2>3. written'[e].single + written'[e].summed + budget'[e].suppressed + Held(y, e) + IsOpen(y, e) + IsToWrite(y, e)
         = written[e].single + written[e].summed + budget[e].suppressed + Held(x, e) + IsOpen(x, e) + IsToWrite(x, e)
    BY <1>2, <1>4, <1>7, <1>12, <2>1
  <2>4. MAX_ANONYMOUS_AUDITS_PER_WINDOW \in Nat /\ Room(e) \in Nat
    BY <1>1, SignAssumption DEF Room, SignInv, SignTypeOK
  <2>5. written'[e].single + IsToWrite(y, e) + MAX_ANONYMOUS_AUDITS_PER_WINDOW * IsTurning(y, e) + Room(e)'
             + MAX_ANONYMOUS_AUDITS_PER_WINDOW * written[e].windows
         <= written[e].single + IsToWrite(x, e) + MAX_ANONYMOUS_AUDITS_PER_WINDOW * IsTurning(x, e) + Room(e)
             + MAX_ANONYMOUS_AUDITS_PER_WINDOW * written'[e].windows
    BY <1>12, <2>1, <2>4
  <2>6. budget'[e] \in [window_start : Nat, recorded : Nat, suppressed : Nat]
    BY <1>4, <1>7
  <2> HIDE DEF e
  <2> QED
    BY <1>1, <1>5, <2>1, <2>2, <2>3, <2>5, <2>6, BooksAfter DEF SignInv, e
<1> QED
  BY <1>5, <1>7, <1>9, <1>10, <1>11, <1>13, AdmitKeeps DEF SignInv, SignTypeOK, PermitsBack, SwapSuppressed, throttle

\* ResetRecorded: the room the new window has is there.
LEMMA ResetRecordedKeeps ==
  ASSUME SignInv, NEW a \in Attempts, ResetRecorded(a)
  PROVE  SignInv'
<1>0. PICK x \in AttemptType : x = attempt[a]
  BY DEF SignInv, SignTypeOK
<1>1. Fits(x, clock) /\ x.pc = "reset" /\ x.rolled \in Nat /\ x.at \in Endpoints
  BY <1>0 DEF SignInv, Carries, AttemptType, ResetRecorded, In
<1> DEFINE e == x.at
<1>2. PICK b \in [window_start : Nat, recorded : Nat, suppressed : Nat] : b = budget[e]
  BY <1>1 DEF SignInv, SignTypeOK
<1> DEFINE y == [x EXCEPT !.pc = "count"]
           c == [b EXCEPT !.recorded = 0]
<1>3. /\ y \in AttemptType /\ y.pc = "count" /\ y.at = x.at /\ y.now = x.now /\ y.slot = x.slot
      /\ y.rolled = x.rolled /\ y.record = x.record
  BY DEF AttemptType, Uncounted
<1>4. /\ c \in [window_start : Nat, recorded : Nat, suppressed : Nat]
      /\ c.window_start = b.window_start /\ c.recorded = 0 /\ c.suppressed = b.suppressed
  OBVIOUS
<1>5. Turns(a, x, y)
  BY <1>0, <1>2, <1>3 DEF Turns, SignInv, SignTypeOK, ResetRecorded, E
<1>6. budget' = [budget EXCEPT ![e] = c]
  BY <1>0, <1>2 DEF ResetRecorded, E
<1> HIDE DEF y, c
<1>7. /\ budget' \in [Endpoints -> [window_start : Nat, recorded : Nat, suppressed : Nat]]
      /\ budget'[e] = c /\ \A f \in Endpoints : f # e => budget'[f] = budget[f]
  BY <1>1, <1>4, <1>6 DEF SignInv, SignTypeOK
<1>8. x.record = FALSE
  BY <1>1 DEF Fits, AttemptType
<1>9. Fits(y, clock) /\ y.pc # "exchange"
  BY <1>1, <1>3, <1>8 DEF Fits
<1>10. Bit(x.slot) = Bit(y.slot) /\ Bit(x.slot) \in Nat
  BY <1>3 DEF Bit
<1>11. \A f \in Endpoints : f # x.at => Alike(x, y, f) /\ budget'[f] = budget[f] /\ written'[f] = written[f]
  BY <1>3, <1>7 DEF Alike, ResetRecorded
<1>12. /\ IsOpen(x, e) = 1 /\ IsOpen(y, e) = 1 /\ IsToWrite(x, e) = 0 /\ IsToWrite(y, e) = 0
       /\ IsTurning(x, e) = 1 /\ IsTurning(y, e) = 0 /\ Held(x, e) = x.rolled /\ Held(y, e) = x.rolled
  BY <1>1, <1>3, <1>8 DEF IsOpen, IsToWrite, IsTurning, Held, Bit, Uncounted
<1>13. Books(e)'
  <2> DEFINE M == MAX_ANONYMOUS_AUDITS_PER_WINDOW
  <2>0. written' = written /\ failed' = failed /\ clock' = clock
    BY DEF ResetRecorded
  <2>1. written'[e] = written[e] /\ failed'[e] = failed[e]
        /\ written[e] \in [single : Nat, summed : Nat, windows : Nat]
    BY <1>1, <2>0 DEF SignInv, SignTypeOK
  <2>2. Windows(e)'
    BY <1>1, <1>2, <1>4, <1>7, <2>0 DEF Windows, Books, SignInv
  <2>3. written'[e].single + written'[e].summed + budget'[e].suppressed + Held(y, e) + IsOpen(y, e) + IsToWrite(y, e)
         = written[e].single + written[e].summed + budget[e].suppressed + Held(x, e) + IsOpen(x, e) + IsToWrite(x, e)
    BY <1>1, <1>2, <1>4, <1>7, <1>12, <2>1
  <2>4. M \in Nat /\ Room(e) \in Nat /\ Room(e)' <= M /\ Room(e)' \in Nat
    BY <1>1, <1>4, <1>7, SignAssumption DEF Room, SignInv, SignTypeOK
  <2>5. written'[e].single + IsToWrite(y, e) + M * IsTurning(y, e) + Room(e)' + M * written[e].windows
         <= written[e].single + IsToWrite(x, e) + M * IsTurning(x, e) + Room(e) + M * written'[e].windows
    BY <1>12, <2>1, <2>4
  <2>6. budget'[e] \in [window_start : Nat, recorded : Nat, suppressed : Nat]
    BY <1>4, <1>7
  <2> HIDE DEF e
  <2> QED
    BY <1>1, <1>5, <2>1, <2>2, <2>3, <2>5, <2>6, BooksAfter DEF SignInv, e
<1> QED
  BY <1>5, <1>7, <1>9, <1>10, <1>11, <1>13, AdmitKeeps DEF SignInv, SignTypeOK, PermitsBack, ResetRecorded, throttle


\* CountFailure: a record while there is room for one.
LEMMA CountFailureKeeps ==
  ASSUME SignInv, NEW a \in Attempts, CountFailure(a)
  PROVE  SignInv'
<1>0. PICK x \in AttemptType : x = attempt[a]
  BY DEF SignInv, SignTypeOK
<1>1. Fits(x, clock) /\ x.pc = "count" /\ x.rolled \in Nat /\ x.at \in Endpoints
  BY <1>0 DEF SignInv, Carries, AttemptType, CountFailure, In
<1> DEFINE e == x.at
           M == MAX_ANONYMOUS_AUDITS_PER_WINDOW
<1>2. PICK b \in [window_start : Nat, recorded : Nat, suppressed : Nat] : b = budget[e]
  BY <1>1 DEF SignInv, SignTypeOK
<1>3. b.recorded \in Nat /\ M \in Nat
  BY SignAssumption
<1> DEFINE y == IF b.recorded < M THEN [x EXCEPT !.pc = "write", !.record = TRUE] ELSE [x EXCEPT !.pc = "suppress"]
           c == [b EXCEPT !.recorded = b.recorded + 1]
<1>4. /\ y \in AttemptType /\ y.at = x.at /\ y.now = x.now /\ y.slot = x.slot /\ y.rolled = x.rolled
      /\ b.recorded < M => y.pc = "write" /\ y.record = TRUE
      /\ ~(b.recorded < M) => y.pc = "suppress" /\ y.record = x.record
  BY DEF AttemptType, Uncounted
<1>5. /\ c \in [window_start : Nat, recorded : Nat, suppressed : Nat]
      /\ c.window_start = b.window_start /\ c.recorded = b.recorded + 1 /\ c.suppressed = b.suppressed
  OBVIOUS
<1>6. Turns(a, x, y)
  BY <1>0, <1>2, <1>4 DEF Turns, SignInv, SignTypeOK, CountFailure, E
<1>7. budget' = [budget EXCEPT ![e] = c]
  BY <1>0, <1>2 DEF CountFailure, E
<1> HIDE DEF y, c
<1>8. /\ budget' \in [Endpoints -> [window_start : Nat, recorded : Nat, suppressed : Nat]]
      /\ budget'[e] = c /\ \A f \in Endpoints : f # e => budget'[f] = budget[f]
  BY <1>1, <1>5, <1>7 DEF SignInv, SignTypeOK
<1>9. x.record = FALSE
  BY <1>1 DEF Fits, AttemptType
<1>10. Fits(y, clock) /\ y.pc # "exchange"
  BY <1>1, <1>4, <1>9 DEF Fits
<1>11. Bit(x.slot) = Bit(y.slot) /\ Bit(x.slot) \in Nat
  BY <1>4 DEF Bit
<1>12. \A f \in Endpoints : f # x.at => Alike(x, y, f) /\ budget'[f] = budget[f] /\ written'[f] = written[f]
  BY <1>4, <1>8 DEF Alike, CountFailure
<1>13. /\ IsOpen(x, e) = 1 /\ IsToWrite(x, e) = 0
       /\ IsTurning(x, e) = 0 /\ IsTurning(y, e) = 0 /\ Held(x, e) = x.rolled /\ Held(y, e) = x.rolled
       /\ b.recorded < M => IsOpen(y, e) = 0 /\ IsToWrite(y, e) = 1
       /\ ~(b.recorded < M) => IsOpen(y, e) = 1 /\ IsToWrite(y, e) = 0
  BY <1>1, <1>4, <1>9 DEF IsOpen, IsToWrite, IsTurning, Held, Bit, Uncounted
<1>14. Books(e)'
  <2>0. written' = written /\ failed' = failed /\ clock' = clock
    BY DEF CountFailure
  <2>1. written'[e] = written[e] /\ failed'[e] = failed[e]
        /\ written[e] \in [single : Nat, summed : Nat, windows : Nat]
    BY <1>1, <2>0 DEF SignInv, SignTypeOK
  <2>2. Windows(e)'
    BY <1>1, <1>2, <1>5, <1>8, <2>0 DEF Windows, Books, SignInv
  <2>3. written'[e].single + written'[e].summed + budget'[e].suppressed + Held(y, e) + IsOpen(y, e) + IsToWrite(y, e)
         = written[e].single + written[e].summed + budget[e].suppressed + Held(x, e) + IsOpen(x, e) + IsToWrite(x, e)
    BY <1>1, <1>2, <1>5, <1>8, <1>13, <2>1
  <2>4. /\ Room(e) \in Nat /\ Room(e)' \in Nat
        /\ b.recorded < M => Room(e)' + 1 = Room(e)
        /\ ~(b.recorded < M) => Room(e)' = Room(e)
    BY <1>2, <1>3, <1>5, <1>8 DEF Room
  <2>5. written'[e].single + IsToWrite(y, e) + M * IsTurning(y, e) + Room(e)' + M * written[e].windows
         <= written[e].single + IsToWrite(x, e) + M * IsTurning(x, e) + Room(e) + M * written'[e].windows
    <3>1. IsToWrite(y, e) + Room(e)' = Room(e) /\ IsToWrite(y, e) \in Nat
      BY <1>13, <2>4
    <3> QED
      BY <1>3, <1>13, <2>1, <2>4, <3>1
  <2>6. budget'[e] \in [window_start : Nat, recorded : Nat, suppressed : Nat]
    BY <1>5, <1>8
  <2> HIDE DEF e
  <2> QED
    BY <1>1, <1>6, <2>1, <2>2, <2>3, <2>5, <2>6, BooksAfter DEF SignInv, e
<1> QED
  BY <1>6, <1>8, <1>10, <1>11, <1>12, <1>14, AdmitKeeps DEF SignInv, SignTypeOK, PermitsBack, CountFailure, throttle

\* Suppress: past the room, the failure is counted only.
LEMMA SuppressKeeps ==
  ASSUME SignInv, NEW a \in Attempts, Suppress(a)
  PROVE  SignInv'
<1>0. PICK x \in AttemptType : x = attempt[a]
  BY DEF SignInv, SignTypeOK
<1>1. Fits(x, clock) /\ x.pc = "suppress" /\ x.rolled \in Nat /\ x.at \in Endpoints
  BY <1>0 DEF SignInv, Carries, AttemptType, Suppress, In
<1> DEFINE e == x.at
<1>2. PICK b \in [window_start : Nat, recorded : Nat, suppressed : Nat] : b = budget[e]
  BY <1>1 DEF SignInv, SignTypeOK
<1> DEFINE y == [x EXCEPT !.pc = "write"]
           c == [b EXCEPT !.suppressed = b.suppressed + 1]
<1>3. /\ y \in AttemptType /\ y.pc = "write" /\ y.at = x.at /\ y.now = x.now /\ y.slot = x.slot
      /\ y.rolled = x.rolled /\ y.record = x.record
  BY DEF AttemptType, Uncounted
<1>4. /\ c \in [window_start : Nat, recorded : Nat, suppressed : Nat]
      /\ c.window_start = b.window_start /\ c.recorded = b.recorded /\ c.suppressed = b.suppressed + 1
  OBVIOUS
<1>5. Turns(a, x, y)
  BY <1>0, <1>2, <1>3 DEF Turns, SignInv, SignTypeOK, Suppress, E
<1>6. budget' = [budget EXCEPT ![e] = c]
  BY <1>0, <1>2 DEF Suppress, E
<1> HIDE DEF y, c
<1>7. /\ budget' \in [Endpoints -> [window_start : Nat, recorded : Nat, suppressed : Nat]]
      /\ budget'[e] = c /\ \A f \in Endpoints : f # e => budget'[f] = budget[f]
  BY <1>1, <1>4, <1>6 DEF SignInv, SignTypeOK
<1>8. x.record = FALSE
  BY <1>1 DEF Fits, AttemptType
<1>9. Fits(y, clock) /\ y.pc # "exchange"
  BY <1>1, <1>3, <1>8 DEF Fits
<1>10. Bit(x.slot) = Bit(y.slot) /\ Bit(x.slot) \in Nat
  BY <1>3 DEF Bit
<1>11. \A f \in Endpoints : f # x.at => Alike(x, y, f) /\ budget'[f] = budget[f] /\ written'[f] = written[f]
  BY <1>3, <1>7 DEF Alike, Suppress
<1>12. /\ IsOpen(x, e) = 1 /\ IsOpen(y, e) = 0 /\ IsToWrite(x, e) = 0 /\ IsToWrite(y, e) = 0
       /\ IsTurning(x, e) = 0 /\ IsTurning(y, e) = 0 /\ Held(x, e) = x.rolled /\ Held(y, e) = x.rolled
  BY <1>1, <1>3, <1>8 DEF IsOpen, IsToWrite, IsTurning, Held, Bit, Uncounted
<1>13. Books(e)'
  <2> DEFINE M == MAX_ANONYMOUS_AUDITS_PER_WINDOW
  <2>0. written' = written /\ failed' = failed /\ clock' = clock
    BY DEF Suppress
  <2>1. written'[e] = written[e] /\ failed'[e] = failed[e] /\ Room(e)' = Room(e)
        /\ written[e] \in [single : Nat, summed : Nat, windows : Nat]
    BY <1>1, <1>2, <1>4, <1>7, <2>0 DEF Room, SignInv, SignTypeOK
  <2>2. Windows(e)'
    BY <1>1, <1>2, <1>4, <1>7, <2>0 DEF Windows, Books, SignInv
  <2>3. written'[e].single + written'[e].summed + budget'[e].suppressed + Held(y, e) + IsOpen(y, e) + IsToWrite(y, e)
         = written[e].single + written[e].summed + budget[e].suppressed + Held(x, e) + IsOpen(x, e) + IsToWrite(x, e)
    BY <1>1, <1>2, <1>4, <1>7, <1>12, <2>1
  <2>4. M \in Nat /\ Room(e) \in Nat
    BY <1>1, SignAssumption DEF Room, SignInv, SignTypeOK
  <2>5. written'[e].single + IsToWrite(y, e) + M * IsTurning(y, e) + Room(e)' + M * written[e].windows
         <= written[e].single + IsToWrite(x, e) + M * IsTurning(x, e) + Room(e) + M * written'[e].windows
    BY <1>12, <2>1, <2>4
  <2>6. budget'[e] \in [window_start : Nat, recorded : Nat, suppressed : Nat]
    BY <1>4, <1>7
  <2> HIDE DEF e
  <2> QED
    BY <1>1, <1>5, <2>1, <2>2, <2>3, <2>5, <2>6, BooksAfter DEF SignInv, e
<1> QED
  BY <1>5, <1>7, <1>9, <1>10, <1>11, <1>13, AdmitKeeps DEF SignInv, SignTypeOK, PermitsBack, Suppress, throttle

\* WriteRecords: the record and the summary, and the permit comes back.
LEMMA WriteRecordsKeeps ==
  ASSUME SignInv, NEW a \in Attempts, WriteRecords(a)
  PROVE  SignInv'
<1>0. PICK x \in AttemptType : x = attempt[a]
  BY DEF SignInv, SignTypeOK
<1>1. Fits(x, clock) /\ x.pc = "write" /\ x.rolled \in Nat /\ x.at \in Endpoints /\ clock \in Nat
  BY <1>0 DEF SignInv, SignTypeOK, Carries, AttemptType, WriteRecords, In
<1> DEFINE e == x.at
           y == AtRest
           one == Bit(x.record)
<1>2. PICK r \in [single : Nat, summed : Nat, windows : Nat] : r = written[e]
  BY <1>1 DEF SignInv, SignTypeOK
<1> DEFINE c == [r EXCEPT !.single = r.single + one, !.summed = r.summed + x.rolled]
<1>3. /\ y \in AttemptType /\ y.pc = "idle" /\ y.slot = FALSE /\ y.rolled = 0 /\ y.record = FALSE /\ y.now = 0
  BY DEF AtRest, AttemptType, Endpoints, Uncounted
<1>4. one \in Nat
  BY DEF Bit
<1> HIDE DEF one
<1>5. /\ c \in [single : Nat, summed : Nat, windows : Nat]
      /\ c.single = r.single + one /\ c.summed = r.summed + x.rolled /\ c.windows = r.windows
  <2> DEFINE i == r.single + one
             j == r.summed + x.rolled
  <2>1. i \in Nat /\ j \in Nat
    BY <1>1, <1>4
  <2> HIDE DEF i, j
  <2>2. /\ [r EXCEPT !.single = i, !.summed = j] \in [single : Nat, summed : Nat, windows : Nat]
        /\ [r EXCEPT !.single = i, !.summed = j].single = i
        /\ [r EXCEPT !.single = i, !.summed = j].summed = j
        /\ [r EXCEPT !.single = i, !.summed = j].windows = r.windows
    BY <2>1
  <2> QED
    BY <2>2 DEF i, j
<1>6. Turns(a, x, y)
  BY <1>0, <1>3 DEF Turns, SignInv, SignTypeOK, WriteRecords
<1>7. written' = [written EXCEPT ![e] = c]
  BY <1>0, <1>2 DEF WriteRecords, E, Bit, one
<1> HIDE DEF y, c
<1>8. /\ written' \in [Endpoints -> [single : Nat, summed : Nat, windows : Nat]]
      /\ written'[e] = c /\ \A f \in Endpoints : f # e => written'[f] = written[f]
  BY <1>1, <1>5, <1>7 DEF SignInv, SignTypeOK
<1>9. Fits(y, clock) /\ y.pc # "exchange"
  BY <1>1, <1>3 DEF Fits
<1>10. \A f \in Endpoints : f # x.at => Alike(x, y, f) /\ budget'[f] = budget[f] /\ written'[f] = written[f]
  BY <1>3, <1>8 DEF Alike, Uncounted, WriteRecords
<1>11. /\ IsOpen(x, e) = 0 /\ IsOpen(y, e) = 0 /\ IsToWrite(x, e) = one /\ IsToWrite(y, e) = 0
       /\ IsTurning(x, e) = 0 /\ IsTurning(y, e) = 0 /\ Held(x, e) = x.rolled /\ Held(y, e) = 0
  BY <1>1, <1>3 DEF IsOpen, IsToWrite, IsTurning, Held, Bit, Uncounted, one
<1>12. Books(e)'
  <2> DEFINE M == MAX_ANONYMOUS_AUDITS_PER_WINDOW
  <2>0. budget' = budget /\ failed' = failed /\ clock' = clock
    BY DEF WriteRecords
  <2>1. budget'[e] = budget[e] /\ failed'[e] = failed[e] /\ Room(e)' = Room(e)
        /\ budget[e] \in [window_start : Nat, recorded : Nat, suppressed : Nat]
    BY <1>1, <2>0 DEF Room, SignInv, SignTypeOK
  <2>2. Windows(e)'
    BY <1>1, <1>2, <1>5, <1>8, <2>0 DEF Windows, Books, SignInv
  <2>3. written'[e].single + written'[e].summed + budget'[e].suppressed + Held(y, e) + IsOpen(y, e) + IsToWrite(y, e)
         = written[e].single + written[e].summed + budget[e].suppressed + Held(x, e) + IsOpen(x, e) + IsToWrite(x, e)
    BY <1>1, <1>2, <1>4, <1>5, <1>8, <1>11, <2>1
  <2>4. M \in Nat /\ Room(e) \in Nat
    BY <1>1, SignAssumption DEF Room, SignInv, SignTypeOK
  <2>5. written'[e].single + IsToWrite(y, e) + M * IsTurning(y, e) + Room(e)' + M * written[e].windows
         <= written[e].single + IsToWrite(x, e) + M * IsTurning(x, e) + Room(e) + M * written'[e].windows
    <3>1. written'[e].single + IsToWrite(y, e) = written[e].single + IsToWrite(x, e)
          /\ written'[e].single + IsToWrite(y, e) \in Nat /\ written'[e].windows = written[e].windows
          /\ written[e].windows \in Nat
      BY <1>2, <1>4, <1>5, <1>8, <1>11
    <3> QED
      BY <1>11, <2>1, <2>4, <3>1
  <2>6. written'[e] \in [single : Nat, summed : Nat, windows : Nat]
    BY <1>5, <1>8
  <2> HIDE DEF e
  <2> QED
    BY <1>1, <1>6, <2>1, <2>2, <2>3, <2>5, <2>6, BooksAfter DEF SignInv, e
<1>13. /\ in_flight' + Bit(x.slot) = in_flight + Bit(y.slot) /\ in_flight' \in Nat
       /\ in_flight' <= MAX_CONCURRENT_PASSWORD_CHECKS
  <2>0. in_flight \in Nat /\ in_flight = Cardinality(Permits) /\ in_flight <= MAX_CONCURRENT_PASSWORD_CHECKS
        /\ MAX_CONCURRENT_PASSWORD_CHECKS \in Nat
    BY SignAssumption DEF SignInv, SignTypeOK, PermitsBack
  <2>1. Bit(y.slot) = 0
    BY <1>3 DEF Bit
  <2>2. CASE x.slot
    <3>1. Permits \in SUBSET Attempts /\ a \in Permits
      BY <1>0, <2>2 DEF Permits
    <3>2. IsFiniteSet(Permits) /\ Cardinality(Permits) \in Nat /\ Cardinality(Permits) # 0
      BY <3>1, SignAssumption, FS_Subset, FS_EmptySet, FS_CardinalityType
    <3>3. in_flight' = in_flight - 1 /\ Bit(x.slot) = 1
      BY <1>0, <2>2 DEF WriteRecords, Bit
    <3> QED
      BY <2>0, <2>1, <3>2, <3>3
  <2>3. CASE ~x.slot
    <3>1. in_flight' = in_flight /\ Bit(x.slot) = 0
      BY <1>0, <2>3 DEF WriteRecords, Bit
    <3> QED
      BY <2>0, <2>1, <3>1
  <2> QED
    BY <2>2, <2>3
<1> QED
  BY <1>6, <1>8, <1>9, <1>10, <1>12, <1>13, AdmitKeeps DEF SignInv, SignTypeOK, WriteRecords


\* When no attempt moves, what the attempts add to the books is the same.
LEMMA SameSets ==
  ASSUME attempt' = attempt, NEW e
  PROVE  /\ Open(e)' = Open(e) /\ ToWrite(e)' = ToWrite(e) /\ Turning(e)' = Turning(e)
         /\ InHand(e)' = InHand(e) /\ Permits' = Permits
<1>1. Open(e)' = Open(e)
  BY DEF Open
<1>2. ToWrite(e)' = ToWrite(e)
  BY DEF ToWrite
<1>3. Turning(e)' = Turning(e)
  BY DEF Turning
<1>4. InHand(e)' = InHand(e)
  BY DEF InHand
<1>5. Permits' = Permits
  BY DEF Permits
<1> QED
  BY <1>1, <1>2, <1>3, <1>4, <1>5

\* Start: no call-back is between the two steps of a transaction.
LEMMA StartKeeps ==
  ASSUME SignInv, Start
  PROVE  SignInv'
<1>1. /\ attempt' = attempt /\ clock' = clock /\ in_flight' = in_flight /\ failed' = failed
      /\ budget' = budget /\ written' = written /\ served' = served /\ account' = account
      /\ transaction' = TRUE /\ signed_in' = 0 /\ \A a \in Attempts : attempt[a].pc # "exchange"
  BY DEF Start, throttle, In
<1>2. SignTypeOK'
  BY <1>1 DEF SignInv, SignTypeOK
<1>3. \A a \in Attempts : Carries(a)'
  BY <1>1 DEF SignInv, Carries
<1>4. \A e \in Endpoints : Books(e)'
  BY <1>1, SameSets DEF SignInv, Books, Tally, Paid, Windows, Room
<1>5. PermitsBack'
  BY <1>1 DEF SignInv, PermitsBack, Permits
<1>6. OneSession'
  BY <1>1 DEF OneSession
<1> QED
  BY <1>2, <1>3, <1>4, <1>5, <1>6 DEF SignInv

\* Tick: what is before now stays before now.
LEMMA TickKeeps ==
  ASSUME SignInv, Tick
  PROVE  SignInv'
<1>1. /\ attempt' = attempt /\ in_flight' = in_flight /\ failed' = failed
      /\ budget' = budget /\ written' = written /\ served' = served /\ account' = account
      /\ transaction' = transaction /\ signed_in' = signed_in /\ clock' = clock + 1 /\ clock \in Nat
  BY DEF Tick, throttle, SignInv, SignTypeOK
<1>2. SignTypeOK'
  BY <1>1 DEF SignInv, SignTypeOK
<1>3. ASSUME NEW a \in Attempts PROVE Carries(a)'
  <2>1. attempt[a].now \in Nat
    BY DEF SignInv, SignTypeOK, AttemptType
  <2> QED
    BY <1>1, <2>1 DEF SignInv, Carries, Fits
<1>4. ASSUME NEW e \in Endpoints PROVE Books(e)'
  <2>1. budget[e].window_start \in Nat
    BY DEF SignInv, SignTypeOK
  <2>2. Windows(e)'
    BY <1>1, <2>1 DEF SignInv, Books, Windows
  <2>3. /\ IsFiniteSet(InHand(e)') /\ Tally(e)' /\ Paid(e)'
    BY <1>1, SameSets DEF SignInv, Books, Tally, Paid, Room
  <2> QED
    BY <2>2, <2>3 DEF Books
<1>5. PermitsBack'
  BY <1>1 DEF SignInv, PermitsBack, Permits
<1>6. OneSession'
  BY <1>1 DEF SignInv, OneSession
<1> QED
  BY <1>2, <1>3, <1>4, <1>5, <1>6 DEF SignInv

\* At first no attempt has anything and no window has begun.
LEMMA SignAtFirst == SignInit => SignInv
<1> SUFFICES ASSUME SignInit PROVE SignInv
  OBVIOUS
<1>0. /\ AtRest \in AttemptType /\ AtRest.pc = "idle" /\ AtRest.slot = FALSE /\ AtRest.rolled = 0
      /\ AtRest.record = FALSE /\ AtRest.now = 0
  BY DEF AtRest, AttemptType, Endpoints, Uncounted
<1>1. \A a \in Attempts : attempt[a] = AtRest
  BY DEF SignInit
<1>2. SignTypeOK
  BY <1>0, SignAssumption DEF SignInit, SignTypeOK
<1>3. \A a \in Attempts : Carries(a)
  BY <1>0, <1>1, <1>2 DEF Carries, Fits, SignTypeOK
<1>4. ASSUME NEW e \in Endpoints PROVE Books(e)
  <2>1. Open(e) = {} /\ ToWrite(e) = {} /\ Turning(e) = {}
    BY <1>0, <1>1 DEF Open, ToWrite, Turning, Uncounted
  <2>2. InHand(e) = {}
    BY <1>0, <1>1 DEF InHand
  <2>3. IsFiniteSet({}) /\ Cardinality({}) = 0
    BY FS_EmptySet
  <2>4. failed[e] = 0 /\ written[e].single = 0 /\ written[e].summed = 0 /\ written[e].windows = 0
        /\ budget[e].window_start = 0 /\ budget[e].recorded = 0 /\ budget[e].suppressed = 0
    BY DEF SignInit
  <2>5. MAX_ANONYMOUS_AUDITS_PER_WINDOW \in Nat /\ ANONYMOUS_AUDIT_WINDOW_MILLIS \in Nat
    BY SignAssumption
  <2>6. Room(e) \in Nat /\ Room(e) <= MAX_ANONYMOUS_AUDITS_PER_WINDOW
    BY <2>4, <2>5 DEF Room
  <2>7. Tally(e)
    BY <2>1, <2>2, <2>3, <2>4 DEF Tally
  <2>8. Paid(e)
    BY <2>1, <2>3, <2>4, <2>5, <2>6 DEF Paid
  <2>9. Windows(e)
    BY <1>2, <2>4, <2>5 DEF Windows, SignTypeOK
  <2> QED
    BY <2>2, <2>3, <2>7, <2>8, <2>9 DEF Books
<1>5. PermitsBack
  <2>1. Permits = {}
    BY <1>0, <1>1 DEF Permits
  <2> QED
    BY <2>1, FS_EmptySet, SignAssumption DEF PermitsBack, SignInit
<1>6. OneSession
  BY <1>0, <1>1 DEF OneSession, SignInit
<1> QED
  BY <1>2, <1>3, <1>4, <1>5, <1>6 DEF SignInv

\* Every step keeps the invariant.
LEMMA SignStepKeeps ==
  ASSUME SignInv, [SignNext]_signVars
  PROVE  SignInv'
<1>1. ASSUME NEW a \in Attempts, SignStep(a) PROVE SignInv'
  <2>1. ASSUME NEW e \in served, Begin(a, e) PROVE SignInv'
    BY <2>1, BeginKeeps
  <2>2. CASE Refused(a)
    BY <2>2, FailKeeps DEF Refused, In, throttle, SignInv, SignTypeOK
  <2>3. CASE BreakGlass(a)
    BY <2>3, BreakGlassKeeps
  <2>4. CASE Take(a)
    BY <2>4, TakeKeeps
  <2>5. ASSUME NEW good \in BOOLEAN, Exchange(a, good) PROVE SignInv'
    BY <2>5, ExchangeKeeps
  <2>6. CASE CheckLocked(a)
    BY <2>6, CheckLockedKeeps
  <2>7. CASE Enter(a)
    BY <2>7, EnterKeeps
  <2>8. CASE WrongPassword(a)
    BY <2>8, WrongPasswordKeeps
  <2>9. ASSUME NEW bound \in BOOLEAN, RightPassword(a, bound) PROVE SignInv'
    BY <2>9, RightPasswordKeeps
  <2>10. CASE LoadWindow(a)
    BY <2>10, LoadWindowKeeps
  <2>11. CASE Roll(a)
    BY <2>11, RollKeeps
  <2>12. CASE SwapSuppressed(a)
    BY <2>12, SwapSuppressedKeeps
  <2>13. CASE ResetRecorded(a)
    BY <2>13, ResetRecordedKeeps
  <2>14. CASE CountFailure(a)
    BY <2>14, CountFailureKeeps
  <2>15. CASE Suppress(a)
    BY <2>15, SuppressKeeps
  <2>16. CASE WriteRecords(a)
    BY <2>16, WriteRecordsKeeps
  <2> QED
    BY <1>1, <2>1, <2>2, <2>3, <2>4, <2>5, <2>6, <2>7, <2>8, <2>9, <2>10, <2>11, <2>12, <2>13, <2>14, <2>15, <2>16
       DEF SignStep
<1>2. CASE Start
  BY <1>2, StartKeeps
<1>3. CASE Tick
  BY <1>3, TickKeeps
<1>4. CASE UNCHANGED signVars
  <2>1. /\ attempt' = attempt /\ clock' = clock /\ in_flight' = in_flight /\ failed' = failed
        /\ budget' = budget /\ written' = written /\ served' = served /\ account' = account
        /\ transaction' = transaction /\ signed_in' = signed_in
    BY <1>4 DEF signVars
  <2>2. SignTypeOK'
    BY <2>1 DEF SignInv, SignTypeOK
  <2>3. \A a \in Attempts : Carries(a)'
    BY <2>1 DEF SignInv, Carries
  <2>4. \A e \in Endpoints : Books(e)'
    BY <2>1, SameSets DEF SignInv, Books, Tally, Paid, Windows, Room
  <2>5. PermitsBack' /\ OneSession'
    BY <2>1 DEF SignInv, PermitsBack, Permits, OneSession
  <2> QED
    BY <2>2, <2>3, <2>4, <2>5 DEF SignInv
<1> QED
  BY <1>1, <1>2, <1>3, <1>4 DEF SignNext

\* The invariant says what FloodHandled does.
LEMMA FloodFromInv ==
  ASSUME SignInv
  PROVE  FloodHandled
<1>1. ASSUME NEW e \in Endpoints
      PROVE  /\ failed[e] = written[e].single + written[e].summed + budget[e].suppressed + Rolled(e)
                            + Cardinality(Here(e, Uncounted))
                            + Cardinality({a \in Here(e, {"write"}) : attempt[a].record})
             /\ written[e].single <= MAX_ANONYMOUS_AUDITS_PER_WINDOW * (written[e].windows + 1)
             /\ written[e].windows * ANONYMOUS_AUDIT_WINDOW_MILLIS <= clock
  <2>0. /\ written[e].single \in Nat /\ written[e].windows \in Nat /\ budget[e].window_start \in Nat /\ clock \in Nat
        /\ MAX_ANONYMOUS_AUDITS_PER_WINDOW \in Nat /\ ANONYMOUS_AUDIT_WINDOW_MILLIS \in Nat /\ Room(e) \in Nat
    BY SignAssumption DEF SignInv, SignTypeOK, Room
  <2>1. Here(e, Uncounted) = Open(e) /\ {a \in Here(e, {"write"}) : attempt[a].record} = ToWrite(e)
    BY DEF Here, Open, ToWrite, E
  <2>2. Rolled(e) = Cardinality(InHand(e))
    <3> DEFINE H == Here(e, {"reset", "count", "suppress", "write"})
               B == {a \in Attempts : attempt[a].at = e}
    <3>1. \A a \in Attempts : attempt[a].rolled \in Nat
            /\ (attempt[a].rolled > 0 => attempt[a].pc \in {"reset", "count", "suppress", "write"})
      BY DEF SignInv, SignTypeOK, AttemptType, Carries, Fits
    <3>2. H \subseteq B /\ \A a \in B : a \notin H => attempt[a].rolled = 0
      BY <3>1 DEF Here, E
    <3>3. \A a \in B : a \notin H => {a} \X (1 .. attempt[a].rolled) = {}
      BY <3>2
    <3> HIDE DEF H, B
    <3>4. UNION {{a} \X (1 .. attempt[a].rolled) : a \in H} = UNION {{a} \X (1 .. attempt[a].rolled) : a \in B}
      BY <3>2, <3>3
    <3> QED
      BY <3>4 DEF Rolled, InHand, H, B
  <2>3. Tally(e) /\ Paid(e) /\ Windows(e)
    BY DEF SignInv, Books
  <2>4. Cardinality(ToWrite(e)) \in Nat /\ Cardinality(Turning(e)) \in Nat
    <3>1. ToWrite(e) \in SUBSET Attempts /\ Turning(e) \in SUBSET Attempts
      BY DEF ToWrite, Turning
    <3> QED
      BY <3>1, SignAssumption, FS_Subset, FS_CardinalityType
  <2>5. MAX_ANONYMOUS_AUDITS_PER_WINDOW * Cardinality(Turning(e)) \in Nat
        /\ MAX_ANONYMOUS_AUDITS_PER_WINDOW * (written[e].windows + 1) \in Nat
        /\ written[e].windows * ANONYMOUS_AUDIT_WINDOW_MILLIS \in Nat
    BY <2>0, <2>4
  <2>6. written[e].single <= MAX_ANONYMOUS_AUDITS_PER_WINDOW * (written[e].windows + 1)
    BY <2>0, <2>3, <2>4, <2>5 DEF Paid
  <2>7. written[e].windows * ANONYMOUS_AUDIT_WINDOW_MILLIS <= clock
    BY <2>0, <2>3, <2>5 DEF Windows
  <2> QED
    BY <2>1, <2>2, <2>3, <2>6, <2>7 DEF Tally
<1>2. FailuresCounted /\ TrailBounded
  BY <1>1 DEF FailuresCounted, TrailBounded
<1> QED
  BY <1>2 DEF FloodHandled, SignInv, PermitsBack, Permits, OneSession

\* The books of the sign-in endpoints, at every moment of every behaviour.
THEOREM SignInvariant == SignSpec => []SignInv
<1>1. SignInit => SignInv
  BY SignAtFirst
<1>2. SignInv /\ [SignNext]_signVars => SignInv'
  BY SignStepKeeps
<1> QED
  BY <1>1, <1>2, PTL DEF SignSpec

\* However the threads of a flood interleave inside `admit`, every failure is
\* in the trail once or on its way there, the trail has no more records than
\* the windows begun allow and a window is begun only when the last is over,
\* every permit comes back and a transaction signs in one session at most.
THEOREM FloodKept == SignSpec => []FloodHandled
<1>1. SignInv => FloodHandled
  BY FloodFromInv
<1> QED
  BY <1>1, SignInvariant, PTL

====
