------------------------------ MODULE KeyStore ------------------------------
(***************************************************************************)
(* API keys: minted, narrowed, given an expiry and revoked through the     *)
(* management API, held in memory and rebuilt from the durable log at a    *)
(* start.  A change is a frame of a kind of its own, written before it is  *)
(* applied; a new key is the other way round, in memory before its frames. *)
(*                                                                         *)
(* A step is one lock region of the store or one append; a restart loses   *)
(* the requests in hand and keeps the log.                                 *)
(***************************************************************************)
EXTENDS Integers, Sequences

CONSTANTS
  Wide,       \* the restriction that narrows nothing
  Never,      \* the expiry of a key that does not expire
  KeyScenes   \* [keys, changes, faults, crashes]: see KeyInit

\* An id is drawn at random when a key is minted: it is the id of no other.
ASSUME KeyAssumption ==
  \A s \in KeyScenes :
    /\ Len(s.keys) \in Nat /\ DOMAIN s.keys = 1 .. Len(s.keys)
    /\ \A q \in DOMAIN s.changes : s.changes[q].op = "create" =>
         /\ \A i \in DOMAIN s.keys : s.keys[i] # s.changes[q].key
         /\ \A p \in DOMAIN s.changes \ {q} :
              s.changes[p].op = "create" => s.changes[p].key # s.changes[q].key

VARIABLES
  key_scene,
  keys,       \* [key -> KeyRecord], the records in memory
  frames,     \* the durable log
  change,     \* [request -> its thread]
  told,       \* [request -> what the caller was told]
  asked,      \* [key -> restrictions somebody asked for]
  key_faults,
  key_crashes

keyVars == <<key_scene, keys, frames, change, told, asked, key_faults, key_crashes>>

KeyRecord(expiry) == [revoked |-> FALSE, expires_at |-> expiry, restrictions |-> Wide]

KeyFrame(q, k, rec) == [kind |-> "key", id |-> k, record |-> rec, by |-> q]
Revocation(q, k) == [kind |-> "revocation", id |-> k, by |-> q]
ExpiryChange(q, k, x) == [kind |-> "expiry", id |-> k, expires_at |-> x, by |-> q]
RestrictionChange(q, k, x) == [kind |-> "restriction", id |-> k, restrictions |-> x, by |-> q]
BudgetFrame(q, k) == [kind |-> "budget", id |-> k, by |-> q]

With(m, k, x) == [i \in DOMAIN m \cup {k} |-> IF i = k THEN x ELSE m[i]]
Less(m, k) == [i \in DOMAIN m \ {k} |-> m[i]]

\* KeyStore::revoke, set_expiry, set_restrictions: one field of a record held.
Revoked(ks, k) == IF k \in DOMAIN ks THEN [ks EXCEPT ![k].revoked = TRUE] ELSE ks
Expiring(ks, k, x) == IF k \in DOMAIN ks THEN [ks EXCEPT ![k].expires_at = x] ELSE ks
Narrowed(ks, k, x) == IF k \in DOMAIN ks THEN [ks EXCEPT ![k].restrictions = x] ELSE ks

\* restore_keys, one frame: a restriction for a key not yet seen waits for it;
\* a revocation or an expiry for one is dropped.
Replayed(st, f) ==
  CASE f.kind = "key" ->
         [keys |-> With(st.keys, f.id, IF f.id \in DOMAIN st.pending
                                       THEN [f.record EXCEPT !.restrictions = st.pending[f.id]]
                                       ELSE f.record),
          pending |-> Less(st.pending, f.id)]
    [] f.kind = "revocation" -> [st EXCEPT !.keys = Revoked(@, f.id)]
    [] f.kind = "expiry" -> [st EXCEPT !.keys = Expiring(@, f.id, f.expires_at)]
    [] f.kind = "restriction" ->
         IF f.id \in DOMAIN st.keys THEN [st EXCEPT !.keys = Narrowed(@, f.id, f.restrictions)]
         ELSE [st EXCEPT !.pending = With(@, f.id, f.restrictions)]
    [] OTHER -> st

restore_keys(l) ==
  LET after[n \in 0 .. Len(l)] ==
        IF n = 0 THEN [keys |-> <<>>, pending |-> <<>>] ELSE Replayed(after[n - 1], l[n])
  IN  after[Len(l)].keys

----------------------------------------------------------------------------
Changes == DOMAIN change
Is(q, pc) == change[q].pc = pc
Ask(q) == change[q].ask
Key(q) == Ask(q).key
Move(q, pc) == change' = [change EXCEPT ![q].pc = pc]
Tell(q, what) == Move(q, "done") /\ told' = [told EXCEPT ![q] = what]
Quiet == UNCHANGED told

Write_(f) == frames' = Append(frames, f) /\ UNCHANGED key_faults
\* An audit record: a frame that no restart of the store reads.
Audited == UNCHANGED <<frames, key_faults>>
WriteFails == key_faults > 0 /\ key_faults' = key_faults - 1 /\ UNCHANGED frames

\* key_etag: what the expiry and restriction changes read and write.
KeyEtag(rec) == rec

\* The keys of the scene were minted without restriction and are in the log.
KeyInit ==
  /\ key_scene \in KeyScenes
  /\ frames = [i \in DOMAIN key_scene.keys |-> KeyFrame(0, key_scene.keys[i], KeyRecord(Never))]
  /\ keys = restore_keys(frames)
  /\ change = [q \in DOMAIN key_scene.changes |->
                 [pc |-> "waiting", ask |-> key_scene.changes[q], seen |-> KeyRecord(Never)]]
  /\ told = [q \in DOMAIN key_scene.changes |-> "none"]
  /\ asked = [k \in DOMAIN keys |-> {Wide}]
  /\ key_faults = key_scene.faults
  /\ key_crashes = key_scene.crashes

\* What some request has asked a key to be narrowed to.
Asking(q) == With(asked, Key(q), (IF Key(q) \in DOMAIN asked THEN asked[Key(q)] ELSE {})
                                  \cup {Ask(q).restrictions})

----------------------------------------------------------------------------
(* create_key *)

\* KeyStore::create_by: usable in memory, as wide as a record starts.
CreateKey(q) ==
  /\ Is(q, "waiting") /\ Ask(q).op = "create"
  /\ keys' = With(keys, Key(q), KeyRecord(Ask(q).expires_at))
  /\ asked' = Asking(q)
  /\ Move(q, "narrow") /\ Quiet
  /\ UNCHANGED <<key_scene, frames, key_faults, key_crashes>>

NarrowNewKey(q) ==
  /\ Is(q, "narrow")
  /\ keys' = Narrowed(keys, Key(q), Ask(q).restrictions)
  /\ Move(q, "audit_create") /\ Quiet
  /\ UNCHANGED <<key_scene, frames, asked, key_faults, key_crashes>>

\* Every refusal revokes the key in memory before it answers.
NotCreated(q) == keys' = Revoked(keys, Key(q)) /\ Tell(q, "refused")

\* Mutant: the key is recorded before its restriction.
AuditCreate_KeyFirst(q) ==
  /\ Is(q, "audit_create")
  /\ \/ /\ Audited
        /\ Move(q, IF Ask(q).budget THEN "record_budget" ELSE "record_key")
        /\ Quiet /\ UNCHANGED keys
     \/ WriteFails /\ NotCreated(q)
  /\ UNCHANGED <<key_scene, asked, key_crashes>>

AuditCreate(q) ==
  /\ Is(q, "audit_create")
  /\ \/ /\ Audited
        /\ Move(q, IF Ask(q).budget THEN "record_budget"
                   ELSE IF Ask(q).restrictions # Wide THEN "record_restriction" ELSE "record_key")
        /\ Quiet /\ UNCHANGED keys
     \/ WriteFails /\ NotCreated(q)
  /\ UNCHANGED <<key_scene, asked, key_crashes>>

\* The budget, then the restriction, then the key.
RecordBudget(q) ==
  /\ Is(q, "record_budget")
  /\ \/ /\ Write_(BudgetFrame(q, Key(q)))
        /\ Move(q, IF Ask(q).restrictions # Wide THEN "record_restriction" ELSE "record_key")
        /\ Quiet /\ UNCHANGED keys
     \/ WriteFails /\ NotCreated(q)
  /\ UNCHANGED <<key_scene, asked, key_crashes>>

RecordRestriction(q) ==
  /\ Is(q, "record_restriction")
  /\ \/ /\ Write_(RestrictionChange(q, Key(q), Ask(q).restrictions))
        /\ Move(q, "record_key") /\ Quiet /\ UNCHANGED keys
     \/ WriteFails /\ NotCreated(q)
  /\ UNCHANGED <<key_scene, asked, key_crashes>>

\* The record as it was minted; only now is the secret shown.
RecordKey(q) ==
  /\ Is(q, "record_key")
  /\ \/ /\ Write_(KeyFrame(q, Key(q), KeyRecord(Ask(q).expires_at)))
        /\ Tell(q, "ok") /\ UNCHANGED keys
     \/ WriteFails /\ NotCreated(q)
  /\ UNCHANGED <<key_scene, asked, key_crashes>>

----------------------------------------------------------------------------
(* revoke_key: no If-Match, frame first, audit last. *)

FindRevoke(q) ==
  /\ Is(q, "waiting") /\ Ask(q).op = "revoke" /\ Key(q) \in DOMAIN keys
  /\ Move(q, "record_revocation") /\ Quiet
  /\ UNCHANGED <<key_scene, keys, frames, asked, key_faults, key_crashes>>

RecordRevocation(q) ==
  /\ Is(q, "record_revocation")
  /\ \/ Write_(Revocation(q, Key(q))) /\ Move(q, "revoke") /\ Quiet
     \/ WriteFails /\ Tell(q, "refused")
  /\ UNCHANGED <<key_scene, keys, asked, key_crashes>>

RevokeKey(q) ==
  /\ Is(q, "revoke")
  /\ keys' = Revoked(keys, Key(q))
  /\ Move(q, "audit_revoke") /\ Quiet
  /\ UNCHANGED <<key_scene, frames, asked, key_faults, key_crashes>>

AuditRevoke(q) ==
  /\ Is(q, "audit_revoke")
  /\ \/ Audited /\ Tell(q, "ok")
     \/ WriteFails /\ Tell(q, "unrecorded")
  /\ UNCHANGED <<key_scene, keys, asked, key_crashes>>

----------------------------------------------------------------------------
(* set_key_expiry and set_key_restrictions. *)

\* The caller reads the record it will send the tag of.
ReadKey(q) ==
  /\ Is(q, "waiting") /\ Ask(q).op \in {"expiry", "restrict"} /\ Key(q) \in DOMAIN keys
  /\ change' = [change EXCEPT ![q] = [change[q] EXCEPT !.pc = "compare", !.seen = keys[Key(q)]]]
  /\ UNCHANGED <<key_scene, keys, frames, told, asked, key_faults, key_crashes>>

\* The tag must still match and the key must not be revoked.
CompareKey(q) ==
  /\ Is(q, "compare")
  /\ IF /\ Key(q) \in DOMAIN keys
        /\ KeyEtag(keys[Key(q)]) = KeyEtag(change[q].seen)
        /\ ~keys[Key(q)].revoked
     THEN Move(q, "audit_change") /\ Quiet /\ asked' = IF Ask(q).op = "restrict" THEN Asking(q) ELSE asked
     ELSE Tell(q, "refused") /\ UNCHANGED asked
  /\ UNCHANGED <<key_scene, keys, frames, key_faults, key_crashes>>

AuditChange(q) ==
  /\ Is(q, "audit_change")
  /\ \/ Audited /\ Move(q, "record_change") /\ Quiet
     \/ WriteFails /\ Tell(q, "refused")
  /\ UNCHANGED <<key_scene, keys, asked, key_crashes>>

\* The change alone, never the whole record.
ChangeFrame(q) ==
  IF Ask(q).op = "expiry" THEN ExpiryChange(q, Key(q), Ask(q).expires_at)
  ELSE RestrictionChange(q, Key(q), Ask(q).restrictions)

RecordChange(q) ==
  /\ Is(q, "record_change")
  /\ \/ Write_(ChangeFrame(q)) /\ Move(q, "apply") /\ Quiet
     \/ WriteFails /\ Tell(q, "refused")
  /\ UNCHANGED <<key_scene, keys, asked, key_crashes>>

ApplyChange(q) ==
  /\ Is(q, "apply")
  /\ keys' = IF Ask(q).op = "expiry" THEN Expiring(keys, Key(q), Ask(q).expires_at)
             ELSE Narrowed(keys, Key(q), Ask(q).restrictions)
  /\ Tell(q, "ok")
  /\ UNCHANGED <<key_scene, frames, asked, key_faults, key_crashes>>

----------------------------------------------------------------------------
KeyRestart ==
  /\ key_crashes > 0
  /\ key_crashes' = key_crashes - 1
  /\ keys' = restore_keys(frames)
  /\ change' = [q \in Changes |-> IF Is(q, "waiting") THEN change[q]
                                  ELSE [change[q] EXCEPT !.pc = "done"]]
  /\ UNCHANGED <<key_scene, frames, told, asked, key_faults>>

KeyStep(q) ==
  \/ CreateKey(q) \/ NarrowNewKey(q) \/ AuditCreate(q) \/ RecordBudget(q) \/ RecordRestriction(q)
  \/ RecordKey(q)
  \/ FindRevoke(q) \/ RecordRevocation(q) \/ RevokeKey(q) \/ AuditRevoke(q)
  \/ ReadKey(q) \/ CompareKey(q) \/ AuditChange(q) \/ RecordChange(q) \/ ApplyChange(q)

KeyNext == (\E q \in Changes : KeyStep(q)) \/ KeyRestart

KeySpec == KeyInit /\ [][KeyNext]_keyVars

----------------------------------------------------------------------------
(* Properties. *)

\* What works now, and what would work after a restart at this very moment.
Usable == {k \in DOMAIN keys : ~keys[k].revoked}
Durable == restore_keys(frames)

Creation(k) == {q \in Changes : Ask(q).op = "create" /\ Key(q) = k}

\* However far a creation got before it was refused or the process ended, no
\* restart brings the key back wider than somebody asked for or without the
\* budget it was to have, and a key said not to have been created never works.
CreatedAsAsked ==
  /\ \A k \in DOMAIN Durable :
       /\ Durable[k].restrictions \in asked[k]
       /\ \A q \in Creation(k) :
            /\ told[q] # "refused"
            /\ Ask(q).budget => \E i \in DOMAIN frames : frames[i].kind = "budget" /\ frames[i].id = k
  /\ \A q \in Changes : Ask(q).op = "create" /\ told[q] = "refused" => Key(q) \notin Usable

\* An expiry or restriction change racing a revocation does not undo it, now
\* or after a restart, for a key that was durable before.
RevocationFinal ==
  \A q \in Changes :
    (Ask(q).op = "revoke" /\ told[q] \in {"ok", "unrecorded"} /\ Creation(Key(q)) = {})
    => Key(q) \notin Usable /\ (Key(q) \in DOMAIN Durable => Durable[Key(q)].revoked)

\* A key is what its operators asked for and were told, now and after a restart
\* at any moment (create_key: "a durable key whose restriction failed to commit
\* would be an unrestricted key somebody had asked to be narrowed";
\* set_key_expiry: "a replayed full record would carry the `revoked: false`
\* read before it").
KeysAsAsked == CreatedAsAsked /\ RevocationFinal

\* A revocation that was acknowledged survives a restart, whatever else is
\* being done to the key (revoke_key: "a revocation that never reached the log
\* would be undone by a restart").
RevokedStaysRevoked ==
  \A q \in Changes :
    (Ask(q).op = "revoke" /\ told[q] = "ok" /\ Key(q) \in DOMAIN Durable)
    => Durable[Key(q)].revoked

=============================================================================
