------------------------------ MODULE MCAdmin -------------------------------
(***************************************************************************)
(* The management API for TLC.  A behaviour is one of its parts, the       *)
(* others at rest: publication and sessions, API keys, or sign-in.         *)
(***************************************************************************)
EXTENDS Publication, MCKeyStore, SignIn

VARIABLE part

-----------------------------------------------------------------------------
(* Publication: ann and bob are bound to the roles by every document but   *)
(* the one that withdraws ann; ci is a key minted by ann.                  *)

MCPrincipalOf == "ann" :> "ann" @@ "bob" :> "bob" @@ "ci" :> "svc"
MCAccountableOf == "ann" :> None @@ "bob" :> None @@ "ci" :> "ann"

Documents == {"file", "wider", "without_ann", "typo"}
MCBound == [d \in Documents |-> IF d = "without_ann" THEN {"bob", "svc"} ELSE {"ann", "bob", "svc"}]
MCPlaced == [d \in Documents |-> IF d = "without_ann" THEN {"bob", "svc"} ELSE {"ann", "bob", "svc"}]

By(caller, op) == [caller |-> caller, op |-> op, id |-> 0, text |-> "file", on |-> FALSE,
                   unconditional |-> FALSE]
Publish(caller, id) == [By(caller, "publish") EXCEPT !.id = id]
Check(caller, id) == [By(caller, "validate") EXCEPT !.id = id]
Write(caller, op, text) == [By(caller, op) EXCEPT !.text = text]
Turn(caller, on) == [By(caller, "anonymous") EXCEPT !.on = on]
Forced(want) == [want EXCEPT !.unconditional = TRUE]

OneDraft(id, author, text) == [id |-> id, author |-> author, accountable |-> None, text |-> text]
Scene(ds, wants, fails, restarts) ==
  [drafts |-> ds, requests |-> wants, signed |-> {"ann", "bob"}, faults |-> fails,
   crashes |-> restarts, starts |-> {FALSE}]

\* Two publications, and one refused as the author's own, while an append fails.
Contest == Scene(<<OneDraft(1, "bob", "wider"), OneDraft(2, "bob", "without_ann")>>,
                 <<Publish("ann", 1), Forced(Publish("ci", 2)), Publish("bob", 1)>>, 1, 0)

\* ann's session outlives the publication that withdraws ann; she signs out
\* and in again while a key she minted is refused her own draft.
Withdrawn == Scene(<<OneDraft(1, "ann", "without_ann")>>,
                   <<Forced(Publish("bob", 1)), Forced(Publish("ci", 1)), Write("ann", "draft", "wider"),
                     By("ann", "logout"), By("ann", "sign_in")>>, 0, 0)

\* Roll-backs race a publication and each other.
Undone == Scene(<<OneDraft(1, "ann", "wider")>>,
                <<Publish("bob", 1), Forced(By("ann", "rollback")), By("bob", "rollback")>>, 1, 1)

\* A draft is written, edited, validated and published around a restart; only
\* two drafts are kept.
Drafted == Scene(<<OneDraft(1, "ann", "wider")>>,
                 <<Write("ann", "edit", "typo"), Write("ann", "draft", "wider"), Check("bob", 2),
                   Forced(Publish("bob", 2))>>, 1, 1)

\* The switch is turned by two people while the subject goes away.
Opened == Scene(<<OneDraft(1, "ann", "without_ann")>>,
                <<Turn("ann", TRUE), Turn("bob", TRUE), Turn("ann", FALSE), Forced(Publish("bob", 1))>>, 1, 0)

\* The operator starts the router on the file again.
Adopted == [Scene(<<OneDraft(1, "ann", "wider"), OneDraft(2, "ann", "without_ann")>>,
                  <<Publish("bob", 1), Publish("bob", 2)>>, 0, 2)
            EXCEPT !.starts = {TRUE, FALSE}]

MCScenes == {Contest, Withdrawn, Undone, Drafted, Opened, Adopted}

-----------------------------------------------------------------------------
(* Sign-in *)

MCMixes == {{"password"}, {"break_glass", "oidc"}}
Alike == Permutations(Attempts)

-----------------------------------------------------------------------------

PartInit ==
  /\ part \in {"publication", "keys", "sign_in"}
  /\ Init /\ KeyInit /\ SignInit
  /\ part # "publication" => scene = CHOOSE s \in Scenes : TRUE
  /\ part # "keys" => key_scene = CHOOSE s \in KeyScenes : TRUE
  /\ part # "sign_in" => served = {"password"}

PartNext ==
  /\ \/ part = "publication" /\ Next /\ UNCHANGED <<keyVars, signVars>>
     \/ part = "keys" /\ KeyNext /\ UNCHANGED <<vars, signVars>>
     \/ part = "sign_in" /\ SignNext /\ UNCHANGED <<vars, keyVars>>
  /\ UNCHANGED part

PartSpec == PartInit /\ [][PartNext]_<<vars, keyVars, signVars, part>>
=============================================================================
