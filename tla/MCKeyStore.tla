----------------------------- MODULE MCKeyStore ------------------------------
(***************************************************************************)
(* Scenes for the API keys: which keys are in the log, which changes are   *)
(* asked for at once, how many appends may fail, how many restarts happen. *)
(***************************************************************************)
EXTENDS KeyStore

Asks(op, k) == [op |-> op, key |-> k, expires_at |-> "soon", restrictions |-> "narrow", budget |-> FALSE]
Mint(k, restrictions, funded) == [Asks("create", k) EXCEPT !.restrictions = restrictions, !.budget = funded]

\* Changes to a key that is in the log, and to it alone.
Changed == [keys |-> <<"k1">>,
            changes |-> <<Asks("revoke", "k1"), Asks("expiry", "k1"), Asks("restrict", "k1"),
                          [Asks("restrict", "k1") EXCEPT !.restrictions = Wide]>>,
            faults |-> 1, crashes |-> 1]

\* Keys are minted while appends fail, and one is changed as soon as it shows.
Minted == [keys |-> <<>>,
           changes |-> <<Mint("k1", "narrow", TRUE), Mint("k2", Wide, FALSE), Mint("k3", "narrow", FALSE),
                         [Asks("restrict", "k1") EXCEPT !.restrictions = "narrower"]>>,
           faults |-> 2, crashes |-> 1]

\* A key is revoked while it is being minted.
Stillborn == [keys |-> <<>>, changes |-> <<Mint("k1", "narrow", FALSE), Asks("revoke", "k1")>>,
              faults |-> 0, crashes |-> 1]

MCKeyScenes == {Changed, Minted, Stillborn}
MCStillborn == {Stillborn}
=============================================================================
