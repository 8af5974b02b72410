--------------------------- MODULE MCRemoteOAuth ---------------------------
(* Small instances of RemoteOAuth.  All identities are model values; the   *)
(* ones that no configuration tells apart are interchangeable.             *)
EXTENDS RemoteOAuth, TLC

Symmetry ==
    UNION {Permutations(S) : S \in {ClientIds, Verifiers, States, AtlCodes,
                                    Accounts, Codes, Tokens, BrowserIds,
                                    Logins, Sessions, Requests}}
=============================================================================
