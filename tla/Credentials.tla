----------------------------- MODULE Credentials -----------------------------
(***************************************************************************)
(* Stored credentials and the calls that refresh, rotate and revoke them.  *)
(* A credential store keeps metadata and a secret per id: the memory and   *)
(* the encrypted file store change both under one lock, the keychain store *)
(* changes the secret in the backend first and the metadata after it, and  *)
(* reads them in the other order.  The calls are not atomic: they read the *)
(* store, talk to the OAuth provider and write or delete, and other calls  *)
(* run in between.  A secret is the number of the token it serialises.     *)
(***************************************************************************)
EXTENDS Naturals, FiniteSets

CONSTANTS Ids,        \* credential ids
          Callers,    \* tasks that run the calls
          Keychain,   \* the store is MacOsKeychainCredentialStore
          MaxTokens,  \* bound: tokens the provider ever issues
          MaxCalls    \* bound: calls begun

VARIABLES metadata,  \* scope of each id, or None
          secrets,   \* token of each id, 0 when there is none
          live,      \* per id: the tokens the provider honours
          calls,     \* per caller: the call it is in
          count,     \* tokens issued and calls begun
          ghost      \* gone: ids whose revocation is complete;
                     \* overlapped: ids that two calls have worked on at once;
                     \* stranded: tokens issued that could not be stored or that
                     \* no caller was told of

cvars == <<metadata, secrets, live, calls, count, ghost>>

None == "none"
\* CredentialScope: of an account of a connector, of the connector, of a device.
Scope == {"ConnectorAccount", "Connector", "Device"}
Idle == [op |-> "idle", at |-> "idle", id |-> None, todo |-> {}, scope |-> None, token |-> 0]

Init ==
  /\ metadata = [i \in Ids |-> None]
  /\ secrets = [i \in Ids |-> 0]
  /\ live = [i \in Ids |-> {}]
  /\ calls = [p \in Callers |-> Idle]
  /\ count = [tokens |-> 0, calls |-> 0]
  /\ ghost = [gone |-> {}, overlapped |-> {}, stranded |-> {}]

\* The ids a call may touch.
targets(c) == IF c.op = "idle" THEN {} ELSE IF c.op \in {"offboard", "revoke_device"} THEN Ids ELSE {c.id}

begin(p, c) ==
  /\ calls[p] = Idle
  /\ count.calls < MaxCalls
  /\ calls' = [calls EXCEPT ![p] = c]
  /\ count' = [count EXCEPT !.calls = @ + 1]
  /\ ghost' = [ghost EXCEPT !.overlapped =
                 @ \cup UNION {targets(c) \cap targets(calls[q]) : q \in Callers \ {p}}]
  /\ UNCHANGED <<metadata, secrets, live>>

goto(p, c) == calls' = [calls EXCEPT ![p] = c]

\* A call that is done with one id goes on with the next one it listed.
after(c) ==
  IF c.todo = {} THEN Idle
  ELSE LET i == CHOOSE i \in c.todo : TRUE
       IN [c EXCEPT !.id = i, !.todo = @ \ {i}, !.token = 0,
                    !.at = IF c.op = "revoke_device" THEN "delete" ELSE "read"]

-----------------------------------------------------------------------------
(* The calls.  The reference given to refresh and revoke names a scope of  *)
(* its own, which is what a refresh writes.                                *)
connect(p, i, s) ==
  /\ count.tokens < MaxTokens
  /\ calls[p] = Idle /\ count.calls < MaxCalls
  /\ LET t == count.tokens + 1
         c == [Idle EXCEPT !.op = "connect", !.at = "write", !.id = i, !.scope = s, !.token = t]
     IN /\ calls' = [calls EXCEPT ![p] = c]
        /\ live' = [live EXCEPT ![i] = @ \cup {t}]
        /\ ghost' = [ghost EXCEPT
             !.overlapped = @ \cup UNION {targets(c) \cap targets(calls[q]) : q \in Callers \ {p}},
             !.gone = @ \ {i},
             !.stranded = IF secrets[i] = 0 THEN @ ELSE @ \cup {secrets[i]}]
        /\ count' = [tokens |-> t, calls |-> count.calls + 1]
  /\ UNCHANGED <<metadata, secrets>>

refresh_oauth_credential(p, i, s) ==
  begin(p, [Idle EXCEPT !.op = "refresh", !.at = "read", !.id = i, !.scope = s])

rotate_credential_secret(p, i) ==
  begin(p, [Idle EXCEPT !.op = "rotate", !.at = "read", !.id = i])

revoke_oauth_credential(p, i) ==
  begin(p, [Idle EXCEPT !.op = "revoke", !.at = "read", !.id = i])

\* list_credentials_by_scope and revoke_device_credentials: the ids are listed
\* once, before the first of them is dealt with.
list_by_scope(s) == {i \in Ids : metadata[i] = s}

offboard_connector_account_oauth_credentials(p) ==
  begin(p, after([Idle EXCEPT !.op = "offboard", !.todo = list_by_scope("ConnectorAccount")]))

revoke_device_credentials(p) ==
  begin(p, after([Idle EXCEPT !.op = "revoke_device", !.todo = list_by_scope("Device")]))

-----------------------------------------------------------------------------
(* What a call does next.  An error ends the call with what it did.        *)
abandoned(c) ==
  ghost' = IF c.at \in {"write", "metadata"} /\ c.token # 0
           THEN [ghost EXCEPT !.stranded = @ \cup {c.token}] ELSE ghost

\* The store fails, the provider refuses, or the credential is not there.
fails(p) ==
  /\ calls[p].at \in {"read", "secret", "ask", "write", "delete"}
  /\ goto(p, Idle)
  /\ abandoned(calls[p])
  /\ UNCHANGED <<metadata, secrets, live, count>>

\* CredentialStore::read, in the keychain store the metadata and then the secret.
with_secret(c) ==
  [c EXCEPT !.at = IF c.op = "rotate" THEN "rotated" ELSE "ask", !.token = secrets[c.id]]

read(p) ==
  LET c == calls[p]
      r == [c EXCEPT !.scope = IF c.op = "refresh" THEN @ ELSE metadata[c.id]]
  IN /\ c.at = "read"
     /\ metadata[c.id] # None
     /\ goto(p, IF Keychain THEN [r EXCEPT !.at = "secret"] ELSE with_secret(r))
     /\ UNCHANGED <<metadata, secrets, live, count, ghost>>

read_secret(p) ==
  LET c == calls[p]
  IN /\ c.at = "secret"
     /\ secrets[c.id] # 0
     /\ goto(p, with_secret(c))
     /\ UNCHANGED <<metadata, secrets, live, count, ghost>>

\* rotate_credential_secret is given the new secret; the old one is out of use.
rotated(p) ==
  LET c == calls[p]
      t == count.tokens + 1
  IN /\ c.at = "rotated"
     /\ count.tokens < MaxTokens
     /\ goto(p, [c EXCEPT !.at = "write", !.token = t])
     /\ live' = [live EXCEPT ![c.id] = (@ \ {c.token}) \cup {t}]
     /\ count' = [count EXCEPT !.tokens = t]
     /\ UNCHANGED <<metadata, secrets, ghost>>

\* needs_refresh is false: the current token is returned.
still_valid(p) ==
  /\ calls[p].at = "ask" /\ calls[p].op = "refresh"
  /\ goto(p, Idle)
  /\ UNCHANGED <<metadata, secrets, live, count, ghost>>

\* OAuthTokenRefresher::refresh: a new token in the place of the current one.
refresh(p) ==
  LET c == calls[p]
      t == count.tokens + 1
  IN /\ c.at = "ask" /\ c.op = "refresh"
     /\ count.tokens < MaxTokens
     /\ goto(p, [c EXCEPT !.at = "write", !.token = t])
     /\ live' = [live EXCEPT ![c.id] = (@ \ {c.token}) \cup {t}]
     /\ count' = [count EXCEPT !.tokens = t]
     /\ UNCHANGED <<metadata, secrets, ghost>>

\* Faulty variant: the local copy is deleted without the provider's answer.
revoke_unasked(p) ==
  LET c == calls[p]
  IN /\ c.at = "ask" /\ c.op \in {"revoke", "offboard"}
     /\ goto(p, [c EXCEPT !.at = "delete"])
     /\ live' \in {live, [live EXCEPT ![c.id] = @ \ {c.token}]}
     /\ UNCHANGED <<metadata, secrets, count, ghost>>

\* OAuthTokenRevoker::revoke: the token that was read is dead.
revoke(p) ==
  LET c == calls[p]
  IN /\ c.at = "ask" /\ c.op \in {"revoke", "offboard"}
     /\ goto(p, [c EXCEPT !.at = "delete"])
     /\ live' = [live EXCEPT ![c.id] = @ \ {c.token}]
     /\ UNCHANGED <<metadata, secrets, count, ghost>>

\* The provider does it and its answer is lost or invalid: the call ends with an
\* error, a new token is known to nobody, a revoked one is still in the store.
answer_lost(p) ==
  LET c == calls[p]
      t == count.tokens + 1
  IN /\ c.at = "ask"
     /\ goto(p, Idle)
     /\ \/ /\ c.op = "refresh" /\ count.tokens < MaxTokens
           /\ live' = [live EXCEPT ![c.id] = (@ \ {c.token}) \cup {t}]
           /\ ghost' = [ghost EXCEPT !.stranded = @ \cup {t}]
           /\ count' = [count EXCEPT !.tokens = t]
        \/ /\ c.op # "refresh"
           /\ live' = [live EXCEPT ![c.id] = @ \ {c.token}]
           /\ UNCHANGED <<ghost, count>>
     /\ UNCHANGED <<metadata, secrets>>

\* CredentialStore::write.
write(p) ==
  LET c == calls[p]
  IN /\ c.at = "write"
     /\ secrets' = [secrets EXCEPT ![c.id] = c.token]
     /\ IF Keychain
        THEN goto(p, [c EXCEPT !.at = "metadata"]) /\ UNCHANGED metadata
        ELSE goto(p, after(c)) /\ metadata' = [metadata EXCEPT ![c.id] = c.scope]
     /\ UNCHANGED <<live, count, ghost>>

write_metadata(p) ==
  LET c == calls[p]
  IN /\ c.at = "metadata"
     /\ metadata' = [metadata EXCEPT ![c.id] = c.scope]
     /\ goto(p, after(c))
     /\ UNCHANGED <<secrets, live, count, ghost>>

\* CredentialStore::delete.  A device's secrets are not the provider's.
deleted(c) ==
  ghost' = [ghost EXCEPT !.gone = @ \cup {c.id},
                         !.stranded = IF c.op = "revoke_device" THEN @ \cup live[c.id] ELSE @]

delete(p) ==
  LET c == calls[p]
  IN /\ c.at = "delete"
     /\ secrets' = [secrets EXCEPT ![c.id] = 0]
     /\ IF Keychain
        THEN goto(p, [c EXCEPT !.at = "forget"]) /\ UNCHANGED <<metadata, ghost>>
        ELSE /\ goto(p, after(c)) /\ metadata' = [metadata EXCEPT ![c.id] = None]
             /\ deleted(c)
     /\ UNCHANGED <<live, count>>

delete_metadata(p) ==
  LET c == calls[p]
  IN /\ c.at = "forget"
     /\ metadata' = [metadata EXCEPT ![c.id] = None]
     /\ goto(p, after(c))
     /\ deleted(c)
     /\ UNCHANGED <<secrets, live, count>>

Next ==
  \E p \in Callers :
    \/ \E i \in Ids, s \in Scope : connect(p, i, s)
    \/ \E i \in Ids, s \in {"ConnectorAccount", "Connector"} : refresh_oauth_credential(p, i, s)
    \/ \E i \in Ids : rotate_credential_secret(p, i) \/ revoke_oauth_credential(p, i)
    \/ offboard_connector_account_oauth_credentials(p) \/ revoke_device_credentials(p)
    \/ fails(p) \/ answer_lost(p) \/ read(p) \/ read_secret(p) \/ rotated(p) \/ still_valid(p) \/ refresh(p) \/ revoke(p)
    \/ write(p) \/ write_metadata(p) \/ delete(p) \/ delete_metadata(p)

Spec == Init /\ [][Next]_cvars

-----------------------------------------------------------------------------
TypeOK ==
  /\ metadata \in [Ids -> Scope \cup {None}] /\ secrets \in [Ids -> 0..MaxTokens]
  /\ live \in [Ids -> SUBSET (1..MaxTokens)]
  /\ \A p \in Callers : calls[p].id \in Ids \cup {None} /\ calls[p].todo \subseteq Ids

resting(i) == \A p \in Callers : i \notin targets(calls[p])

\* On a credential that calls take one at a time, whatever fails in the store
\* or at the provider: a token the provider still honours is the one in the
\* store, one that a failing store refused or one whose answer was lost, so
\* that no revocation forgets a token that is still good and that was known;
\* and a revoked credential does not come back until it is connected again.
\* Calls that overlap on a credential can do both.
RevocationSound ==
  \A i \in Ids \ ghost.overlapped :
    resting(i) =>
      /\ live[i] \subseteq {secrets[i]} \cup ghost.stranded
      /\ i \in ghost.gone => metadata[i] = None /\ secrets[i] = 0
=============================================================================
