------------------------ MODULE EnterprisePermissions ------------------------
(***************************************************************************)
(* Enterprise permissions: the grants of a local store, and the store that *)
(* answers from a cached snapshot of a server's grants and memberships,    *)
(* fresh, stale or expired by its age.  Capability policy asks the local   *)
(* store with the actor's role; enterprise search filters what its backend *)
(* found through either store.  Time passes and the server's grants change *)
(* between the calls.                                                      *)
(***************************************************************************)
EXTENDS Integers, Sequences, FiniteSets

CONSTANTS Users, Resources, Units,   \* users; resources; organizations, teams and groups
          GrantIds,                  \* grant ids of the local store
          FreshFor, StaleFor,        \* the cache policy
          Redact,                    \* redact_unauthorized_metadata
          Leads,                     \* how far the provider's stamps are ahead of the clock
          MaxGrants, MaxTime         \* bounds: local grants, time

VARIABLES grants,     \* local store: grants in the order they were added
          lifecycle,  \* local store: lifecycle of each user
          server,     \* the provider: its current snapshot
          cache,      \* the cached snapshot, its age and the lifecycles set in it
          clock,
          answer,     \* the last decision or search, while nothing else has happened
          ghost       \* held: when the server last gave each access; lead: how far
                      \* the stamp of the cached snapshot was ahead when it came;
                      \* offboarded: users the host has offboarded in the cached store

bvars == <<grants, lifecycle, server, cache, clock, answer, ghost>>

\* What a user is besides active; a disabled one is treated as a suspended one.
EnterpriseUserLifecycle == {"active", "suspended", "offboarded"}
EnterpriseRole == {"user", "admin", "super_admin"}
PermissionAction == {"read", "write"}
None == "none"
Never == MaxTime + 1
Long == MaxTime + FreshFor + StaleFor + 1
NoAnswer == [kind |-> None]

\* What a snapshot holds: direct grants, memberships and grants of a unit; a
\* direct grant and a membership may expire.
Items == [kind : {"direct"}, user : Users, expires : {1, Never}, resource : Resources]
         \cup [kind : {"member"}, user : Users, expires : {1, Never}, unit : Units]
         \cup [kind : {"unit"}, unit : Units, resource : Resources]

Init ==
  /\ grants = <<>> /\ lifecycle = [u \in Users |-> "active"]
  /\ server = {} /\ clock = 0 /\ answer = NoAnswer
  /\ cache = [fetched |-> -Long, store |-> {}, lifecycle |-> [u \in Users |-> "active"]]
  /\ ghost = [held |-> [u \in Users |-> [r \in Resources |-> -Long]], lead |-> 0, offboarded |-> {}]

local == UNCHANGED <<server, cache, clock, ghost>> /\ answer' = NoAnswer
remote == UNCHANGED <<grants, lifecycle, clock>> /\ answer' = NoAnswer

-----------------------------------------------------------------------------
(* The local PermissionStore.                                              *)
can_transition_to(from, next) == from # "offboarded" \/ next = "offboarded"

is_active(g) == ~g.revoked /\ clock < g.expires

add_grant(g) ==
  /\ Len(grants) < MaxGrants
  /\ grants' = Append(grants, g)
  /\ UNCHANGED lifecycle /\ local

\* revoke_grant marks the first grant with the id.
revoke_grant(id) ==
  /\ \E i \in 1..Len(grants) :
       /\ grants[i].id = id
       /\ \A j \in 1..(i - 1) : grants[j].id # id
       /\ grants' = [grants EXCEPT ![i].revoked = TRUE]
  /\ UNCHANGED lifecycle /\ local

revoke_all(s, u) == [i \in 1..Len(s) |-> IF s[i].user = u THEN [s[i] EXCEPT !.revoked = TRUE] ELSE s[i]]

revoke_all_grants_for_user(u) ==
  /\ grants' = revoke_all(grants, u)
  /\ UNCHANGED lifecycle /\ local

set_user_lifecycle(u, next) ==
  /\ can_transition_to(lifecycle[u], next)
  /\ lifecycle' = [lifecycle EXCEPT ![u] = next]
  /\ UNCHANGED grants /\ local

check(u, r, a) ==
  /\ lifecycle[u] = "active"
  /\ \E i \in 1..Len(grants) :
       grants[i].user = u /\ grants[i].resource = r /\ is_active(grants[i]) /\ a \in grants[i].actions

check_with_role(u, role, r, a) ==
  /\ lifecycle[u] = "active"
  /\ role = "super_admin" \/ (role = "admin" /\ a = "read") \/ check(u, r, a)

-----------------------------------------------------------------------------
(* The server-backed store.                                                *)
inherits(store, u, r) ==
  \/ \E i \in store : i.kind = "direct" /\ i.user = u /\ i.resource = r /\ clock < i.expires
  \/ \E m, g \in store : /\ m.kind = "member" /\ m.user = u /\ clock < m.expires
                         /\ g.kind = "unit" /\ g.unit = m.unit /\ g.resource = r

held_now == [u \in Users |-> [r \in Resources |->
  IF inherits(server, u, r) \/ inherits(server', u, r) THEN clock ELSE ghost.held[u][r]]]

set_snapshot(i) ==
  /\ server' = IF i \in server THEN server \ {i} ELSE server \cup {i}
  /\ ghost' = [ghost EXCEPT !.held = held_now]
  /\ UNCHANGED cache /\ remote

cache_status_at ==
  LET age == clock - cache.fetched
  IN IF age <= FreshFor THEN "fresh" ELSE IF age <= FreshFor + StaleFor THEN "stale" ELSE "expired"

fetched_store(stamp) == [fetched |-> stamp, store |-> server, lifecycle |-> [u \in Users |-> "active"]]

\* Faulty variant: a failed refresh makes the cached snapshot fresh again.
refresh_renews(available, lead) ==
  /\ cache' = IF available THEN fetched_store(clock + lead) ELSE [cache EXCEPT !.fetched = clock]
  /\ ghost' = IF available THEN [ghost EXCEPT !.lead = lead] ELSE ghost
  /\ UNCHANGED server /\ remote

\* refresh: the snapshot replaces the cached store, with the lifecycles that the
\* host had set in it, and its age counts from the provider's own stamp, which
\* nothing compares with the clock; a failure leaves the cached snapshot.
refresh(available, lead) ==
  /\ cache' = IF available THEN fetched_store(clock + lead) ELSE cache
  /\ ghost' = IF available THEN [ghost EXCEPT !.lead = lead] ELSE ghost
  /\ UNCHANGED server /\ remote

cached_set_user_lifecycle(u, next) ==
  /\ can_transition_to(cache.lifecycle[u], next)
  /\ cache' = [cache EXCEPT !.lifecycle[u] = next]
  /\ ghost' = [ghost EXCEPT !.offboarded = IF next = "offboarded" THEN @ \cup {u} ELSE @]
  /\ UNCHANGED server /\ remote

\* invalidate_user: the grants of the user are revoked, the memberships removed.
invalidate_user(u) ==
  /\ cache' = [cache EXCEPT !.store = {i \in @ : i.kind = "unit" \/ i.user # u}]
  /\ UNCHANGED <<server, ghost>> /\ remote

check_with_inheritance(u, r) ==
  cache_status_at # "expired" /\ cache.lifecycle[u] = "active" /\ inherits(cache.store, u, r)

-----------------------------------------------------------------------------
(* Decisions and searches.                                                 *)
\* apply_context: a decision the policy has not denied is turned down unless the
\* store allows the actor; without an actor or a store it is turned down too.
evaluate_with_context(base, u, role, r, a) ==
  LET allowed == u # None /\ check_with_role(u, role, r, a)
  IN /\ answer' = [kind |-> "policy", user |-> u, role |-> role, resource |-> r, action |-> a,
                   decision |-> IF base = "deny" \/ allowed THEN base ELSE "deny"]
     /\ UNCHANGED <<grants, lifecycle, server, cache, clock, ghost>>

permits(source, u, r) == IF source = "local" THEN check(u, r, "read") ELSE check_with_inheritance(u, r)

status(source) == IF source = "local" THEN "fresh" ELSE cache_status_at

user_lifecycle(source, u) == IF source = "local" THEN lifecycle[u] ELSE cache.lifecycle[u]

most_conservative_cache_status(source, found) == IF found = {} THEN None ELSE status(source)

\* search_at: the backend answers with what it found in some resources and a
\* total of its own; unauthorized results go, and with them their number.
search_at(source, u, found, total) ==
  /\ answer' =
       IF user_lifecycle(source, u) # "active"
       THEN [kind |-> "search", source |-> source, user |-> u, results |-> {}, total |-> 0,
             filtered |-> 0, status |-> "fresh", warned |-> TRUE]
       ELSE LET results == {r \in found : permits(source, u, r)}
            IN [kind |-> "search", source |-> source, user |-> u, results |-> results,
                total |-> IF Redact THEN Cardinality(results) ELSE total,
                filtered |-> IF Redact THEN 0 ELSE Cardinality(found \ results),
                status |-> most_conservative_cache_status(source, found),
                warned |-> most_conservative_cache_status(source, found) = "stale"]
  /\ UNCHANGED <<grants, lifecycle, server, cache, clock, ghost>>

tick ==
  /\ clock < MaxTime
  /\ clock' = clock + 1
  /\ answer' = NoAnswer
  /\ UNCHANGED <<grants, lifecycle, server, cache>>
  /\ ghost' = [ghost EXCEPT !.held = held_now]

LocalNext ==
  \/ \E g \in [id : GrantIds, user : Users, resource : Resources, actions : {{"read"}, PermissionAction},
               expires : {1, Never}, revoked : {FALSE}] : add_grant(g)
  \/ \E id \in GrantIds : revoke_grant(id)
  \/ \E u \in Users :
       \/ revoke_all_grants_for_user(u)
       \/ \E next \in EnterpriseUserLifecycle : set_user_lifecycle(u, next)
       \/ \E found \in SUBSET Resources : search_at("local", u, found, Cardinality(found))
  \/ \E base \in {"allow", "ask", "deny"}, u \in Users \cup {None}, role \in EnterpriseRole,
        r \in Resources, a \in PermissionAction : evaluate_with_context(base, u, role, r, a)
  \/ tick

CachedNext ==
  \/ \E i \in Items : set_snapshot(i)
  \/ \E available \in BOOLEAN, lead \in Leads : refresh(available, lead)
  \/ \E u \in Users :
       \/ invalidate_user(u)
       \/ \E next \in EnterpriseUserLifecycle : cached_set_user_lifecycle(u, next)
       \/ \E found \in SUBSET Resources : search_at("cached", u, found, Cardinality(found))
  \/ tick

Next == LocalNext \/ CachedNext
Spec == Init /\ [][Next]_bvars
CachedSpec == Init /\ [][CachedNext]_bvars
-----------------------------------------------------------------------------
\* An access that the server withdrew ends in the cached store too: whatever the
\* provider's failures and the order of refreshes, an access is given no longer
\* than the cache policy's two periods after the server gave it last, and as much
\* longer, or less long, as the provider's stamp was ahead of the clock or behind
\* it; a search through the store shows only what some access allows at its time.
StaleAccessEnds ==
  /\ \A u \in Users, r \in Resources :
       check_with_inheritance(u, r) =>
         inherits(server, u, r) \/ clock - ghost.held[u][r] <= FreshFor + StaleFor + ghost.lead
  /\ answer.kind = "search" =>
       /\ \A r \in answer.results : permits(answer.source, answer.user, r)
       /\ answer.status = "expired" => answer.results = {}
       /\ Redact => answer.total = Cardinality(answer.results)

\* A user whom the host has offboarded in the cached store is denied: what the
\* test server_backed_store_denies_offboarded_user says of one store and moment.
OffboardedDenied ==
  \A u \in ghost.offboarded, r \in Resources : ~check_with_inheritance(u, r)
=============================================================================
