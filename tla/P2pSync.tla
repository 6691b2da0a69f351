------------------------------- MODULE P2pSync -------------------------------
(* Peer-to-peer synchronisation of manifests (crates/p2p-sync-runtime,       *)
(* crates/sync-runtime) between devices that trust each other                *)
(* (crates/device-pairing-core).  A session pulls: it asks the peer for its  *)
(* manifest, then for the records it lacks or that differ, stores them and   *)
(* merges the manifest of the first answer.  The local manifest is borrowed  *)
(* mutably for the whole session, so that its own device cannot edit it then;*)
(* the peer goes on editing, and syncing, between the two answers.           *)
(*                                                                           *)
(* A record's payload is the set of the events it holds, each identified by  *)
(* the version at which it was written; a last-write-wins object is replaced *)
(* as a whole.  Hashes are only compared between records of one object.      *)
EXTENDS Integers

CONSTANTS
  Devices,
  AgentOs,     \* AgentOs[d]: the agent_os_id of device d
  Rank,        \* Rank[d]: the place of d in the lexicographic order of ids
  Objects,
  AppendOnly,  \* the objects whose merge_policy is AppendOnly
  Pairs,       \* <<d, p>>: d may come to trust p
  MaxVersion,  \* bound on the version hashes that edits and merges make
  MaxTime      \* bound on the devices' clocks

ASSUME RankAssumption ==
  /\ Rank \in [Devices -> Int]
  /\ \A d, e \in Devices : Rank[d] = Rank[e] => d = e

ASSUME BoundAssumption == MaxVersion \in Nat /\ MaxTime \in Nat

ASSUME ObjectAssumption == AppendOnly \subseteq Objects

VARIABLES
  manifest,  \* manifest[d][o]: the SyncRecord of o on d, or Absent
  trusted,   \* trusted[d]: the devices with a record in d's DeviceTrustStore
             \* whose level is not Revoked
  session,   \* session[d]: the call of P2pSyncOrchestrator::sync on d
  version,   \* the number of hashes made so far (all are distinct)
  clock      \* clock[d]: the updated_at of d's last edit

vars == <<manifest, trusted, session, version, clock>>

Absent == [by |-> "absent", hash |-> 0, at |-> 0, events |-> {}]

SyncRecord ==
  [by : Devices, hash : 1..MaxVersion, at : 1..MaxTime,
   events : SUBSET (1..MaxVersion)]

SyncManifest == [Objects -> SyncRecord \union {Absent}]

NoObjects == [o \in Objects |-> Absent]

\* No call of sync is waiting for an answer.
Idle == [step |-> "idle", peer |-> "none", remote |-> NoObjects, needed |-> {}]

Waiting(d) == session[d].step # "idle"

\* The objects of the diff that are requested: remote_only and conflicting.
diff_manifests(local, remote) ==
  {o \in Objects : /\ remote[o] # Absent
                   /\ local[o] = Absent \/ local[o].hash # remote[o].hash}

\* Faulty variant: equal timestamps are not broken by the device id.
resolve_conflict_untied(o, local, remote) ==
  IF o \in AppendOnly THEN "Merged"
  ELSE IF remote.at > local.at THEN "RemoteWins" ELSE "LocalWins"

resolve_conflict(o, local, remote) ==
  IF o \in AppendOnly THEN "Merged"
  ELSE IF \/ remote.at > local.at
          \/ remote.at = local.at /\ Rank[remote.by] > Rank[local.by]
       THEN "RemoteWins"
       ELSE "LocalWins"

\* Faulty variant: a merged record keeps the local version_hash.
merge_append_only_same_hash(local, remote, fresh) ==
  [local EXCEPT !.at = IF remote.at > local.at THEN remote.at ELSE local.at,
                !.events = local.events \union remote.events]

\* The hash of a merged record is made of a new Uuid.
merge_append_only_payloads(local, remote, fresh) ==
  [by     |-> local.by,
   hash   |-> fresh,
   at     |-> IF remote.at > local.at THEN remote.at ELSE local.at,
   events |-> local.events \union remote.events]

merge_record(o, local, remote, fresh) ==
  IF remote = Absent THEN local
  ELSE IF local = Absent THEN remote
  ELSE IF local.hash = remote.hash THEN local
  ELSE LET resolution == resolve_conflict(o, local, remote)
       IN  IF resolution = "Merged"
             THEN merge_append_only_payloads(local, remote, fresh)
           ELSE IF resolution = "RemoteWins" THEN remote ELSE local

merge_manifests(local, remote, fresh) ==
  [o \in Objects |-> merge_record(o, local[o], remote[o], fresh)]

\* The peer answers an ObjectRequest with the records it has by then; each is
\* upserted, that is, it replaces the local record.
upsert_objects(local, objects, needed) ==
  [o \in Objects |-> IF o \in needed /\ objects[o] # Absent
                     THEN objects[o] ELSE local[o]]
-----------------------------------------------------------------------------
Init ==
  /\ manifest = [d \in Devices |-> NoObjects]
  /\ trusted = [d \in Devices |-> {}]
  /\ session = [d \in Devices |-> Idle]
  /\ version = 0
  /\ clock = [d \in Devices |-> 0]

\* The application writes o on d: a new snapshot, or one more event.  Clocks
\* of different devices are unrelated; one device's clock moves forward.
Edit(d, o) ==
  /\ ~Waiting(d)
  /\ version < MaxVersion
  /\ \E now \in (clock[d] + 1)..MaxTime :
       /\ clock' = [clock EXCEPT ![d] = now]
       /\ manifest' = [manifest EXCEPT ![d][o] =
            [by |-> d, hash |-> version + 1, at |-> now,
             events |-> IF o \in AppendOnly
                        THEN manifest[d][o].events \union {version + 1}
                        ELSE {version + 1}]]
  /\ version' = version + 1
  /\ UNCHANGED <<trusted, session>>

Remove(d, o) ==
  /\ ~Waiting(d)
  /\ manifest[d][o] # Absent
  /\ manifest' = [manifest EXCEPT ![d][o] = Absent]
  /\ UNCHANGED <<trusted, session, version, clock>>

\* upsert_trust with a level other than Revoked.
UpsertTrust(d, p) ==
  /\ <<d, p>> \in Pairs
  /\ trusted' = [trusted EXCEPT ![d] = @ \union {p}]
  /\ UNCHANGED <<manifest, session, version, clock>>

RevokeTrust(d, p) ==
  /\ p \in trusted[d]
  /\ trusted' = [trusted EXCEPT ![d] = @ \ {p}]
  /\ UNCHANGED <<manifest, session, version, clock>>

\* Steps 1 and 2: the trust check and the manifest request.  Without trust the
\* call fails and changes nothing.
SyncBegin(d, p) ==
  /\ ~Waiting(d)
  /\ p \in trusted[d]
  /\ session' = [session EXCEPT ![d] =
                   [Idle EXCEPT !.step = "manifest", !.peer = p]]
  /\ UNCHANGED <<manifest, trusted, version, clock>>

\* Faulty variant: the AgentOsId of the peer's manifest is not checked.
ManifestArrivesUnchecked(d) ==
  LET remote == manifest[session[d].peer]
      needed == diff_manifests(manifest[d], remote)
  IN  /\ session[d].step = "manifest"
      /\ session' = [session EXCEPT ![d] =
           IF needed = {} THEN Idle
           ELSE [@ EXCEPT !.step = "objects", !.remote = remote,
                          !.needed = needed]]
      /\ UNCHANGED <<manifest, trusted, version, clock>>

\* Steps 2b to 4: the peer's manifest is checked against the local AgentOsId
\* and compared.  When they differ the call fails; when nothing is needed the
\* merge of step 5 skips every object, and the call returns.
ManifestArrives(d) ==
  LET remote == manifest[session[d].peer]
      needed == diff_manifests(manifest[d], remote)
  IN  /\ session[d].step = "manifest"
      /\ session' = [session EXCEPT ![d] =
           IF AgentOs[session[d].peer] # AgentOs[d] \/ needed = {} THEN Idle
           ELSE [@ EXCEPT !.step = "objects", !.remote = remote,
                          !.needed = needed]]
      /\ UNCHANGED <<manifest, trusted, version, clock>>

\* Faulty variant: the call returns once the records are stored, without the merge.
ObjectsArriveUnmerged(d) ==
  /\ session[d].step = "objects"
  /\ manifest' = [manifest EXCEPT ![d] =
       upsert_objects(@, manifest[session[d].peer], session[d].needed)]
  /\ session' = [session EXCEPT ![d] = Idle]
  /\ UNCHANGED <<trusted, version, clock>>

\* Steps 4 to 6: the records are stored as they arrive, and the manifest of
\* the first answer is merged into the result.  The outcome of the ack is
\* ignored.
ObjectsArrive(d) ==
  LET stored == upsert_objects(manifest[d], manifest[session[d].peer],
                               session[d].needed)
      merged == merge_manifests(stored, session[d].remote, version + 1)
      fresh  == \E o \in Objects : merged[o].hash = version + 1
  IN  /\ session[d].step = "objects"
      /\ fresh => version < MaxVersion
      /\ manifest' = [manifest EXCEPT ![d] = merged]
      /\ version' = IF fresh THEN version + 1 ELSE version
      /\ session' = [session EXCEPT ![d] = Idle]
      /\ UNCHANGED <<trusted, clock>>

\* The transport fails (the peer is not reachable, an answer of the wrong
\* kind), or the future is dropped, at one of the two requests.
SyncFails(d) ==
  /\ Waiting(d)
  /\ session' = [session EXCEPT ![d] = Idle]
  /\ UNCHANGED <<manifest, trusted, version, clock>>

Next ==
  \E d \in Devices :
    \/ \E o \in Objects : Edit(d, o)
    \/ \E o \in Objects : Remove(d, o)
    \/ \E p \in Devices \ {d} : UpsertTrust(d, p)
    \/ \E p \in Devices \ {d} : RevokeTrust(d, p)
    \/ \E p \in Devices \ {d} : SyncBegin(d, p)
    \/ ManifestArrives(d)
    \/ ObjectsArrive(d)
    \/ SyncFails(d)

Spec == Init /\ [][Next]_vars
-----------------------------------------------------------------------------
TypeOK ==
  /\ manifest \in [Devices -> SyncManifest]
  /\ trusted \in [Devices -> SUBSET Devices]
  /\ version \in 0..MaxVersion
  /\ clock \in [Devices -> 0..MaxTime]
  /\ DOMAIN session = Devices
  /\ \A d \in Devices :
       \/ session[d] = Idle
       \/ /\ session[d] \in [step : {"manifest", "objects"}, peer : Devices \ {d},
                             remote : SyncManifest, needed : SUBSET Objects]
          /\ (session[d].step = "objects") <=> (session[d].needed # {})
          /\ \A o \in session[d].needed : session[d].remote[o] # Absent
          /\ session[d].step = "manifest" => session[d].remote = NoObjects

\* Two devices whose records of an object have the same version_hash hold the
\* same record: diff_manifests and merge_manifests skip an object on equal
\* hashes without looking at its payload, whatever merges happened elsewhere.
HashDetermines ==
  \A d, e \in Devices, o \in Objects :
    manifest[d][o].hash = manifest[e][o].hash => manifest[d][o] = manifest[e][o]

\* Every record of a device was written by a device of the same Agent OS, even
\* when the owner paired a device of another one: the check of sync's step 2b
\* keeps its data out, and no chain of sessions brings it in.
NoForeignData ==
  \A d \in Devices, o \in Objects :
    manifest[d][o] # Absent => AgentOs[manifest[d][o].by] = AgentOs[d]

Agree(o, r, s) == IF o \in AppendOnly THEN r.events = s.events ELSE r = s

\* Merging d's manifest into e's and e's into d's gives the same result, ties
\* between clocks included: the order in which devices merge does not matter.
MergeConverges ==
  \A d, e \in Devices, o \in Objects :
    Agree(o, merge_record(o, manifest[d][o], manifest[e][o], version + 1),
             merge_record(o, manifest[e][o], manifest[d][o], version + 1))

\* r is at least as new as s: it has all of s's events, or was written last.
Covers(o, r, s) ==
  \/ s = Absent
  \/ /\ r # Absent
     /\ IF o \in AppendOnly THEN s.events \subseteq r.events
        ELSE r.at > s.at \/ (r.at = s.at /\ Rank[r.by] >= Rank[s.by])

\* The call of sync on d returns Ok.
SessionEnds(d) ==
  \/ ObjectsArrive(d)
  \/ /\ ManifestArrives(d)
     /\ AgentOs[session[d].peer] = AgentOs[d]
     /\ session'[d] = Idle

\* A sync that returns Ok has missed nothing the peer told it: what it now
\* holds covers the manifest of the first answer and the records of the
\* second, though the peer edited, removed or synced in between.
NothingMissed ==
  [][\A d \in Devices, o \in Objects : SessionEnds(d) =>
       LET p == session[d].peer IN
       /\ Covers(o, manifest'[d][o], session[d].remote[o])
       /\ (o \in session[d].needed \/ session[d].step = "manifest")
            => Covers(o, manifest'[d][o], manifest[p][o])]_vars

\* MergePolicy promises that of two versions the newer one wins, and that
\* append-only events are kept from both sides: a sync never replaces a local
\* record by an older one and never loses a local event.
NewerKept ==
  [][\A d \in Devices, o \in Objects : SessionEnds(d) =>
       /\ manifest'[d][o].at >= manifest[d][o].at
       /\ o \in AppendOnly =>
            manifest[d][o].events \subseteq manifest'[d][o].events]_vars
=============================================================================
