----------------------------- MODULE SyncProofs -----------------------------
(***************************************************************************)
(* Proofs about what is synchronised, for any devices, objects, callers    *)
(* and bounds.  P2pSync: its types, that equal hashes mean equal records,  *)
(* that data of another Agent OS stays out, that merges converge and that  *)
(* a session that returns Ok has missed nothing.  SyncTransfer: that what  *)
(* the receiver decrypted is what the sender wrote.  ClientSubstrate: that *)
(* the application that pages through the log sees every event once, and   *)
(* that the queue and the projections agree with the journal once no push  *)
(* is under way.  ServerSync: that a client's projection is what the       *)
(* backend's stream says up to its cursor.                                 *)
(***************************************************************************)
EXTENDS P2pSync, FiniteSetTheorems, SequenceTheorems, WellFoundedInduction, TLAPS

CONSTANTS KeyIds, KeyBytes, Policy, MaxContent,
          MaxTicks, Lifetime, MaxKeys, MaxInbox                       \* of SyncTransfer, with Objects
CONSTANTS Callers, Conversations, Actions, MaxCommands                \* of ClientSubstrate
CONSTANTS Permissions, Named, Publications, MaxSequence, MaxPages      \* of ServerSync, with Objects

VARIABLES source, marks, offered, keys, connected,
          inbox, received, time, ghost                                 \* of SyncTransfer
VARIABLES journal, calls, projections, events, log, client            \* of ClientSubstrate
VARIABLES stream, kept, answers, latest, saved                         \* of ServerSync

\* The transfer of objects, the facade of the client and its projection of the backend's
\* stream, each with variables of its own.
Transfer == INSTANCE SyncTransfer WITH manifest <- offered, clock <- time, MaxTime <- MaxTicks
Client == INSTANCE ClientSubstrate
Stream == INSTANCE ServerSync WITH pages <- answers, held <- latest

\* The modules count the elements of a set alike.
LEMMA SameCount ==
  \A S : /\ Transfer!Cardinality(S) = Cardinality(S) /\ Client!Cardinality(S) = Cardinality(S)
         /\ Stream!Cardinality(S) = Cardinality(S)
BY DEF Cardinality, Transfer!Cardinality, Client!Cardinality, Stream!Cardinality

-----------------------------------------------------------------------------
(* P2pSync.                                                                *)
\* What a device has of an object: a record or none.
Copy == SyncRecord \union {Absent}

\* Every record of o that exists: in a manifest, or in an answer that a
\* session still holds, and the absence of one.
Held(o) == {Absent} \union
           {manifest[d][o] : d \in Devices} \union
           {session[d].remote[o] : d \in Devices}

\* No hash is ahead of the counter, and a hash stands for one record.
HashInv ==
  \A o \in Objects :
    /\ \A r \in Held(o) : r.hash <= version
    /\ \A r, s \in Held(o) : r.hash = s.hash => r = s

\* A session waits for objects only of a device of its own Agent OS, and holds
\* no record of another one.
OwnInv ==
  /\ NoForeignData
  /\ \A d \in Devices :
       /\ session[d].step = "objects" => AgentOs[session[d].peer] = AgentOs[d]
       /\ \A o \in Objects : session[d].remote[o] # Absent =>
            AgentOs[session[d].remote[o].by] = AgentOs[d]


\* Absent is no record, and its fields have the types the guards rely on.
LEMMA AbsentFacts ==
  /\ Absent \notin SyncRecord
  /\ Absent.hash = 0 /\ Absent.at = 0 /\ Absent.events = {}
  /\ \A r \in SyncRecord : r.hash # 0
BY DEF Absent, SyncRecord

\* A copy has a hash, a time and events, and is a record if its hash is not 0.
LEMMA CopyFacts ==
  ASSUME NEW r \in Copy
  PROVE  /\ r.hash \in Nat /\ r.at \in Nat /\ r.events \subseteq 1..MaxVersion
         /\ (r = Absent) <=> (r.hash = 0)
         /\ r # Absent => r \in SyncRecord
BY AbsentFacts, BoundAssumption DEF Copy, Absent, SyncRecord

\* A session that waits for nothing holds nothing.
LEMMA IdleFacts ==
  /\ Idle.step = "idle" /\ Idle.remote = NoObjects /\ Idle.needed = {}
  /\ NoObjects \in SyncManifest
  /\ \A o \in Objects : NoObjects[o] = Absent
BY DEF Idle, NoObjects, SyncManifest

\* What TypeOK says of one session.
LEMMA SessionFacts ==
  ASSUME TypeOK, NEW d \in Devices
  PROVE  /\ session[d].remote \in SyncManifest
         /\ session[d].needed \subseteq Objects
         /\ session[d].step \in {"idle", "manifest", "objects"}
         /\ Waiting(d) => /\ session[d].peer \in Devices \ {d}
                          /\ session[d] \in [step : {"manifest", "objects"},
                                 peer : Devices \ {d}, remote : SyncManifest,
                                 needed : SUBSET Objects]
         /\ session[d].step = "objects" => session[d].needed # {}
         /\ \A o \in session[d].needed : session[d].remote[o] # Absent
         /\ session[d].step = "manifest" => session[d].remote = NoObjects
<1>1. CASE session[d] = Idle
  BY <1>1, IdleFacts DEF Waiting
<1>2. CASE session[d] # Idle
  BY <1>2 DEF TypeOK, Waiting
<1> QED BY <1>1, <1>2

\* What is held of an object is one of its copies, and the absence of one is held.
LEMMA HeldFacts ==
  ASSUME TypeOK, NEW o \in Objects
  PROVE  /\ Held(o) \subseteq Copy
         /\ Absent \in Held(o)
         /\ \A d \in Devices : manifest[d][o] \in Held(o)
         /\ \A d \in Devices : session[d].remote[o] \in Held(o)
<1>1. \A d \in Devices : manifest[d][o] \in Copy
  <2>1. \A d \in Devices : manifest[d] \in SyncManifest
    BY DEF TypeOK
  <2> QED BY <2>1 DEF SyncManifest, Copy
<1>2. \A d \in Devices : session[d].remote[o] \in Copy
  <2>1. \A d \in Devices : session[d].remote \in SyncManifest
    BY SessionFacts
  <2> QED BY <2>1 DEF SyncManifest, Copy
<1> QED BY <1>1, <1>2 DEF Held, Copy

\* A merge keeps one of the two records, or makes a new one of two that differ.
LEMMA MergeChoice ==
  ASSUME NEW o, NEW l, NEW r, NEW fresh
  PROVE  \/ merge_record(o, l, r, fresh) = l
         \/ merge_record(o, l, r, fresh) = r
         \/ /\ merge_record(o, l, r, fresh) = merge_append_only_payloads(l, r, fresh)
            /\ l # Absent /\ r # Absent
BY DEF merge_record

\* The merge of the payloads of two records is a record of the local device, with the fresh hash.
LEMMA MergedFacts ==
  ASSUME NEW l \in SyncRecord, NEW r \in SyncRecord, NEW fresh \in 1..MaxVersion
  PROVE  /\ merge_append_only_payloads(l, r, fresh) \in SyncRecord
         /\ merge_append_only_payloads(l, r, fresh).hash = fresh
         /\ merge_append_only_payloads(l, r, fresh).by = l.by
BY DEF merge_append_only_payloads, SyncRecord

\* What an arrival of objects leaves in the manifest: a record that was already
\* held, or one whose hash is new.
LEMMA Arrival ==
  ASSUME TypeOK, NEW d \in Devices, ObjectsArrive(d), HashInv
  PROVE  /\ version' \in {version, version + 1}
         /\ version' \in 0..MaxVersion
         /\ session[d].peer \in Devices
         /\ \A o \in Objects :
              \/ manifest'[d][o] \in {manifest[d][o], manifest[session[d].peer][o],
                                      session[d].remote[o]}
              \/ /\ version' = version + 1
                 /\ manifest'[d][o] \in SyncRecord
                 /\ manifest'[d][o].hash = version + 1
                 /\ manifest'[d][o].by \in {manifest[d][o].by,
                                            manifest[session[d].peer][o].by}
                 /\ \/ /\ manifest[d][o] # Absent
                       /\ manifest'[d][o].by = manifest[d][o].by
                    \/ /\ manifest[session[d].peer][o] # Absent
                       /\ manifest'[d][o].by = manifest[session[d].peer][o].by
<1> DEFINE p == session[d].peer
           stored == upsert_objects(manifest[d], manifest[p], session[d].needed)
           merged == merge_manifests(stored, session[d].remote, version + 1)
           fresh == \E o \in Objects : merged[o].hash = version + 1
<1>1. /\ session[d].step = "objects"
      /\ fresh => version < MaxVersion
      /\ manifest' = [manifest EXCEPT ![d] = merged]
      /\ version' = IF fresh THEN version + 1 ELSE version
  BY DEF ObjectsArrive
<1>2. p \in Devices
  BY <1>1, SessionFacts DEF Waiting
<1>3. version \in 0..MaxVersion /\ manifest'[d] = merged
  BY <1>1 DEF TypeOK
<1>4. version' \in {version, version + 1} /\ version' \in 0..MaxVersion
  BY <1>1, <1>3, BoundAssumption
<1>5. ASSUME NEW o \in Objects
      PROVE  \/ merged[o] \in {manifest[d][o], manifest[p][o], session[d].remote[o]}
             \/ /\ version' = version + 1
                /\ merged[o] \in SyncRecord
                /\ merged[o].hash = version + 1
                /\ \/ /\ manifest[d][o] # Absent
                      /\ merged[o].by = manifest[d][o].by
                   \/ /\ manifest[p][o] # Absent
                      /\ merged[o].by = manifest[p][o].by
  <2>1. stored[o] \in {manifest[d][o], manifest[p][o]}
    BY DEF upsert_objects
  <2>2. merged[o] = merge_record(o, stored[o], session[d].remote[o], version + 1)
    BY DEF merge_manifests
  <2>3. CASE merged[o] = stored[o] \/ merged[o] = session[d].remote[o]
    BY <2>1, <2>3
  <2>4. CASE /\ merged[o] = merge_append_only_payloads(stored[o],
                               session[d].remote[o], version + 1)
             /\ stored[o] # Absent /\ session[d].remote[o] # Absent
    <3>1. stored[o] \in SyncRecord /\ session[d].remote[o] \in SyncRecord
      BY <2>1, <2>4, <1>2, HeldFacts, CopyFacts
    <3>2. merged[o].hash = version + 1
      BY <2>4 DEF merge_append_only_payloads
    <3>3. version' = version + 1 /\ version + 1 \in 1..MaxVersion
      BY <3>2, <1>1, <1>3, BoundAssumption
    <3> DEFINE l == stored[o]
               r == session[d].remote[o]
               v == version + 1
    <3>5. l \in SyncRecord /\ r \in SyncRecord
      BY <3>1
    <3>6. merged[o] = merge_append_only_payloads(l, r, v) /\ v \in 1..MaxVersion
      BY <2>4, <3>3
    <3> HIDE DEF l, r, v, merged, stored
    <3>8. /\ merge_append_only_payloads(l, r, v) \in SyncRecord
          /\ merge_append_only_payloads(l, r, v).by = l.by
      BY <3>5, <3>6, MergedFacts
    <3>7. merged[o] \in SyncRecord /\ merged[o].by = l.by
      BY <3>6, <3>8
    <3>4. merged[o] \in SyncRecord /\ merged[o].by = stored[o].by
      BY <3>7 DEF l
    <3> QED BY <2>1, <2>4, <3>2, <3>3, <3>4
  <2> HIDE DEF stored, merged
  <2> QED BY <2>2, <2>3, <2>4, MergeChoice
<1> HIDE DEF p, stored, merged, fresh
<1>6. \A o \in Objects : manifest'[d][o] = merged[o]
  BY <1>3
<1> QED BY <1>2, <1>4, <1>5, <1>6 DEF p
-----------------------------------------------------------------------------
(* The types. *)

LEMMA TypeInit == Init => TypeOK
BY IdleFacts, BoundAssumption DEF Init, TypeOK

\* A step that leaves the sessions alone keeps what TypeOK says of them, and so
\* does one that changes the session of d into a well-formed one.
LEMMA TypeStep == ASSUME TypeOK, [Next]_vars, HashInv PROVE TypeOK'
<1> DEFINE SessionOK(e, x) ==
      \/ x = Idle
      \/ /\ x \in [step : {"manifest", "objects"}, peer : Devices \ {e},
                   remote : SyncManifest, needed : SUBSET Objects]
         /\ (x.step = "objects") <=> (x.needed # {})
         /\ \A o \in x.needed : x.remote[o] # Absent
         /\ x.step = "manifest" => x.remote = NoObjects
<1>0. /\ manifest \in [Devices -> SyncManifest]
      /\ trusted \in [Devices -> SUBSET Devices]
      /\ version \in 0..MaxVersion
      /\ clock \in [Devices -> 0..MaxTime]
      /\ DOMAIN session = Devices
      /\ \A e \in Devices : SessionOK(e, session[e])
  BY DEF TypeOK
<1>q. ASSUME manifest' \in [Devices -> SyncManifest],
             trusted' \in [Devices -> SUBSET Devices],
             version' \in 0..MaxVersion,
             clock' \in [Devices -> 0..MaxTime],
             DOMAIN session' = Devices,
             \A e \in Devices : SessionOK(e, session'[e])
      PROVE  TypeOK'
  BY <1>q DEF TypeOK
<1> HIDE DEF SessionOK
<1>1. CASE UNCHANGED vars
  BY <1>0, <1>1, <1>q DEF vars
<1>2. ASSUME NEW d \in Devices, NEW o \in Objects, Edit(d, o) PROVE TypeOK'
  <2>1. PICK now \in (clock[d] + 1)..MaxTime :
          /\ clock' = [clock EXCEPT ![d] = now]
          /\ manifest' = [manifest EXCEPT ![d][o] =
               [by |-> d, hash |-> version + 1, at |-> now,
                events |-> IF o \in AppendOnly
                           THEN manifest[d][o].events \union {version + 1}
                           ELSE {version + 1}]]
    BY <1>2 DEF Edit
  <2>2. now \in 1..MaxTime /\ version + 1 \in 1..MaxVersion
    BY <1>0, <1>2, <2>1, BoundAssumption DEF Edit
  <2>3. manifest[d][o].events \subseteq 1..MaxVersion
    BY HeldFacts, CopyFacts
  <2> DEFINE new == [by |-> d, hash |-> version + 1, at |-> now,
                     events |-> IF o \in AppendOnly
                                THEN manifest[d][o].events \union {version + 1}
                                ELSE {version + 1}]
  <2>4. new \in SyncRecord
    BY <2>2, <2>3 DEF SyncRecord
  <2>5. manifest' = [manifest EXCEPT ![d][o] = new]
    BY <2>1
  <2> HIDE DEF new
  <2>6. manifest' \in [Devices -> SyncManifest]
    BY <1>0, <2>4, <2>5 DEF SyncManifest
  <2>7. clock' \in [Devices -> 0..MaxTime]
    BY <1>0, <2>1, <2>2
  <2>8. version' \in 0..MaxVersion /\ UNCHANGED <<trusted, session>>
    BY <1>2, <2>2 DEF Edit
  <2> QED BY <1>0, <1>q, <2>6, <2>7, <2>8
<1>3. ASSUME NEW d \in Devices, NEW o \in Objects, Remove(d, o) PROVE TypeOK'
  <2>1. manifest' \in [Devices -> SyncManifest]
    BY <1>0, <1>3 DEF Remove, SyncManifest
  <2> QED BY <1>0, <1>3, <1>q, <2>1 DEF Remove
<1>4. ASSUME NEW d \in Devices, NEW p \in Devices \ {d}, UpsertTrust(d, p)
      PROVE  TypeOK'
  <2>1. trusted' \in [Devices -> SUBSET Devices]
    BY <1>0, <1>4 DEF UpsertTrust
  <2> QED BY <1>0, <1>4, <1>q, <2>1 DEF UpsertTrust
<1>5. ASSUME NEW d \in Devices, NEW p \in Devices \ {d}, RevokeTrust(d, p)
      PROVE  TypeOK'
  <2>1. trusted' \in [Devices -> SUBSET Devices]
    BY <1>0, <1>5 DEF RevokeTrust
  <2> QED BY <1>0, <1>5, <1>q, <2>1 DEF RevokeTrust
<1>6. ASSUME NEW d \in Devices, NEW p \in Devices \ {d}, SyncBegin(d, p)
      PROVE  TypeOK'
  <2> DEFINE begun == [Idle EXCEPT !.step = "manifest", !.peer = p]
  <2>1. SessionOK(d, begun)
    BY IdleFacts DEF SessionOK, Idle
  <2>2. /\ session' = [session EXCEPT ![d] = begun]
        /\ UNCHANGED <<manifest, trusted, version, clock>>
    BY <1>6 DEF SyncBegin
  <2> HIDE DEF begun
  <2>3. \A e \in Devices : SessionOK(e, session'[e])
    BY <1>0, <2>1, <2>2
  <2> QED BY <1>0, <1>q, <2>2, <2>3
<1>7. ASSUME NEW d \in Devices, ManifestArrives(d) PROVE TypeOK'
  <2> DEFINE p == session[d].peer
             needed == diff_manifests(manifest[d], manifest[p])
             asks == [session[d] EXCEPT !.step = "objects",
                        !.remote = manifest[p], !.needed = needed]
  <2>1. /\ session[d].step = "manifest"
        /\ UNCHANGED <<manifest, trusted, version, clock>>
        /\ \/ session' = [session EXCEPT ![d] = Idle]
           \/ needed # {} /\ session' = [session EXCEPT ![d] = asks]
    BY <1>7 DEF ManifestArrives
  <2>2. p \in Devices /\ session[d] \in [step : {"manifest", "objects"},
          peer : Devices \ {d}, remote : SyncManifest, needed : SUBSET Objects]
    BY <2>1, SessionFacts DEF Waiting
  <2>3. needed \subseteq Objects /\ \A o \in needed : manifest[p][o] # Absent
    BY DEF diff_manifests
  <2>4. manifest[p] \in SyncManifest
    BY <1>0, <2>2
  <2> HIDE DEF needed
  <2>5. needed # {} => SessionOK(d, asks)
    BY <2>2, <2>3, <2>4 DEF SessionOK
  <2>7. SessionOK(d, Idle)
    BY DEF SessionOK
  <2> HIDE DEF asks
  <2>6. \A e \in Devices : SessionOK(e, session'[e])
    BY <1>0, <2>1, <2>5, <2>7
  <2> QED BY <1>0, <1>q, <2>1, <2>6
<1>8. ASSUME NEW d \in Devices, ObjectsArrive(d) PROVE TypeOK'
  <2>1. /\ DOMAIN session' = Devices
        /\ \A e \in Devices : SessionOK(e, session'[e])
        /\ UNCHANGED <<trusted, clock>>
    BY <1>0, <1>8 DEF ObjectsArrive, SessionOK
  <2>2. \A o \in Objects : manifest'[d][o] \in Copy
    BY <1>8, Arrival, HeldFacts DEF Copy
  <2> DEFINE merged == merge_manifests(
               upsert_objects(manifest[d], manifest[session[d].peer],
                              session[d].needed),
               session[d].remote, version + 1)
  <2>3. manifest' = [manifest EXCEPT ![d] = merged]
    BY <1>8 DEF ObjectsArrive
  <2>5. merged = [o \in Objects |-> merged[o]]
    BY DEF merge_manifests
  <2> HIDE DEF merged
  <2>4. manifest' \in [Devices -> SyncManifest]
    <3>1. manifest'[d] = merged
      BY <1>0, <2>3
    <3>2. merged \in SyncManifest
      BY <2>2, <2>5, <3>1 DEF SyncManifest, Copy
    <3> QED BY <1>0, <2>3, <3>2
  <2> QED BY <1>0, <1>8, <1>q, <2>1, <2>4, Arrival
<1>9. ASSUME NEW d \in Devices, SyncFails(d) PROVE TypeOK'
  BY <1>0, <1>9, <1>q DEF SyncFails, SessionOK
<1> QED
  BY <1>1, <1>2, <1>3, <1>4, <1>5, <1>6, <1>7, <1>8, <1>9 DEF Next
-----------------------------------------------------------------------------
(* Hashes. *)

LEMMA HashInit == Init => HashInv
<1> SUFFICES ASSUME Init, NEW o \in Objects, NEW r \in Held(o)
             PROVE  r = Absent /\ r.hash <= version
  BY DEF HashInv
<1> QED BY IdleFacts, AbsentFacts DEF Init, Held

\* HashInv survives a step after which every record held was held before, or
\* is the one new record of its object, with the hash the step has made.
LEMMA HashKept ==
  ASSUME TypeOK, HashInv, NEW new,
         version' = version \/ version' = version + 1,
         \A o \in Objects : \A r \in Held(o)' :
           \/ r \in Held(o)
           \/ r = new[o] /\ r.hash = version + 1 /\ version' = version + 1
  PROVE  HashInv'
<1>1. version \in Nat
  BY BoundAssumption DEF TypeOK
<1> SUFFICES ASSUME NEW o \in Objects
             PROVE  /\ \A r \in Held(o)' : r.hash <= version'
                    /\ \A r, s \in Held(o)' : r.hash = s.hash => r = s
  BY DEF HashInv
<1>2. \A r \in Held(o) : r.hash \in Nat /\ r.hash <= version
  BY HeldFacts, CopyFacts DEF HashInv
<1>3. \A r, s \in Held(o) : r.hash = s.hash => r = s
  BY DEF HashInv
<1> QED BY <1>1, <1>2, <1>3

\* A step of d changes what d's manifest and d's session hold.
LEMMA HeldStep ==
  ASSUME NEW d \in Devices, NEW o \in Objects,
         \A e \in Devices \ {d} : /\ manifest'[e][o] = manifest[e][o]
                                  /\ session'[e] = session[e]
  PROVE  \A r \in Held(o)' :
           r \in Held(o) \/ r = manifest'[d][o] \/ r = session'[d].remote[o]
BY DEF Held

\* Every step keeps one record to a hash.
LEMMA HashStep == ASSUME TypeOK, TypeOK', [Next]_vars, HashInv PROVE HashInv'
<1>0. /\ manifest \in [Devices -> SyncManifest]
      /\ DOMAIN session = Devices
  BY DEF TypeOK
\* A step of d whose records were all held, and one that makes a new record.
<1>a. ASSUME NEW d \in Devices,
             version' = version \/ version' = version + 1,
             \A e \in Devices \ {d} : manifest'[e] = manifest[e],
             \A e \in Devices \ {d} : session'[e] = session[e],
             \A o \in Objects : session'[d].remote[o] \in Held(o),
             \A o \in Objects :
               \/ manifest'[d][o] \in Held(o)
               \/ /\ manifest'[d][o].hash = version + 1
                  /\ version' = version + 1
      PROVE  HashInv'
  <2> DEFINE new == manifest'[d]
  <2>1. \A o \in Objects : \A r \in Held(o)' :
          \/ r \in Held(o)
          \/ r = new[o] /\ r.hash = version + 1 /\ version' = version + 1
    BY <1>a, HeldStep
  <2> HIDE DEF new
  <2> QED BY <1>a, <2>1, HashKept
<1>b. \A d \in Devices, o \in Objects :
        manifest[d][o] \in Held(o) /\ session[d].remote[o] \in Held(o)
  BY HeldFacts
<1>c. \A o \in Objects : Idle.remote[o] \in Held(o)
  BY HeldFacts, IdleFacts
<1>1. CASE UNCHANGED vars
  BY <1>1 DEF vars, HashInv, Held
<1>2. ASSUME NEW d \in Devices, NEW o \in Objects, Edit(d, o) PROVE HashInv'
  <2>1. /\ version' = version + 1 /\ session' = session
        /\ \A e \in Devices \ {d} : manifest'[e] = manifest[e]
        /\ \A q \in Objects \ {o} : manifest'[d][q] = manifest[d][q]
        /\ manifest'[d][o].hash = version + 1
    BY <1>0, <1>2 DEF Edit, SyncManifest
  <2> QED BY <1>a, <1>b, <2>1
<1>3. ASSUME NEW d \in Devices, NEW o \in Objects, Remove(d, o) PROVE HashInv'
  <2>1. /\ version' = version /\ session' = session
        /\ \A e \in Devices \ {d} : manifest'[e] = manifest[e]
        /\ \A q \in Objects \ {o} : manifest'[d][q] = manifest[d][q]
        /\ manifest'[d][o] = Absent
    BY <1>0, <1>3 DEF Remove, SyncManifest
  <2> QED BY <1>a, <1>b, <2>1, HeldFacts
<1>4. ASSUME NEW d \in Devices, NEW p \in Devices \ {d},
             UpsertTrust(d, p) \/ RevokeTrust(d, p)
      PROVE  HashInv'
  BY <1>4 DEF UpsertTrust, RevokeTrust, HashInv, Held
<1>6. ASSUME NEW d \in Devices, NEW p \in Devices \ {d}, SyncBegin(d, p)
      PROVE  HashInv'
  <2>1. /\ version' = version /\ manifest' = manifest
        /\ \A e \in Devices \ {d} : session'[e] = session[e]
        /\ session'[d].remote = NoObjects
    BY <1>0, <1>6 DEF SyncBegin, Idle
  <2> QED BY <1>a, <1>b, <2>1, HeldFacts, IdleFacts
<1>7. ASSUME NEW d \in Devices, ManifestArrives(d) PROVE HashInv'
  <2> DEFINE p == session[d].peer
             needed == diff_manifests(manifest[d], manifest[p])
             asks == [session[d] EXCEPT !.step = "objects",
                        !.remote = manifest[p], !.needed = needed]
  <2>1. /\ session[d].step = "manifest"
        /\ version' = version /\ manifest' = manifest
        /\ \/ session' = [session EXCEPT ![d] = Idle]
           \/ session' = [session EXCEPT ![d] = asks]
    BY <1>7 DEF ManifestArrives
  <2>2. p \in Devices /\ session[d] \in [step : {"manifest", "objects"},
          peer : Devices \ {d}, remote : SyncManifest, needed : SUBSET Objects]
    BY <2>1, SessionFacts DEF Waiting
  <2>3. asks.remote = manifest[p]
    BY <2>2
  <2> HIDE DEF asks, needed
  <2>4. /\ \A e \in Devices \ {d} : session'[e] = session[e]
        /\ session'[d] = Idle \/ session'[d] = asks
    BY <1>0, <2>1
  <2>5. \A o \in Objects : session'[d].remote[o] \in Held(o)
    BY <1>b, <1>c, <2>2, <2>3, <2>4
  <2> QED BY <1>a, <1>b, <2>1, <2>4, <2>5
<1>8. ASSUME NEW d \in Devices, ObjectsArrive(d) PROVE HashInv'
  <2>1. /\ \A e \in Devices \ {d} : session'[e] = session[e]
        /\ session'[d] = Idle
        /\ \A e \in Devices \ {d} : manifest'[e] = manifest[e]
    BY <1>0, <1>8 DEF ObjectsArrive
  <2>2. /\ version' = version \/ version' = version + 1
        /\ \A o \in Objects :
             \/ manifest'[d][o] \in Held(o)
             \/ /\ manifest'[d][o].hash = version + 1
                /\ version' = version + 1
    BY <1>8, <1>b, Arrival
  <2> QED BY <1>a, <1>c, <2>1, <2>2
<1>9. ASSUME NEW d \in Devices, SyncFails(d) PROVE HashInv'
  <2>1. /\ version' = version /\ manifest' = manifest
        /\ \A e \in Devices \ {d} : session'[e] = session[e]
        /\ session'[d] = Idle
    BY <1>0, <1>9 DEF SyncFails
  <2> QED BY <1>a, <1>b, <1>c, <2>1
<1> QED
  BY <1>1, <1>2, <1>3, <1>4, <1>6, <1>7, <1>8, <1>9 DEF Next
-----------------------------------------------------------------------------
(* Data of another Agent OS. *)

LEMMA OwnInit == Init => OwnInv
BY IdleFacts DEF Init, OwnInv, NoForeignData

\* An arrival stores records of d, of its peer, or of the peer's first answer:
\* all of d's Agent OS.
LEMMA OwnStep == ASSUME TypeOK, HashInv, OwnInv, [Next]_vars PROVE OwnInv'
<1> DEFINE OwnSession(e, x) ==
      /\ x.step = "objects" => AgentOs[x.peer] = AgentOs[e]
      /\ \A o \in Objects : x.remote[o] # Absent =>
           AgentOs[x.remote[o].by] = AgentOs[e]
<1>0. /\ manifest \in [Devices -> SyncManifest]
      /\ DOMAIN session = Devices
      /\ \A e \in Devices : OwnSession(e, session[e])
      /\ \A e \in Devices, o \in Objects :
           manifest[e][o] # Absent => AgentOs[manifest[e][o].by] = AgentOs[e]
  BY DEF TypeOK, OwnInv, NoForeignData
<1>q. ASSUME \A e \in Devices : OwnSession(e, session'[e]),
             \A e \in Devices, o \in Objects :
               manifest'[e][o] # Absent => AgentOs[manifest'[e][o].by] = AgentOs[e]
      PROVE  OwnInv'
  BY <1>q DEF OwnInv, NoForeignData
<1>c. \A e \in Devices : OwnSession(e, Idle)
  BY IdleFacts
<1> HIDE DEF OwnSession
<1>1. CASE UNCHANGED vars
  BY <1>0, <1>1, <1>q DEF vars
<1>2. ASSUME NEW d \in Devices, NEW o \in Objects, Edit(d, o) PROVE OwnInv'
  <2>1. /\ session' = session
        /\ \A e \in Devices \ {d} : manifest'[e] = manifest[e]
        /\ \A q \in Objects \ {o} : manifest'[d][q] = manifest[d][q]
        /\ manifest'[d][o].by = d
    BY <1>0, <1>2 DEF Edit, SyncManifest
  <2> QED BY <1>0, <1>q, <2>1
<1>3. ASSUME NEW d \in Devices, NEW o \in Objects, Remove(d, o) PROVE OwnInv'
  <2>1. /\ session' = session
        /\ \A e \in Devices \ {d} : manifest'[e] = manifest[e]
        /\ \A q \in Objects \ {o} : manifest'[d][q] = manifest[d][q]
        /\ manifest'[d][o] = Absent
    BY <1>0, <1>3 DEF Remove, SyncManifest
  <2> QED BY <1>0, <1>q, <2>1
<1>4. ASSUME NEW d \in Devices, NEW p \in Devices \ {d},
             UpsertTrust(d, p) \/ RevokeTrust(d, p)
      PROVE  OwnInv'
  BY <1>0, <1>4, <1>q DEF UpsertTrust, RevokeTrust
<1>6. ASSUME NEW d \in Devices, NEW p \in Devices \ {d}, SyncBegin(d, p)
      PROVE  OwnInv'
  <2> DEFINE begun == [Idle EXCEPT !.step = "manifest", !.peer = p]
  <2>1. OwnSession(d, begun)
    BY IdleFacts DEF OwnSession, Idle
  <2>2. manifest' = manifest /\ session' = [session EXCEPT ![d] = begun]
    BY <1>6 DEF SyncBegin
  <2> HIDE DEF begun
  <2> QED BY <1>0, <1>q, <2>1, <2>2
<1>7. ASSUME NEW d \in Devices, ManifestArrives(d) PROVE OwnInv'
  <2> DEFINE p == session[d].peer
             needed == diff_manifests(manifest[d], manifest[p])
             asks == [session[d] EXCEPT !.step = "objects",
                        !.remote = manifest[p], !.needed = needed]
  <2>1. /\ session[d].step = "manifest" /\ manifest' = manifest
        /\ \/ session' = [session EXCEPT ![d] = Idle]
           \/ /\ AgentOs[p] = AgentOs[d]
              /\ session' = [session EXCEPT ![d] = asks]
    BY <1>7 DEF ManifestArrives
  <2>2. p \in Devices /\ session[d] \in [step : {"manifest", "objects"},
          peer : Devices \ {d}, remote : SyncManifest, needed : SUBSET Objects]
    BY <2>1, SessionFacts DEF Waiting
  <2>3. asks.remote = manifest[p] /\ asks.peer = p
    BY <2>2
  <2> HIDE DEF asks, needed
  <2>4. AgentOs[p] = AgentOs[d] => OwnSession(d, asks)
    BY <1>0, <2>2, <2>3 DEF OwnSession
  <2> HIDE DEF p
  <2> QED BY <1>0, <1>c, <1>q, <2>1, <2>4
<1>8. ASSUME NEW d \in Devices, ObjectsArrive(d) PROVE OwnInv'
  <2> DEFINE p == session[d].peer
  <2>1. /\ session[d].step = "objects"
        /\ \A e \in Devices \ {d} : session'[e] = session[e]
        /\ session'[d] = Idle
        /\ \A e \in Devices \ {d} : manifest'[e] = manifest[e]
    BY <1>0, <1>8 DEF ObjectsArrive
  <2>2. /\ p \in Devices /\ AgentOs[p] = AgentOs[d]
        /\ \A o \in Objects : session[d].remote[o] # Absent =>
             AgentOs[session[d].remote[o].by] = AgentOs[d]
    BY <1>0, <1>8, <2>1, Arrival DEF OwnSession
  <2>3. \A o \in Objects :
          \/ manifest'[d][o] \in {manifest[d][o], manifest[p][o],
                                  session[d].remote[o]}
          \/ /\ manifest[d][o] # Absent
             /\ manifest'[d][o].by = manifest[d][o].by
          \/ /\ manifest[p][o] # Absent
             /\ manifest'[d][o].by = manifest[p][o].by
    BY <1>8, Arrival
  <2> HIDE DEF p
  <2>4. \A o \in Objects :
          manifest'[d][o] # Absent => AgentOs[manifest'[d][o].by] = AgentOs[d]
    BY <1>0, <2>2, <2>3
  <2> QED BY <1>0, <1>c, <1>q, <2>1, <2>4
<1>9. ASSUME NEW d \in Devices, SyncFails(d) PROVE OwnInv'
  BY <1>0, <1>9, <1>c, <1>q DEF SyncFails
<1> QED
  BY <1>1, <1>2, <1>3, <1>4, <1>6, <1>7, <1>8, <1>9 DEF Next
-----------------------------------------------------------------------------
(* Clocks.  A device's clock moves with each of its edits, so that of a      *)
(* last-write-wins object a device and a time stand for one record.          *)

ClockInv ==
  \A o \in Objects \ AppendOnly :
    /\ \A r \in Held(o) : r # Absent => r.at <= clock[r.by]
    /\ \A r, s \in Held(o) :
         r # Absent /\ s # Absent /\ r.by = s.by /\ r.at = s.at => r = s

\* What a last-write-wins object has after a step it had before, or it is the
\* record that an edit has just written, later than its device's clock.
LEMMA Written ==
  ASSUME TypeOK, TypeOK', [Next]_vars, NEW o \in Objects, o \notin AppendOnly
  PROVE  \/ /\ clock' = clock
            /\ \A r \in Held(o)' : r \in Held(o)
         \/ \E d \in Devices :
              /\ \A e \in Devices \ {d} : clock'[e] = clock[e]
              /\ clock'[d] > clock[d]
              /\ \A r \in Held(o)' :
                   r \in Held(o) \/ (r # Absent /\ r = manifest'[d][o]
                                      /\ r.by = d /\ r.at = clock'[d])
<1> DEFINE Same == clock' = clock /\ \A r \in Held(o)' : r \in Held(o)
<1>0. /\ manifest \in [Devices -> SyncManifest]
      /\ clock \in [Devices -> 0..MaxTime]
      /\ DOMAIN session = Devices
  BY DEF TypeOK
<1>b. \A d \in Devices :
        manifest[d][o] \in Held(o) /\ session[d].remote[o] \in Held(o)
  BY HeldFacts
<1>c. Absent \in Held(o) /\ Idle.remote[o] = Absent
  BY HeldFacts, IdleFacts
\* A step of d after which d holds records of o that were held before.
<1>a. ASSUME NEW d \in Devices, clock' = clock,
             \A e \in Devices \ {d} : manifest'[e] = manifest[e],
             \A e \in Devices \ {d} : session'[e] = session[e],
             session'[d].remote[o] \in Held(o), manifest'[d][o] \in Held(o)
      PROVE  Same
  BY <1>a, HeldStep
<1>1. CASE UNCHANGED vars
  <2>1. Same
    BY <1>1 DEF vars, Held
  <2> QED BY <2>1
<1>2. ASSUME NEW d \in Devices, NEW q \in Objects, Edit(d, q)
      PROVE  /\ \A e \in Devices \ {d} : clock'[e] = clock[e]
             /\ clock'[d] > clock[d]
             /\ \A r \in Held(o)' :
                  r \in Held(o) \/ (r # Absent /\ r = manifest'[d][o]
                                     /\ r.by = d /\ r.at = clock'[d])
  <2>1. PICK now \in (clock[d] + 1)..MaxTime :
          /\ clock' = [clock EXCEPT ![d] = now]
          /\ manifest' = [manifest EXCEPT ![d][q] =
               [by |-> d, hash |-> version + 1, at |-> now,
                events |-> IF q \in AppendOnly
                           THEN manifest[d][q].events \union {version + 1}
                           ELSE {version + 1}]]
    BY <1>2 DEF Edit
  <2>2. /\ clock'[d] = now /\ now > clock[d]
        /\ \A e \in Devices \ {d} : clock'[e] = clock[e]
        /\ \A e \in Devices \ {d} : manifest'[e] = manifest[e]
        /\ session' = session
    BY <1>0, <1>2, <2>1, BoundAssumption DEF Edit
  <2>3. CASE q = o
    <3>1. /\ manifest'[d][o].by = d /\ manifest'[d][o].at = now
          /\ manifest'[d][o].hash = version + 1
      BY <1>0, <2>1, <2>3 DEF SyncManifest
    <3>2. manifest'[d][o] # Absent
      BY <3>1, AbsentFacts, BoundAssumption DEF TypeOK
    <3> QED BY <1>b, <2>2, <3>1, <3>2, HeldStep
  <2>4. CASE q # o
    <3>1. manifest'[d][o] = manifest[d][o]
      BY <1>0, <2>1, <2>4 DEF SyncManifest
    <3> QED BY <1>b, <2>2, <3>1, HeldStep
  <2> QED BY <2>3, <2>4
<1>3. ASSUME NEW d \in Devices, NEW q \in Objects, Remove(d, q) PROVE Same
  <2>1. /\ clock' = clock /\ session' = session
        /\ \A e \in Devices \ {d} : manifest'[e] = manifest[e]
        /\ manifest'[d][o] \in {manifest[d][o], Absent}
    BY <1>0, <1>3 DEF Remove, SyncManifest
  <2> QED BY <1>a, <1>b, <1>c, <2>1
<1>4. ASSUME NEW d \in Devices, NEW p \in Devices \ {d},
             UpsertTrust(d, p) \/ RevokeTrust(d, p)
      PROVE  Same
  BY <1>4 DEF UpsertTrust, RevokeTrust, Held
<1>6. ASSUME NEW d \in Devices, NEW p \in Devices \ {d}, SyncBegin(d, p)
      PROVE  Same
  <2>1. /\ clock' = clock /\ manifest' = manifest
        /\ \A e \in Devices \ {d} : session'[e] = session[e]
        /\ session'[d].remote = NoObjects
    BY <1>0, <1>6 DEF SyncBegin, Idle
  <2> QED BY <1>a, <1>b, <1>c, <2>1, IdleFacts
<1>7. ASSUME NEW d \in Devices, ManifestArrives(d) PROVE Same
  <2> DEFINE p == session[d].peer
             needed == diff_manifests(manifest[d], manifest[p])
             asks == [session[d] EXCEPT !.step = "objects",
                        !.remote = manifest[p], !.needed = needed]
  <2>1. /\ session[d].step = "manifest"
        /\ clock' = clock /\ manifest' = manifest
        /\ \/ session' = [session EXCEPT ![d] = Idle]
           \/ session' = [session EXCEPT ![d] = asks]
    BY <1>7 DEF ManifestArrives
  <2>2. p \in Devices /\ session[d] \in [step : {"manifest", "objects"},
          peer : Devices \ {d}, remote : SyncManifest, needed : SUBSET Objects]
    BY <2>1, SessionFacts DEF Waiting
  <2>3. asks.remote = manifest[p]
    BY <2>2
  <2> HIDE DEF asks, needed
  <2>4. /\ \A e \in Devices \ {d} : session'[e] = session[e]
        /\ session'[d] = Idle \/ session'[d] = asks
    BY <1>0, <2>1
  <2>5. session'[d].remote[o] \in Held(o)
    BY <1>b, <1>c, <2>2, <2>3, <2>4
  <2> QED BY <1>a, <1>b, <2>1, <2>4, <2>5
<1>8. ASSUME NEW d \in Devices, ObjectsArrive(d) PROVE Same
  <2> DEFINE p == session[d].peer
             stored == upsert_objects(manifest[d], manifest[p], session[d].needed)
  <2>1. /\ session[d].step = "objects"
        /\ clock' = clock
        /\ \A e \in Devices \ {d} : session'[e] = session[e]
        /\ session'[d] = Idle
        /\ \A e \in Devices \ {d} : manifest'[e] = manifest[e]
        /\ manifest'[d] = merge_manifests(stored, session[d].remote, version + 1)
    BY <1>0, <1>8 DEF ObjectsArrive
  <2>2. p \in Devices
    BY <2>1, SessionFacts DEF Waiting
  <2>3. stored[o] \in {manifest[d][o], manifest[p][o]}
    BY DEF upsert_objects
  <2>4. manifest'[d][o] = merge_record(o, stored[o], session[d].remote[o],
                                       version + 1)
    BY <2>1 DEF merge_manifests
  <2>5. manifest'[d][o] \in {stored[o], session[d].remote[o]}
    BY <2>4 DEF merge_record, resolve_conflict
  <2> HIDE DEF stored, p
  <2>6. manifest'[d][o] \in Held(o)
    BY <1>b, <2>2, <2>3, <2>5 DEF p
  <2> QED BY <1>a, <1>c, <2>1, <2>6
<1>9. ASSUME NEW d \in Devices, SyncFails(d) PROVE Same
  <2>1. /\ clock' = clock /\ manifest' = manifest
        /\ \A e \in Devices \ {d} : session'[e] = session[e]
        /\ session'[d] = Idle
    BY <1>0, <1>9 DEF SyncFails
  <2> QED BY <1>a, <1>b, <1>c, <2>1
<1> HIDE DEF Same
<1>10. \/ Same
       \/ UNCHANGED vars
       \/ \E d \in Devices, q \in Objects : Edit(d, q)
  BY <1>3, <1>4, <1>6, <1>7, <1>8, <1>9 DEF Next
<1> QED BY <1>1, <1>2, <1>10 DEF Same

\* No record was written before the first step.
LEMMA ClockInit == Init => ClockInv
<1> SUFFICES ASSUME Init, NEW o \in Objects, NEW r \in Held(o)
             PROVE  r = Absent
  BY DEF ClockInv
<1> QED BY IdleFacts DEF Init, Held

\* Every step keeps the times of the records behind the clocks of their devices.
LEMMA ClockStep ==
  ASSUME TypeOK, TypeOK', [Next]_vars, ClockInv PROVE ClockInv'
<1> SUFFICES ASSUME NEW o \in Objects, o \notin AppendOnly
             PROVE  /\ \A r \in Held(o)' : r # Absent => r.at <= clock'[r.by]
                    /\ \A r, s \in Held(o)' :
                         r # Absent /\ s # Absent /\ r.by = s.by /\ r.at = s.at
                           => r = s
  BY DEF ClockInv
<1>1. /\ \A r \in Held(o) : r # Absent => r.at <= clock[r.by]
      /\ \A r, s \in Held(o) :
           r # Absent /\ s # Absent /\ r.by = s.by /\ r.at = s.at => r = s
  BY DEF ClockInv
<1>2. \A r \in Held(o) : r # Absent => r.at \in Nat /\ r.by \in Devices
  BY HeldFacts, CopyFacts DEF SyncRecord
<1>3. \A e \in Devices : clock[e] \in Nat /\ clock'[e] \in Nat
  BY BoundAssumption DEF TypeOK
<1>4. CASE clock' = clock /\ \A r \in Held(o)' : r \in Held(o)
  BY <1>1, <1>4
<1>5. CASE \E d \in Devices :
             /\ \A e \in Devices \ {d} : clock'[e] = clock[e]
             /\ clock'[d] > clock[d]
             /\ \A r \in Held(o)' :
                  r \in Held(o) \/ (r # Absent /\ r = manifest'[d][o]
                                     /\ r.by = d /\ r.at = clock'[d])
  BY <1>1, <1>2, <1>3, <1>5
<1> QED BY <1>4, <1>5, Written
-----------------------------------------------------------------------------
(* Theorems. *)

Inv == TypeOK /\ HashInv /\ OwnInv /\ ClockInv

\* The inductive invariant: the types, one record per hash and per write among
\* everything held, and only data of the own Agent OS.
THEOREM Invariant == Spec => []Inv
<1>1. Init => Inv
  BY TypeInit, HashInit, OwnInit, ClockInit DEF Inv
<1>2. Inv /\ [Next]_vars => Inv'
  BY TypeStep, HashStep, OwnStep, ClockStep DEF Inv
<1> QED BY <1>1, <1>2, PTL DEF Spec

\* The state of every device, trust store and session keeps its type.
THEOREM TypeCorrect == Spec => []TypeOK
<1>1. Inv => TypeOK
  BY DEF Inv
<1> QED BY <1>1, Invariant, PTL

\* Records with one version_hash are one record, on whichever devices, so that
\* diff_manifests and merge_manifests may skip objects by their hash.
THEOREM HashesDetermine == Spec => []HashDetermines
<1>1. Inv => HashDetermines
  BY HeldFacts DEF Inv, HashInv, HashDetermines
<1> QED BY <1>1, Invariant, PTL

\* No session, and no chain of sessions, brings data of another Agent OS onto
\* a device.
THEOREM NothingForeign == Spec => []NoForeignData
<1>1. Inv => NoForeignData
  BY DEF Inv, OwnInv
<1> QED BY <1>1, Invariant, PTL

\* Merging two records of an object gives one result, whichever is the local.
LEMMA MergeCommutes ==
  ASSUME Inv, NEW o \in Objects, NEW l \in Held(o), NEW r \in Held(o), NEW fresh
  PROVE  Agree(o, merge_record(o, l, r, fresh), merge_record(o, r, l, fresh))
<1>1. l.hash = r.hash => l = r
  BY DEF Inv, HashInv
<1>2. CASE l = Absent \/ r = Absent \/ l = r
  BY <1>2 DEF merge_record, Agree
<1>3. CASE l # Absent /\ r # Absent /\ l # r /\ o \in AppendOnly
  <2>1. /\ merge_record(o, l, r, fresh) = merge_append_only_payloads(l, r, fresh)
        /\ merge_record(o, r, l, fresh) = merge_append_only_payloads(r, l, fresh)
    BY <1>1, <1>3 DEF merge_record, resolve_conflict
  <2>2. /\ merge_append_only_payloads(l, r, fresh).events = l.events \union r.events
        /\ merge_append_only_payloads(r, l, fresh).events = r.events \union l.events
    BY DEF merge_append_only_payloads
  <2>3. l.events \union r.events = r.events \union l.events
    OBVIOUS
  <2> QED BY <1>3, <2>1, <2>2, <2>3 DEF Agree
<1>4. CASE l # Absent /\ r # Absent /\ l # r /\ o \notin AppendOnly
  <2>1. /\ l.by \in Devices /\ r.by \in Devices
        /\ l.at \in Nat /\ r.at \in Nat
    BY <1>4, HeldFacts, CopyFacts DEF Inv, SyncRecord
  <2>2. l.by # r.by \/ l.at # r.at
    BY <1>4 DEF Inv, ClockInv
  <2>3. Rank[l.by] \in Int /\ Rank[r.by] \in Int
        /\ (Rank[l.by] = Rank[r.by] => l.by = r.by)
    BY <2>1, RankAssumption
  <2> DEFINE Newer(x, y) ==
        x.at > y.at \/ (x.at = y.at /\ Rank[x.by] > Rank[y.by])
  <2>4. Newer(r, l) <=> ~Newer(l, r)
    BY <2>1, <2>2, <2>3
  <2>5. /\ merge_record(o, l, r, fresh) = IF Newer(r, l) THEN r ELSE l
        /\ merge_record(o, r, l, fresh) = IF Newer(l, r) THEN l ELSE r
    BY <1>1, <1>4 DEF merge_record, resolve_conflict
  <2> HIDE DEF Newer
  <2> QED BY <1>4, <2>4, <2>5 DEF Agree
<1> QED BY <1>2, <1>3, <1>4

\* Devices that merge each other's manifests arrive at the same objects, with
\* equal clocks too: the order in which they merge does not matter.
THEOREM MergesConverge == Spec => []MergeConverges
<1>1. Inv => MergeConverges
  BY HeldFacts, MergeCommutes DEF Inv, MergeConverges
<1> QED BY <1>1, Invariant, PTL

\* A record covers itself.
LEMMA CoversSelf ==
  ASSUME NEW o \in Objects, NEW r \in Copy, r # Absent => r.by \in Devices
  PROVE  Covers(o, r, r)
BY CopyFacts, RankAssumption DEF Covers

\* merge_manifests returns, for each object, a record that covers both sides.
LEMMA MergeCovers ==
  ASSUME NEW o \in Objects, NEW l \in Copy, NEW r \in Copy, NEW fresh \in Nat,
         l.hash = r.hash => l = r, fresh # 0
  PROVE  /\ Covers(o, merge_record(o, l, r, fresh), l)
         /\ Covers(o, merge_record(o, l, r, fresh), r)
<1>0. \A x \in Copy : x # Absent => x.by \in Devices
  BY CopyFacts DEF SyncRecord
<1>1. CASE r = Absent
  BY <1>0, <1>1, CoversSelf DEF merge_record, Covers
<1>2. CASE r # Absent /\ l = Absent
  BY <1>0, <1>2, CoversSelf DEF merge_record, Covers
<1>3. CASE r # Absent /\ l # Absent /\ l.hash = r.hash
  BY <1>0, <1>3, CoversSelf DEF merge_record
<1>4. CASE r # Absent /\ l # Absent /\ l.hash # r.hash
  <2>1. CASE o \in AppendOnly
    <3>1. merge_record(o, l, r, fresh) = merge_append_only_payloads(l, r, fresh)
      BY <1>4, <2>1 DEF merge_record, resolve_conflict
    <3>2. /\ merge_append_only_payloads(l, r, fresh).events = l.events \union r.events
          /\ merge_append_only_payloads(l, r, fresh).hash = fresh
      BY DEF merge_append_only_payloads
    <3>3. merge_append_only_payloads(l, r, fresh) # Absent
      BY <3>2, AbsentFacts
    <3> QED BY <2>1, <3>1, <3>2, <3>3 DEF Covers
  <2>2. CASE o \notin AppendOnly
    <3>1. /\ l.at \in Nat /\ r.at \in Nat
          /\ Rank[l.by] \in Int /\ Rank[r.by] \in Int
      BY <1>0, <1>4, CopyFacts, RankAssumption
    <3>2. \/ /\ merge_record(o, l, r, fresh) = r
             /\ \/ r.at > l.at
                \/ r.at = l.at /\ Rank[r.by] > Rank[l.by]
          \/ /\ merge_record(o, l, r, fresh) = l
             /\ ~ \/ r.at > l.at
                  \/ r.at = l.at /\ Rank[r.by] > Rank[l.by]
      BY <1>4, <2>2 DEF merge_record, resolve_conflict
    <3> QED BY <1>4, <2>2, <3>1, <3>2 DEF Covers
  <2> QED BY <2>1, <2>2
<1> QED BY <1>1, <1>2, <1>3, <1>4

\* A sync that returns Ok holds at least everything that both answers of the
\* peer told it, whatever the peer did between them.
THEOREM NothingIsMissed == Spec => NothingMissed
<1>1. ASSUME Inv, NEW d \in Devices, NEW o \in Objects, ObjectsArrive(d)
      PROVE  LET p == session[d].peer IN
             /\ Covers(o, manifest'[d][o], session[d].remote[o])
             /\ o \in session[d].needed => Covers(o, manifest'[d][o], manifest[p][o])
             /\ session[d].step # "manifest"
  <2> DEFINE p == session[d].peer
             stored == upsert_objects(manifest[d], manifest[p], session[d].needed)
             s == stored[o]
             r == session[d].remote[o]
             v == version + 1
  <2>1. TypeOK /\ HashInv
    BY <1>1 DEF Inv
  <2>2. p \in Devices /\ session[d].step = "objects"
    BY <1>1, <2>1, Arrival DEF ObjectsArrive
  <2>3. manifest'[d][o] = merge_record(o, s, r, v)
    BY <1>1, <2>1 DEF ObjectsArrive, merge_manifests, TypeOK
  <2>4. s \in {manifest[d][o], manifest[p][o]}
    BY DEF upsert_objects
  <2>5. o \in session[d].needed => manifest[p][o] = Absent \/ manifest[p][o] = s
    BY DEF upsert_objects
  <2> HIDE DEF s, stored
  <2>6. s \in Held(o) /\ r \in Held(o) /\ s \in Copy /\ r \in Copy
    BY <2>1, <2>2, <2>4, HeldFacts
  <2>7. s.hash = r.hash => s = r
    BY <2>1, <2>6 DEF HashInv
  <2>8. v \in Nat /\ v # 0
    BY <2>1, BoundAssumption DEF TypeOK
  <2> HIDE DEF r, v
  <2>9. /\ Covers(o, manifest'[d][o], s)
        /\ Covers(o, manifest'[d][o], r)
    BY <2>3, <2>6, <2>7, <2>8, MergeCovers
  <2>10. Covers(o, manifest'[d][o], Absent)
    BY DEF Covers
  <2> QED BY <2>2, <2>5, <2>9, <2>10 DEF r
<1>2. ASSUME Inv, NEW d \in Devices, NEW o \in Objects, ManifestArrives(d),
             AgentOs[session[d].peer] = AgentOs[d], session'[d] = Idle
      PROVE  LET p == session[d].peer IN
             /\ Covers(o, manifest'[d][o], session[d].remote[o])
             /\ Covers(o, manifest'[d][o], manifest[p][o])
  <2> DEFINE p == session[d].peer
             needed == diff_manifests(manifest[d], manifest[p])
             asks == [session[d] EXCEPT !.step = "objects",
                        !.remote = manifest[p], !.needed = needed]
  <2>1. TypeOK /\ HashInv
    BY <1>2 DEF Inv
  <2>2. /\ session[d].step = "manifest" /\ manifest' = manifest
        /\ \/ needed = {}
           \/ session' = [session EXCEPT ![d] = asks]
    BY <1>2 DEF ManifestArrives
  <2>3. p \in Devices /\ session[d] \in [step : {"manifest", "objects"},
          peer : Devices \ {d}, remote : SyncManifest, needed : SUBSET Objects]
    BY <2>1, <2>2, SessionFacts DEF Waiting
  <2>4. asks.step = "objects"
    BY <2>3
  <2> HIDE DEF asks
  <2>5. needed = {}
    <3>1. session'[d] = asks => FALSE
      BY <1>2, <2>4, IdleFacts
    <3> QED BY <2>1, <2>2, <3>1 DEF TypeOK
  <2>6. \/ manifest[p][o] = Absent
        \/ manifest[d][o] # Absent /\ manifest[d][o].hash = manifest[p][o].hash
    BY <2>5 DEF diff_manifests
  <2>7. manifest[p][o] = Absent \/ manifest[d][o] = manifest[p][o]
    BY <2>1, <2>3, <2>6, HeldFacts DEF HashInv
  <2>8. session[d].remote[o] = Absent
    BY <2>1, <2>2, SessionFacts, IdleFacts
  <2>9. manifest[p][o] \in Copy /\ (manifest[p][o] # Absent =>
                                    manifest[p][o].by \in Devices)
    BY <2>1, <2>3, HeldFacts, CopyFacts DEF SyncRecord
  <2> QED BY <2>2, <2>7, <2>8, <2>9, CoversSelf DEF Covers
<1>3. ASSUME Inv, NEW d \in Devices, NEW o \in Objects, SessionEnds(d)
      PROVE  LET p == session[d].peer IN
             /\ Covers(o, manifest'[d][o], session[d].remote[o])
             /\ (o \in session[d].needed \/ session[d].step = "manifest")
                  => Covers(o, manifest'[d][o], manifest[p][o])
  BY <1>1, <1>2, <1>3 DEF SessionEnds
<1>4. Inv => [\A d \in Devices, o \in Objects : SessionEnds(d) =>
       LET p == session[d].peer IN
       /\ Covers(o, manifest'[d][o], session[d].remote[o])
       /\ (o \in session[d].needed \/ session[d].step = "manifest")
            => Covers(o, manifest'[d][o], manifest[p][o])]_vars
  BY <1>3
<1> QED BY <1>4, Invariant, PTL DEF NothingMissed

-----------------------------------------------------------------------------
(* SyncTransfer.  The invariant goes back along the way of an object: what *)
(* was decrypted was genuine, what is genuine was sent, what was sent was  *)
(* admitted to the manifest.                                               *)
\* The data of the transfer: a text, the contents written so far, a key, a message, the history.
Text == [content : Nat, under : SUBSET KeyBytes]
Contents == {Transfer!Plain(c) : c \in 0..(MaxContent - 1)}
Key == [key_id : KeyIds, key_bytes : KeyBytes, expires_at : Nat]
Payload == [key_id : KeyIds, ciphertext : Text, tag : Text \X KeyBytes, content_hash : Text]
Ghost == [written : 0..MaxContent, sent : SUBSET (Objects \X Key \X Contents),
          taken : SUBSET (Objects \X Transfer!DataOwnership)]

\* The stores and the inbox are of the types of the code.
TransferTypes ==
  /\ DOMAIN source \subseteq Objects /\ \A o \in DOMAIN source : source[o].text \in Contents
  /\ DOMAIN marks \subseteq Objects /\ \A o \in DOMAIN marks : marks[o] \in Transfer!DataOwnership
  /\ offered \subseteq Objects
  /\ keys \subseteq Key /\ IsFiniteSet(keys) /\ Cardinality(keys) <= MaxKeys
  /\ inbox \in Seq(Payload) /\ Len(inbox) <= MaxInbox
  /\ time \in Nat
  /\ ghost \in Ghost

\* The tag of a payload is still that of something sent, and its hash that of
\* the same text unless it was damaged.
Genuine(payload) ==
  \E s \in ghost.sent :
    /\ payload.tag = Transfer!compute_tag(Transfer!xor(s[3], s[2].key_bytes), s[2].key_bytes)
    /\ payload.content_hash \in {s[3], Transfer!Plain(MaxContent)}

\* The filter took o into the manifest as it was marked then.
Admitted(o) == \E w \in Transfer!DataOwnership : Transfer!should_include(w) /\ <<o, w>> \in ghost.taken

\* What the receiver has of a payload.
Decrypted(r) ==
  /\ Transfer!verify_hash(r.object)
  /\ \E s \in ghost.sent : s[2].key_bytes = r.key.key_bytes /\ s[3] = r.object.text
  /\ r.at <= r.key.expires_at
  /\ r.key.key_bytes = 0 => r.object.text = Transfer!Plain(0)

\* The invariant of the transfer.
TransferInv ==
  /\ TransferTypes
  /\ \A o \in offered : Admitted(o)
  /\ \A i \in 1..Len(inbox) : Genuine(inbox[i])
  /\ \A s \in ghost.sent : Admitted(s[1])
  /\ \A r \in received : Decrypted(r)

\* A content that is written is under no key, and MaxContent stands for none of them.
LEMMA PlainText ==
  /\ \A c \in Nat : Transfer!Plain(c) \in Text /\ Transfer!Plain(c).content = c /\ Transfer!Plain(c).under = {}
  /\ MaxContent \in Nat => Contents \subseteq Text /\ \A t \in Contents : t.under = {} /\ t = Transfer!Plain(t.content)
  /\ MaxContent \in Nat => Transfer!Plain(MaxContent) \in Text /\ \A t \in Contents : t.content < MaxContent
BY DEF Transfer!Plain, Text, Contents

\* A text put under key bytes is a text.
LEMMA XorText ==
  ASSUME NEW t \in Text, NEW b \in KeyBytes
  PROVE  Transfer!xor(t, b) \in Text
<1>1. CASE t.content = 0 \/ b = 0
  BY <1>1, PlainText DEF Transfer!xor
<1>2. CASE ~(t.content = 0 \/ b = 0)
  <2>1. Transfer!xor(t, b) = [t EXCEPT !.under = IF b \in t.under THEN t.under \ {b} ELSE t.under \cup {b}]
    BY <1>2 DEF Transfer!xor
  <2> QED BY <2>1 DEF Text
<1> QED BY <1>1, <1>2

\* A text that is put under the same bytes twice is itself, and empty without bytes.
LEMMA XorTwice ==
  ASSUME MaxContent \in Nat, NEW t \in Contents, NEW b \in KeyBytes
  PROVE  IF t.content = 0 \/ b = 0 THEN Transfer!xor(Transfer!xor(t, b), b) = Transfer!Plain(0)
         ELSE Transfer!xor(Transfer!xor(t, b), b) = t
<1>0. t \in Text /\ t.under = {} /\ t = Transfer!Plain(t.content) /\ t.content \in Nat
  BY PlainText DEF Text
<1>1. CASE t.content = 0 \/ b = 0
  <2>1. Transfer!xor(t, b) = Transfer!Plain(0) /\ Transfer!Plain(0).content = 0
    BY <1>1, PlainText DEF Transfer!xor
  <2>2. Transfer!xor(Transfer!Plain(0), b) = Transfer!Plain(0)
    BY PlainText DEF Transfer!xor
  <2> QED BY <1>1, <2>1, <2>2
<1>2. CASE ~(t.content = 0 \/ b = 0)
  <2>1. Transfer!xor(t, b) = [content |-> t.content, under |-> {b}]
    BY <1>0, <1>2 DEF Transfer!xor, Text
  <2>2. Transfer!xor([content |-> t.content, under |-> {b}], b) = [content |-> t.content, under |-> {b} \ {b}]
    BY <1>2 DEF Transfer!xor
  <2>3. {b} \ {b} = {}
    OBVIOUS
  <2> QED BY <1>0, <1>2, <2>1, <2>2, <2>3 DEF Transfer!Plain
<1> QED BY <1>1, <1>2

\* Nothing is written, sent or received at first.
LEMMA TransferStarts ==
  ASSUME MaxContent \in Nat, MaxKeys \in Nat, MaxInbox \in Nat
  PROVE  Transfer!Init => TransferInv
<1> SUFFICES ASSUME Transfer!Init PROVE TransferInv
  OBVIOUS
<1>1. IsFiniteSet({}) /\ Cardinality({}) = 0
  BY FS_EmptySet
<1>2. ghost \in Ghost /\ ghost.sent = {} /\ inbox = <<>> /\ received = {} /\ offered = {}
  BY DEF Transfer!Init, Ghost
<1>3. TransferTypes
  BY <1>1, <1>2 DEF Transfer!Init, TransferTypes
<1> QED BY <1>2, <1>3 DEF TransferInv

\* What was admitted or genuine stays so as more is sent and taken.
LEMMA TransferGrows ==
  ASSUME ghost.sent \subseteq ghost'.sent, ghost.taken \subseteq ghost'.taken
  PROVE  /\ \A o : Admitted(o) => Admitted(o)'
         /\ \A p : Genuine(p) => Genuine(p)'
         /\ \A r : Decrypted(r) => Decrypted(r)'
BY DEF Admitted, Genuine, Decrypted

\* Every call of the stores, the filter, the keys and the transport keeps the invariant.
LEMMA TransferNext ==
  ASSUME MaxContent \in Nat, MaxKeys \in Nat, MaxInbox \in Nat, Lifetime \in Nat,
         TransferInv, [Transfer!Next]_(Transfer!tvars)
  PROVE  TransferInv'
<1>t. /\ DOMAIN source \subseteq Objects /\ \A o \in DOMAIN source : source[o].text \in Contents
      /\ DOMAIN marks \subseteq Objects /\ \A o \in DOMAIN marks : marks[o] \in Transfer!DataOwnership
      /\ offered \subseteq Objects
      /\ keys \subseteq Key /\ IsFiniteSet(keys) /\ Cardinality(keys) <= MaxKeys
      /\ inbox \in Seq(Payload) /\ Len(inbox) <= MaxInbox
      /\ time \in Nat
      /\ ghost \in Ghost
  BY DEF TransferInv, TransferTypes
<1>i. /\ \A o \in offered : Admitted(o)
      /\ \A i \in 1..Len(inbox) : Genuine(inbox[i])
      /\ \A s \in ghost.sent : Admitted(s[1])
      /\ \A r \in received : Decrypted(r)
  BY DEF TransferInv
\* A step that neither sends nor takes anything and leaves the rest of the invariant to its types.
<1>s. ASSUME TransferTypes', ghost'.sent = ghost.sent, ghost'.taken = ghost.taken, UNCHANGED <<offered, inbox, received>>
      PROVE  TransferInv'
  <2>1. \A o : Admitted(o) => Admitted(o)'
    BY <1>s, TransferGrows
  <2>2. \A p : Genuine(p) => Genuine(p)'
    BY <1>s, TransferGrows
  <2>3. \A r : Decrypted(r) => Decrypted(r)'
    BY <1>s, TransferGrows
  <2> QED BY <1>i, <1>s, <2>1, <2>2, <2>3 DEF TransferInv
<1>1. CASE UNCHANGED Transfer!tvars
  <2>1. TransferTypes'
    BY <1>1, <1>t DEF Transfer!tvars, TransferTypes
  <2> QED BY <1>1, <1>s, <2>1 DEF Transfer!tvars
<1>2. ASSUME NEW o \in Objects, Transfer!put(o) PROVE TransferInv'
  <2>1. ghost.written \in 0..MaxContent /\ ghost.written < MaxContent
    BY <1>2, <1>t DEF Transfer!put, Ghost
  <2>2. ghost' = [ghost EXCEPT !.written = ghost.written + 1]
    BY <1>2 DEF Transfer!put
  <2>3. ghost' \in Ghost /\ ghost'.sent = ghost.sent /\ ghost'.taken = ghost.taken
    BY <1>t, <2>1, <2>2 DEF Ghost
  <2>4. Transfer!SyncObject(Transfer!Plain(ghost.written)).text \in Contents
    BY <2>1 DEF Transfer!SyncObject, Contents
  <2>5. /\ DOMAIN source' \subseteq Objects
        /\ \A x \in DOMAIN source' : source'[x].text \in Contents
    BY <1>2, <1>t, <2>4 DEF Transfer!put
  <2>6. TransferTypes'
    BY <1>2, <1>t, <2>3, <2>5 DEF Transfer!put, TransferTypes
  <2> QED BY <1>2, <1>s, <2>3, <2>6 DEF Transfer!put
<1>3. ASSUME NEW o \in Objects, Transfer!delete(o) PROVE TransferInv'
  <2>1. TransferTypes'
    BY <1>3, <1>t DEF Transfer!delete, TransferTypes
  <2> QED BY <1>3, <1>s, <2>1 DEF Transfer!delete
<1>4. ASSUME NEW o \in Objects, NEW w \in Transfer!DataOwnership, Transfer!mark(o, w) PROVE TransferInv'
  <2>1. TransferTypes'
    BY <1>4, <1>t DEF Transfer!mark, TransferTypes
  <2> QED BY <1>4, <1>s, <2>1 DEF Transfer!mark
<1>5. CASE Transfer!take_manifest
  <2> DEFINE more == {<<o, marks[o]>> : o \in DOMAIN marks}
  <2>1. more \subseteq Objects \X Transfer!DataOwnership
    BY <1>t
  <2>2. \A o \in DOMAIN marks : <<o, marks[o]>> \in more
    OBVIOUS
  <2>3. ghost' = [ghost EXCEPT !.taken = ghost.taken \cup more]
    BY <1>5 DEF Transfer!take_manifest
  <2> HIDE DEF more
  <2>4. ghost' \in Ghost /\ ghost'.sent = ghost.sent /\ ghost'.taken = ghost.taken \cup more
    BY <1>t, <2>1, <2>3 DEF Ghost
  <2>5. \A o \in offered' : o \in DOMAIN marks /\ Transfer!should_include(marks[o])
    BY <1>5 DEF Transfer!take_manifest, Transfer!filter_manifest
  <2>6. \A o \in offered' : Admitted(o)'
    BY <1>t, <2>2, <2>4, <2>5 DEF Admitted
  <2>7. TransferTypes'
    BY <1>5, <1>t, <2>4, <2>5 DEF Transfer!take_manifest, TransferTypes
  <2>8. \A x : Admitted(x) => Admitted(x)'
    BY <2>4, TransferGrows
  <2>9. \A p : Genuine(p) => Genuine(p)'
    BY <2>4, TransferGrows
  <2>10. \A r : Decrypted(r) => Decrypted(r)'
    BY <2>4, TransferGrows
  <2>11. UNCHANGED <<inbox, received>>
    BY <1>5 DEF Transfer!take_manifest
  <2> QED BY <1>i, <2>4, <2>6, <2>7, <2>8, <2>9, <2>10, <2>11 DEF TransferInv
<1>6. ASSUME NEW id \in KeyIds, NEW b \in KeyBytes, Transfer!new_session_key(id, b) PROVE TransferInv'
  <2> DEFINE key == [key_id |-> id, key_bytes |-> b, expires_at |-> time + Lifetime]
  <2>1. key \in Key
    BY <1>t DEF Key
  <2>2. keys' = keys \cup {key} /\ Cardinality(keys) < MaxKeys
    BY <1>6, SameCount DEF Transfer!new_session_key
  <2> HIDE DEF key
  <2>3. IsFiniteSet(keys') /\ Cardinality(keys') <= Cardinality(keys) + 1
    <3>1. Cardinality(keys) \in Nat
      BY <1>t, FS_CardinalityType
    <3>2. IsFiniteSet(keys \cup {key}) /\ (Cardinality(keys \cup {key}) = Cardinality(keys)
                                         \/ Cardinality(keys \cup {key}) = Cardinality(keys) + 1)
      BY <1>t, FS_AddElement
    <3> QED BY <2>2, <3>1, <3>2
  <2>4. Cardinality(keys) \in Nat /\ Cardinality(keys') \in Nat
    BY <1>t, <2>3, FS_CardinalityType
  <2>5. TransferTypes'
    BY <1>6, <1>t, <2>1, <2>2, <2>3, <2>4 DEF Transfer!new_session_key, TransferTypes
  <2> QED BY <1>6, <1>s, <2>5 DEF Transfer!new_session_key
<1>7. CASE Transfer!simulate_connect \/ Transfer!disconnect \/ Transfer!tick
  <2>1. TransferTypes'
    BY <1>7, <1>t DEF Transfer!simulate_connect, Transfer!disconnect, Transfer!tick, TransferTypes
  <2> QED BY <1>7, <1>s, <2>1 DEF Transfer!simulate_connect, Transfer!disconnect, Transfer!tick
<1>8. ASSUME NEW o \in Objects, NEW key \in keys, Transfer!send_object(o, key) PROVE TransferInv'
  <2> DEFINE text == source[o].text
             b == key.key_bytes
             one == <<o, key, text>>
             cipher == Transfer!xor(text, b)
             payload == [key_id |-> key.key_id, ciphertext |-> cipher, tag |-> Transfer!compute_tag(cipher, b),
                         content_hash |-> Transfer!compute_hash(text)]
  <2>1. o \in offered /\ o \in DOMAIN source /\ Len(inbox) < MaxInbox
    BY <1>8 DEF Transfer!send_object
  <2>2. /\ inbox' = Transfer!delivered(payload)
        /\ ghost' = [ghost EXCEPT !.sent = ghost.sent \cup {one}]
        /\ UNCHANGED <<source, marks, offered, keys, received, time>>
    BY <1>8 DEF Transfer!send_object, Transfer!encrypt_sync_object
  <2>3. text \in Contents /\ text \in Text /\ key \in Key /\ b \in KeyBytes /\ key.key_id \in KeyIds
    BY <1>t, <2>1, PlainText DEF Key
  <2>4. payload.tag = Transfer!compute_tag(Transfer!xor(one[3], one[2].key_bytes), one[2].key_bytes)
    OBVIOUS
  <2>5. payload.content_hash = one[3]
    BY DEF Transfer!compute_hash
  <2>6. cipher \in Text
    BY <2>3, XorText
  <2> HIDE DEF text, b, cipher
  <2>7. payload \in Payload
    BY <2>3, <2>6 DEF Payload, Transfer!compute_tag, Transfer!compute_hash
  <2>8. one \in Objects \X Key \X Contents /\ one[1] = o
    BY <2>3
  <2> HIDE DEF payload, one
  <2>9. ghost' \in Ghost /\ ghost'.sent = ghost.sent \cup {one} /\ ghost'.taken = ghost.taken
    BY <1>t, <2>2, <2>8 DEF Ghost
  <2>p. PICK msg : msg = payload
    OBVIOUS
  <2>q. PICK sent : sent = one
    OBVIOUS
  <2>10. Genuine(msg)'
    BY <2>4, <2>5, <2>9, <2>p, <2>q DEF Genuine
  <2>11. inbox' = inbox \/ inbox' = Append(inbox, payload)
    BY <2>2 DEF Transfer!delivered
  <2>12. inbox' \in Seq(Payload) /\ Len(inbox') <= MaxInbox
    BY <1>t, <2>1, <2>7, <2>11
  <2>13. TransferTypes'
    BY <1>t, <2>2, <2>9, <2>12 DEF TransferTypes
  <2>14. \A x : Admitted(x) => Admitted(x)'
    BY <2>9, TransferGrows
  <2>15. \A p : Genuine(p) => Genuine(p)'
    BY <2>9, TransferGrows
  <2>16. \A r : Decrypted(r) => Decrypted(r)'
    BY <2>9, TransferGrows
  <2>17. (\A i \in 1..Len(inbox) : Genuine(inbox[i]))'
    <3> SUFFICES ASSUME NEW i \in 1..Len(inbox') PROVE Genuine(inbox[i])'
      OBVIOUS
    <3>1. inbox'[i] = msg \/ (i \in 1..Len(inbox) /\ inbox'[i] = inbox[i])
      BY <1>t, <2>7, <2>11, <2>p
    <3>2. PICK x : x = inbox'[i]
      OBVIOUS
    <3>3. Genuine(x)'
      BY <1>i, <2>10, <2>15, <3>1, <3>2
    <3> QED BY <3>2, <3>3 DEF Genuine
  <2>18. \A s \in ghost'.sent : Admitted(s[1])'
    BY <1>i, <2>1, <2>8, <2>9, <2>14
  <2> QED BY <1>i, <2>2, <2>13, <2>14, <2>16, <2>17, <2>18 DEF TransferInv
<1>9. ASSUME NEW i \in DOMAIN inbox, Transfer!damage(i) PROVE TransferInv'
  <2>1. PICK payload \in {[inbox[i] EXCEPT !.ciphertext = Transfer!Plain(MaxContent)]}
                    \cup {[inbox[i] EXCEPT !.content_hash = Transfer!Plain(MaxContent)]}
                    \cup {[inbox[i] EXCEPT !.key_id = id] : id \in KeyIds} :
          inbox' = [inbox EXCEPT ![i] = payload]
    BY <1>9 DEF Transfer!damage
  <2>2. i \in 1..Len(inbox) /\ inbox[i] \in Payload /\ Transfer!Plain(MaxContent) \in Text
    BY <1>t, PlainText
  <2>3. payload \in Payload
    BY <2>1, <2>2 DEF Payload
  <2>4. payload.tag = inbox[i].tag /\ payload.content_hash \in {inbox[i].content_hash, Transfer!Plain(MaxContent)}
    BY <2>1, <2>2 DEF Payload
  <2>5. Genuine(payload)
    BY <1>i, <2>2, <2>4 DEF Genuine
  <2>6. inbox' \in Seq(Payload) /\ Len(inbox') = Len(inbox)
    BY <1>t, <2>1, <2>2, <2>3
  <2>7. UNCHANGED <<source, marks, offered, keys, received, time, ghost>>
    BY <1>9 DEF Transfer!damage
  <2>8. TransferTypes'
    BY <1>t, <2>6, <2>7 DEF TransferTypes
  <2>9. \A j \in 1..Len(inbox) : inbox'[j] = payload \/ inbox'[j] = inbox[j]
    BY <1>t, <2>1
  <2>10. \A j \in 1..Len(inbox) : Genuine(inbox'[j])
    BY <1>i, <2>5, <2>9
  <2>11. (\A j \in 1..Len(inbox) : Genuine(inbox[j]))'
    BY <2>6, <2>7, <2>10 DEF Genuine
  <2>12. /\ \A x : Admitted(x) => Admitted(x)'
         /\ \A r : Decrypted(r) => Decrypted(r)'
    BY <2>7 DEF Admitted, Decrypted
  <2> QED BY <1>i, <2>6, <2>7, <2>8, <2>11, <2>12 DEF TransferInv
<1>10. ASSUME NEW key \in keys, Transfer!receive(key) PROVE TransferInv'
  <2> DEFINE m == Head(inbox)
  <2>1. /\ inbox # <<>> /\ inbox' = Tail(inbox)
        /\ received' = received \cup {[object |-> [Transfer!SyncObject(text) EXCEPT !.content_hash = m.content_hash],
                                       key |-> key, at |-> time] : text \in Transfer!decrypt_payload(key, m)}
        /\ UNCHANGED <<source, marks, offered, keys, time, ghost>>
    BY <1>10 DEF Transfer!receive
  <2>2. /\ m \in Payload /\ Genuine(m) /\ inbox' \in Seq(Payload) /\ Len(inbox') <= MaxInbox
        /\ \A i \in 1..Len(inbox') : i + 1 \in 1..Len(inbox) /\ inbox'[i] = inbox[i + 1]
    <3>1. Len(inbox) # 0 /\ m = inbox[1] /\ 1 \in 1..Len(inbox)
      BY <1>t, <2>1
    <3> QED BY <1>t, <1>i, <2>1, <3>1
  <2> HIDE DEF m
  <2>3. PICK s \in ghost.sent : /\ m.tag = Transfer!compute_tag(Transfer!xor(s[3], s[2].key_bytes), s[2].key_bytes)
                                /\ m.content_hash \in {s[3], Transfer!Plain(MaxContent)}
    BY <2>2 DEF Genuine
  <2>4. s[2] \in Key /\ s[3] \in Contents /\ s[2].key_bytes \in KeyBytes
    BY <1>t DEF Ghost, Key
  <2>5. ASSUME NEW text \in Transfer!decrypt_payload(key, m)
        PROVE  /\ text = m.content_hash /\ time <= key.expires_at
               /\ s[2].key_bytes = key.key_bytes /\ s[3] = text
               /\ key.key_bytes = 0 => text = Transfer!Plain(0)
    <3>1. /\ text = Transfer!xor(m.ciphertext, key.key_bytes) /\ ~Transfer!is_expired(key)
          /\ m.tag = Transfer!compute_tag(m.ciphertext, key.key_bytes) /\ text = m.content_hash
      BY <2>5 DEF Transfer!decrypt_payload, Transfer!compute_hash
    <3>2. m.ciphertext = Transfer!xor(s[3], s[2].key_bytes) /\ s[2].key_bytes = key.key_bytes
      BY <2>3, <3>1 DEF Transfer!compute_tag
    <3>3. text = Transfer!xor(Transfer!xor(s[3], s[2].key_bytes), s[2].key_bytes)
      BY <3>1, <3>2
    <3>4. text = s[3] /\ (key.key_bytes = 0 => text = Transfer!Plain(0))
      <4>1. CASE s[3].content = 0 \/ s[2].key_bytes = 0
        <5>1. text = Transfer!Plain(0)
          BY <2>4, <3>3, <4>1, XorTwice
        <5>2. s[3] = Transfer!Plain(s[3].content) /\ s[3].content < MaxContent /\ s[3].content \in Nat
          BY <2>4, PlainText DEF Text
        <5>3. Transfer!Plain(0).content = 0 /\ Transfer!Plain(MaxContent).content = MaxContent
          BY PlainText
        <5>4. text = s[3] \/ text = Transfer!Plain(MaxContent)
          BY <2>3, <3>1
        <5> QED BY <5>1, <5>2, <5>3, <5>4
      <4>2. CASE ~(s[3].content = 0 \/ s[2].key_bytes = 0)
        BY <2>4, <3>2, <3>3, <4>2, XorTwice
      <4> QED BY <4>1, <4>2
    <3>5. time <= key.expires_at
      BY <1>t, <3>1 DEF Transfer!is_expired, Key
    <3> QED BY <3>1, <3>2, <3>4, <3>5
  <2>6. ASSUME NEW r \in received' PROVE Decrypted(r)
    <3>1. CASE r \in received
      BY <1>i, <3>1
    <3>2. CASE r \notin received
      <4>1. PICK text \in Transfer!decrypt_payload(key, m) :
              r = [object |-> [Transfer!SyncObject(text) EXCEPT !.content_hash = m.content_hash],
                    key |-> key, at |-> time]
        BY <2>1, <3>2
      <4>2. r.object.text = text /\ r.object.content_hash = m.content_hash /\ r.key = key /\ r.at = time
        BY <4>1 DEF Transfer!SyncObject
      <4> QED BY <2>5, <4>1, <4>2 DEF Decrypted, Transfer!verify_hash, Transfer!compute_hash
    <3> QED BY <3>1, <3>2
  <2>7. /\ \A x : Admitted(x) => Admitted(x)'
        /\ \A r : Decrypted(r) => Decrypted(r)'
        /\ \A p : Genuine(p) => Genuine(p)'
    BY <2>1 DEF Admitted, Decrypted, Genuine
  <2>8. \A i \in 1..Len(inbox') : Genuine(inbox'[i])
    BY <1>i, <2>2
  <2>9. (\A i \in 1..Len(inbox) : Genuine(inbox[i]))'
    BY <2>1, <2>8 DEF Genuine
  <2>10. TransferTypes'
    BY <1>t, <2>1, <2>2 DEF TransferTypes
  <2>11. \A r \in received' : Decrypted(r)'
    BY <2>6, <2>7
  <2> QED BY <1>i, <2>1, <2>7, <2>9, <2>10, <2>11 DEF TransferInv
<1> QED BY <1>1, <1>2, <1>3, <1>4, <1>5, <1>6, <1>7, <1>8, <1>9, <1>10 DEF Transfer!Next

\* Whatever becomes of a payload on its way, the receiver has only whole texts that were sent under
\* the same key bytes, at a time when the key it tried had not expired, and nothing but the empty
\* text under a key without bytes; and what is sent is of objects that the filter admitted when a
\* manifest was taken; for any objects, keys, bounds and lifetime.
THEOREM TransfersSound ==
  ASSUME MaxContent \in Nat, MaxKeys \in Nat, MaxInbox \in Nat, Lifetime \in Nat
  PROVE  Transfer!Spec => [](Transfer!TypeOK /\ Transfer!TransferSound)
<1>1. Transfer!Init => TransferInv
  BY TransferStarts
<1>2. TransferInv /\ [Transfer!Next]_(Transfer!tvars) => TransferInv'
  BY TransferNext
<1>3. TransferInv => Transfer!TypeOK /\ Transfer!TransferSound
  BY SameCount DEF TransferInv, TransferTypes, Transfer!TypeOK, Transfer!TransferSound, Decrypted, Admitted
<1> QED BY <1>1, <1>2, <1>3, PTL DEF Transfer!Spec


\* Every set of naturals that has an element has a least one.
LEMMA LeastNatural ==
  ASSUME NEW T \in SUBSET Nat, T # {}
  PROVE  \E x \in T : \A y \in T : ~(y < x)
<1> DEFINE R == OpToRel(<, Nat)
<1>1. IsWellFoundedOn(R, Nat)
  BY NatLessThanWellFounded
<1>2. \A y, x \in Nat : y < x => <<y, x>> \in R
  BY DEF OpToRel
<1> HIDE DEF R
<1>3. \E x \in T : \A y \in T : ~(<<y, x>> \in R)
  BY <1>1, WFMin
<1> QED BY <1>2, <1>3

-----------------------------------------------------------------------------
(* ClientSubstrate.  The invariant follows an event from the journal       *)
(* through the projections and the queue into the log: what is not yet at  *)
(* a place is of a call that stands before it.                             *)
\* The data of the client: events, entries of its log, calls, entries of the journal.
Kinds == {"RuntimeStatusChanged", "ConversationCreated", "TimelineItemAppended", "AgentRunChanged"}
Times == Nat \cup {(CHOOSE i \in s : \A j \in s : j <= i) : s \in SUBSET Nat}
Event == [kind : Kinds, conv : Conversations \cup {"none"}, id : Nat, at : Times]
Logged == [id : Nat, event : Event]
Call == [op : {"idle", "created", "message", "run", "approved", "denied"},
         at : {"idle", "kernel", "start", "load", "project", "queue", "log"},
         conv : Conversations \cup {"none"}, id : Nat \cup Actions, event : Event]
Entry == [kind : {"created", "message", "requested", "started"}, conv : Conversations, id : Nat]
         \cup [kind : {"approval_required", "approved", "denied"}, conv : Conversations, action : Actions]

\* The variables are of the types of the code.
ClientTypes ==
  /\ journal \in Seq(Entry)
  /\ calls \in [Callers -> Call]
  /\ projections \in [conversations : [Conversations -> Times], timelines : [Conversations -> Seq(Nat)],
                      runs : SUBSET Nat]
  /\ events \in Seq(Event)
  /\ log \in Seq(Logged)
  /\ client \in [drained : Seq(Event), seen : Seq(Logged)]

\* A call has a conversation and what it is to push.
CallInv ==
  \A c \in Callers :
    /\ calls[c].at # "idle" => calls[c].conv \in Conversations /\ calls[c].op # "idle"
    /\ calls[c].at \in {"start", "load"} => calls[c].id \in 1..Len(journal)
    /\ calls[c].at \in {"project", "queue", "log"} =>
         calls[c].event.conv \in Conversations /\ calls[c].event.id \in 1..Len(journal)
    /\ calls[c].at = "project" => calls[c].event.kind # "RuntimeStatusChanged"

\* The log is numbered from one and the application has its first events.
LogInv ==
  /\ Len(log) # 0 /\ \A i \in 1..Len(log) : log[i].id = i
  /\ Len(client.seen) <= Len(log) /\ \A i \in 1..Len(client.seen) : client.seen[i] = log[i]

\* What is in the queue and not yet in the log is of the calls in between.
Between == {c \in Callers : calls[c].at = "log"}
\* What went into the queue, whether or not the application drained it.
Taken == client.drained \o events

\* The queue had what the log has and the events of the calls in between.
QueueInv ==
  /\ IsFiniteSet(Between)
  /\ Len(Taken) = Len(log) + Cardinality(Between)
  /\ Client!ToSet(Taken) = Client!ToSet(Client!logged) \cup {calls[c].event : c \in Between}

\* What is in the journal and not in the projections yet.
Messages(v) == {i \in DOMAIN journal : journal[i].kind = "message" /\ journal[i].conv = v}
\* The calls whose message is in the journal and not in the timeline of v.
Pending(v) == {c \in Callers : /\ calls[c].at = "project" /\ calls[c].event.kind = "TimelineItemAppended"
                               /\ calls[c].event.conv = v}
\* The runs that the journal started, and the calls that are to project one.
Started == {journal[i].id : i \in {j \in DOMAIN journal : journal[j].kind = "started"}}
Starting == {c \in Callers : calls[c].at = "project" /\ calls[c].event.kind = "AgentRunChanged"}

\* A timeline has the messages of its conversation that are not pending, each once.
TimelineInv ==
  \A v \in Conversations :
    LET line == projections.timelines[v]
    IN /\ Client!ToSet(line) \cup {calls[c].event.id : c \in Pending(v)} = Messages(v)
       /\ \A c \in Pending(v) : calls[c].event.id \notin Client!ToSet(line)
       /\ \A c, d \in Pending(v) : calls[c].event.id = calls[d].event.id => c = d
       /\ \A i, j \in 1..Len(line) : line[i] = line[j] => i = j

\* The runs of the projections and those of the calls are the ones started.
RunInv ==
  /\ projections.runs \cup {calls[c].event.id : c \in Starting} = Started
  /\ \A j \in DOMAIN journal : journal[j].kind = "started" => journal[j].id \in 1..Len(journal)

\* The invariant of the client.
ClientInv == ClientTypes /\ CallInv /\ LogInv /\ QueueInv /\ TimelineInv /\ RunInv

\* Reading on after the last event seen gives the events that follow it.
LEMMA EventsAfter ==
  ASSUME log \in Seq(Logged), \A i \in 1..Len(log) : log[i].id = i, NEW k \in 0..Len(log)
  PROVE  Client!events_after(k) = SubSeq(log, k + 1, Len(log))
<1> DEFINE n == Len(log)
           g == [i \in 0..n |-> SubSeq(log, k + 1, i)]
           h == CHOOSE f : f = [i \in 0..n |-> IF i = 0 THEN <<>>
                                               ELSE IF log[i].id > k THEN Append(f[i - 1], log[i]) ELSE f[i - 1]]
<1>1. Client!events_after(k) = h[n]
  BY DEF Client!events_after
<1>2. n \in Nat /\ k \in 0..n
  OBVIOUS
<1>3. ASSUME NEW i \in 0..n
      PROVE  SubSeq(log, k + 1, i) = IF i = 0 THEN <<>>
                    ELSE IF log[i].id > k THEN Append(SubSeq(log, k + 1, i - 1), log[i]) ELSE SubSeq(log, k + 1, i - 1)
  <2>1. CASE i <= k
    <3>1. SubSeq(log, k + 1, i) = <<>> /\ (i # 0 => SubSeq(log, k + 1, i - 1) = <<>>)
      BY <1>2, <2>1
    <3>2. i # 0 => ~(log[i].id > k)
      BY <1>2, <2>1
    <3> QED BY <3>1, <3>2
  <2>2. CASE ~(i <= k)
    <3>1. i # 0 /\ i \in 1..n /\ log[i].id > k
      BY <1>2, <2>2
    <3> DEFINE a == SubSeq(log, k + 1, i)
               b == Append(SubSeq(log, k + 1, i - 1), log[i])
    <3>2. a \in Seq(Logged) /\ b \in Seq(Logged) /\ Len(a) = i - k /\ Len(b) = i - k
      BY <1>2, <2>2, <3>1
    <3>3. \A j \in 1..(i - k) : a[j] = log[k + j] /\ b[j] = log[k + j]
      <4> TAKE j \in 1..(i - k)
      <4>1. a[j] = log[k + j]
        BY <1>2, <2>2, <3>1
      <4>2. b[j] = log[k + j]
        BY <1>2, <2>2, <3>1
      <4> QED BY <4>1, <4>2
    <3> HIDE DEF a, b
    <3>4. a = b
      <4>1. Len(a) = Len(b) /\ \A j \in 1..Len(a) : a[j] = b[j]
        BY <3>2, <3>3
      <4> QED BY <3>2, <4>1, SeqEqual
    <3> QED BY <3>1, <3>4 DEF a, b
  <2> QED BY <2>1, <2>2
<1>4. g = [i \in 0..n |-> IF i = 0 THEN <<>>
                          ELSE IF log[i].id > k THEN Append(g[i - 1], log[i]) ELSE g[i - 1]]
  <2>1. \A i \in 0..n : i # 0 => i - 1 \in 0..n /\ g[i - 1] = SubSeq(log, k + 1, i - 1)
    <3>1. \A x \in 0..n : g[x] = SubSeq(log, k + 1, x)
      OBVIOUS
    <3>2. \A i \in 0..n : i # 0 => i - 1 \in 0..n
      BY <1>2
    <3> HIDE DEF g
    <3> QED BY <3>1, <3>2
  <2> QED BY <1>3, <2>1
<1>5. h = [i \in 0..n |-> IF i = 0 THEN <<>>
                          ELSE IF log[i].id > k THEN Append(h[i - 1], log[i]) ELSE h[i - 1]]
  <2> HIDE DEF g
  <2> QED BY <1>4
<1> DEFINE Bad == {i \in 0..n : h[i] # g[i]}
<1>6. ASSUME NEW i \in Bad, \A j \in Bad : ~(j < i) PROVE FALSE
  <2> HIDE DEF g, h
  <2>1. /\ g[i] = IF i = 0 THEN <<>> ELSE IF log[i].id > k THEN Append(g[i - 1], log[i]) ELSE g[i - 1]
        /\ h[i] = IF i = 0 THEN <<>> ELSE IF log[i].id > k THEN Append(h[i - 1], log[i]) ELSE h[i - 1]
    BY <1>4, <1>5
  <2>2. i # 0 /\ i - 1 \in 0..n /\ i - 1 < i
    BY <1>2, <2>1
  <2>3. h[i - 1] = g[i - 1]
    BY <1>6, <2>2
  <2> QED BY <2>1, <2>2, <2>3
<1>7. Bad \in SUBSET Nat
  OBVIOUS
<1>8. Bad = {}
  <2> HIDE DEF Bad
  <2> QED BY <1>6, <1>7, LeastNatural
<1>9. h[n] = g[n]
  <2> HIDE DEF g, h
  <2> QED BY <1>2, <1>8
<1>10. g[n] = SubSeq(log, k + 1, n)
  BY <1>2
<1> HIDE DEF g, h
<1> QED BY <1>1, <1>9, <1>10

\* A caller between two commands is of the types of the code.
LEMMA IdleCall == Client!Idle \in Call /\ Client!Idle.at = "idle" /\ Client!Ready \in Event
BY DEF Client!Idle, Client!Ready, Call, Event, Kinds, Times

\* One more event in the journal.
LEMMA JournalGrows ==
  ASSUME journal \in Seq(Entry), NEW e \in Entry, journal' = Append(journal, e)
  PROVE  /\ journal' \in Seq(Entry) /\ Len(journal) \in Nat /\ Len(journal') = Len(journal) + 1
         /\ \A v : Messages(v)' = Messages(v)
                    \cup (IF e.kind = "message" /\ e.conv = v THEN {Len(journal) + 1} ELSE {})
         /\ Started' = Started \cup (IF e.kind = "started" THEN {e.id} ELSE {})
<1> DEFINE n == Len(journal)
<1>1. /\ n \in Nat /\ Len(journal') = n + 1 /\ journal' \in Seq(Entry)
      /\ \A i \in 1..n : journal'[i] = journal[i]
      /\ journal'[n + 1] = e
  OBVIOUS
<1>2. DOMAIN journal = 1..n /\ DOMAIN journal' = 1..(n + 1) /\ 1..(n + 1) = 1..n \cup {n + 1}
  BY <1>1
<1> HIDE DEF n
<1>3. ASSUME NEW v
      PROVE Messages(v)' = Messages(v) \cup (IF e.kind = "message" /\ e.conv = v THEN {n + 1} ELSE {})
  BY <1>1, <1>2 DEF Messages
<1>4. Started' = Started \cup (IF e.kind = "started" THEN {e.id} ELSE {})
  <2>1. Started = {journal[i].id : i \in {j \in 1..n : journal[j].kind = "started"}}
    BY <1>2 DEF Started
  <2>2. Started' = {journal'[i].id : i \in {j \in 1..(n + 1) : journal'[j].kind = "started"}}
    BY <1>2 DEF Started
  <2> QED BY <1>1, <1>2, <2>1, <2>2
<1> QED BY <1>1, <1>3, <1>4 DEF n

\* What a command's first step and its first event do.
LEMMA Begins ==
  ASSUME NEW c \in Callers, NEW v \in Conversations, ClientTypes,
         \/ Client!create_conversation(c, v) \/ Client!submit_user_message(c, v) \/ Client!start_agent_run(c, v)
         \/ \E a \in Actions : Client!approve_action(c, v, a) \/ Client!deny_action(c, v, a)
  PROVE  \E s \in Call : /\ s.at = "kernel" /\ s.op # "idle" /\ s.conv = v /\ calls[c].at = "idle"
                         /\ calls' = [calls EXCEPT ![c] = s]
                         /\ UNCHANGED <<journal, projections, events, log, client>>
<1> DEFINE Ops == {"created", "message", "run", "approved", "denied"}
<1>1. PICK op \in Ops, a \in Nat \cup Actions : Client!begin(c, op, v, a)
  <2>1. DOMAIN journal \subseteq Nat
    BY DEF ClientTypes
  <2> QED BY <2>1 DEF Client!create_conversation, Client!submit_user_message, Client!start_agent_run,
                      Client!approve_action, Client!deny_action, Client!decide
<1> DEFINE s == [Client!Idle EXCEPT !.op = op, !.at = "kernel", !.conv = v, !.id = a]
<1>2. s \in Call /\ s.at = "kernel" /\ s.op # "idle" /\ s.conv = v
  BY IdleCall DEF Client!Idle, Call
<1>3. /\ calls[c].at = "idle" /\ calls' = [calls EXCEPT ![c] = s]
      /\ UNCHANGED <<journal, projections, events, log, client>>
  BY <1>1, IdleCall DEF Client!begin
<1> HIDE DEF s
<1> QED BY <1>2, <1>3

\* What the kernel commits, and where the command goes on.
LEMMA Commits ==
  ASSUME NEW c \in Callers, ClientTypes, CallInv, Client!commits(c)
  PROVE  \E e \in Entry, s \in Call :
           /\ journal' = Append(journal, e) /\ calls' = [calls EXCEPT ![c] = s]
           /\ UNCHANGED <<projections, events, log, client>>
           /\ calls[c].at = "kernel" /\ e.kind # "started"
           /\ s.at \in {"idle", "start", "load", "project"}
           /\ s.at # "idle" => s.conv \in Conversations /\ s.op # "idle"
           /\ s.at \in {"start", "load"} => s.id = Len(journal) + 1
           /\ s.at = "project" => /\ s.event.kind = "TimelineItemAppended" /\ e.kind = "message"
                                  /\ s.event.conv = e.conv /\ s.event.conv \in Conversations
                                  /\ s.event.id = Len(journal) + 1
           /\ e.kind = "message" => s.at = "project"
<1> DEFINE x == calls[c]
           i == Len(journal) + 1
<1>1. x \in Call /\ x.at = "kernel" /\ x.conv \in Conversations /\ x.op # "idle" /\ i \in Nat
  BY DEF ClientTypes, Client!commits, CallInv
<1>2. x.op \in {"idle", "created", "message", "run", "approved", "denied"} /\ x.id \in Nat \cup Actions
  BY <1>1 DEF Call
<1>3. /\ x.op \in {"approved", "denied"} => Client!status(x.id) = "approval_required"
      /\ journal' = Append(journal, CASE x.op = "run" -> [kind |-> "requested", conv |-> x.conv, id |-> i]
                                     [] x.op \in {"approved", "denied"} ->
                                          [kind |-> x.op, conv |-> x.conv, action |-> x.id]
                                     [] OTHER -> [kind |-> x.op, conv |-> x.conv, id |-> i])
      /\ calls' = [calls EXCEPT ![c] =
          CASE x.op = "run" -> [x EXCEPT !.at = "start", !.id = i]
            [] x.op = "created" -> [x EXCEPT !.at = "load", !.id = i]
            [] x.op = "message" -> [x EXCEPT !.at = "project", !.id = i,
                 !.event = [kind |-> "TimelineItemAppended", conv |-> x.conv, id |-> i, at |-> i]]
            [] OTHER -> Client!Idle]
      /\ UNCHANGED <<projections, events, log, client>>
  BY DEF Client!commits
<1> HIDE DEF x, i
<1>4. CASE x.op = "run"
  <2> DEFINE e == [kind |-> "requested", conv |-> x.conv, id |-> i]
             s == [x EXCEPT !.at = "start", !.id = i]
  <2>1. e \in Entry /\ e.kind = "requested"
    BY <1>1 DEF Entry
  <2>2. s \in Call /\ s.at = "start" /\ s.id = i /\ s.conv = x.conv /\ s.op = x.op
    BY <1>1 DEF Call
  <2>3. journal' = Append(journal, e) /\ calls' = [calls EXCEPT ![c] = s]
    BY <1>3, <1>4
  <2> HIDE DEF e, s
  <2> QED BY <1>1, <1>3, <1>4, <2>1, <2>2, <2>3 DEF x, i
<1>5. CASE x.op = "created"
  <2> DEFINE e == [kind |-> x.op, conv |-> x.conv, id |-> i]
             s == [x EXCEPT !.at = "load", !.id = i]
  <2>1. e \in Entry /\ e.kind = "created"
    BY <1>1, <1>5 DEF Entry
  <2>2. s \in Call /\ s.at = "load" /\ s.id = i /\ s.conv = x.conv /\ s.op = x.op
    BY <1>1 DEF Call
  <2>3. journal' = Append(journal, e) /\ calls' = [calls EXCEPT ![c] = s]
    BY <1>3, <1>5
  <2> HIDE DEF e, s
  <2> QED BY <1>1, <1>3, <1>5, <2>1, <2>2, <2>3 DEF x, i
<1>6. CASE x.op = "message"
  <2> DEFINE e == [kind |-> x.op, conv |-> x.conv, id |-> i]
             z == [kind |-> "TimelineItemAppended", conv |-> x.conv, id |-> i, at |-> i]
             s == [x EXCEPT !.at = "project", !.id = i, !.event = z]
  <2>1. e \in Entry /\ e.kind = "message" /\ e.conv = x.conv
    BY <1>1, <1>6 DEF Entry
  <2>4. z \in Event /\ z.kind = "TimelineItemAppended" /\ z.conv = x.conv /\ z.id = i
    BY <1>1 DEF Event, Kinds, Times
  <2>3. journal' = Append(journal, e) /\ calls' = [calls EXCEPT ![c] = s]
    BY <1>3, <1>6
  <2> HIDE DEF z
  <2>2. s \in Call /\ s.at = "project" /\ s.event = z /\ s.conv = x.conv /\ s.op = x.op
    BY <1>1, <2>4 DEF Call
  <2> HIDE DEF e, s
  <2>5. /\ s.at = "project" /\ s.event.kind = "TimelineItemAppended" /\ e.kind = "message"
        /\ s.event.conv = e.conv /\ s.event.conv \in Conversations /\ s.event.id = i
        /\ s.conv \in Conversations /\ s.op # "idle"
    BY <1>1, <2>1, <2>2, <2>4
  <2>6. calls[c].at = "kernel" /\ i = Len(journal) + 1
    BY <1>1 DEF x, i
  <2> HIDE DEF i, x
  <2>7. /\ journal' = Append(journal, e) /\ calls' = [calls EXCEPT ![c] = s]
        /\ UNCHANGED <<projections, events, log, client>>
        /\ calls[c].at = "kernel" /\ e.kind # "started"
    BY <1>3, <2>3, <2>5, <2>6
  <2>8. s.event.id = Len(journal) + 1 /\ s.at \notin {"start", "load", "idle"}
    BY <2>5, <2>6
  <2>9. e \in Entry /\ s \in Call
    BY <2>1, <2>2
  <2> QED BY <2>5, <2>7, <2>8, <2>9
<1>7. CASE x.op \in {"approved", "denied"}
  <2> DEFINE e == [kind |-> x.op, conv |-> x.conv, action |-> x.id]
  <2>0. x.id \in Actions
    <3>1. Client!status(x.id) # "none"
      BY <1>3, <1>7
    <3>2. PICK j \in DOMAIN journal :
            journal[j].kind \in {"approval_required", "approved", "denied"} /\ journal[j].action = x.id
      BY <3>1 DEF Client!status
    <3>3. journal[j] \in Entry
      BY <3>2 DEF ClientTypes
    <3> QED BY <3>2, <3>3 DEF Entry
  <2>1. e \in Entry /\ e.kind = x.op
    BY <1>1, <1>7, <2>0 DEF Entry
  <2>2. Client!Idle \in Call /\ Client!Idle.at = "idle"
    BY IdleCall
  <2>3. journal' = Append(journal, e) /\ calls' = [calls EXCEPT ![c] = Client!Idle]
    BY <1>3, <1>7
  <2> HIDE DEF e
  <2> QED BY <1>1, <1>3, <1>7, <2>1, <2>2, <2>3 DEF x, i
<1> QED BY <1>1, <1>2, <1>4, <1>5, <1>6, <1>7

\* The steps of a command before its push.
Early == {"idle", "kernel", "start", "load"}

\* What the journal and a call that goes on have to do with each other.
Recorded(s) ==
  \/ journal' = journal /\ ~(s.at = "project" /\ s.event.kind \in {"TimelineItemAppended", "AgentRunChanged"})
  \/ \E e \in Entry :
       /\ journal' = Append(journal, e)
       /\ (e.kind = "message") <=> (s.at = "project" /\ s.event.kind = "TimelineItemAppended")
       /\ e.kind = "message" => s.event.conv = e.conv /\ s.event.id = Len(journal) + 1
       /\ (e.kind = "started") <=> (s.at = "project" /\ s.event.kind = "AgentRunChanged")
       /\ e.kind = "started" => s.event.id = e.id /\ e.id \in 1..Len(journal)

\* A call that is where it has been in the sets.
LEMMA CallsReplaced ==
  ASSUME calls \in [Callers -> Call], NEW c \in Callers, NEW s \in Call, calls' = [calls EXCEPT ![c] = s]
  PROVE  /\ calls' \in [Callers -> Call]
         /\ calls'[c] = s /\ \A d \in Callers \ {c} : calls'[d] = calls[d]
         /\ Between' = (Between \ {c}) \cup (IF s.at = "log" THEN {c} ELSE {})
         /\ \A v : Pending(v)' = (Pending(v) \ {c})
              \cup (IF s.at = "project" /\ s.event.kind = "TimelineItemAppended" /\ s.event.conv = v THEN {c} ELSE {})
         /\ Starting' = (Starting \ {c})
              \cup (IF s.at = "project" /\ s.event.kind = "AgentRunChanged" THEN {c} ELSE {})
<1>1. calls' \in [Callers -> Call] /\ calls'[c] = s /\ \A d \in Callers \ {c} : calls'[d] = calls[d]
  OBVIOUS
<1>2. Between' = (Between \ {c}) \cup (IF s.at = "log" THEN {c} ELSE {})
  BY <1>1 DEF Between
<1>3. ASSUME NEW v
      PROVE  Pending(v)' = (Pending(v) \ {c})
              \cup (IF s.at = "project" /\ s.event.kind = "TimelineItemAppended" /\ s.event.conv = v THEN {c} ELSE {})
  BY <1>1 DEF Pending
<1>4. Starting' = (Starting \ {c})
              \cup (IF s.at = "project" /\ s.event.kind = "AgentRunChanged" THEN {c} ELSE {})
  BY <1>1 DEF Starting
<1> QED BY <1>1, <1>2, <1>3, <1>4

\* A call that goes on before its push, with what it adds to the journal, keeps the invariant.
LEMMA Moves ==
  ASSUME ClientInv, NEW c \in Callers, NEW s \in Call, calls' = [calls EXCEPT ![c] = s],
         calls[c].at \in Early, s.at \in Early \cup {"project"},
         UNCHANGED <<projections, events, log, client>>,
         s.at # "idle" => s.conv \in Conversations /\ s.op # "idle",
         s.at \in {"start", "load"} => s.id \in 1..Len(journal'),
         s.at = "project" => s.event.conv \in Conversations /\ s.event.id \in 1..Len(journal'),
         s.at = "project" => s.event.kind # "RuntimeStatusChanged",
         Recorded(s)
  PROVE  ClientInv'
<1>1. /\ journal \in Seq(Entry) /\ calls \in [Callers -> Call]
      /\ projections \in [conversations : [Conversations -> Times], timelines : [Conversations -> Seq(Nat)],
                          runs : SUBSET Nat]
  BY DEF ClientInv, ClientTypes
<1>2. /\ calls' \in [Callers -> Call]
      /\ calls'[c] = s /\ \A d \in Callers \ {c} : calls'[d] = calls[d]
      /\ Between' = (Between \ {c}) \cup (IF s.at = "log" THEN {c} ELSE {})
      /\ \A v : Pending(v)' = (Pending(v) \ {c})
              \cup (IF s.at = "project" /\ s.event.kind = "TimelineItemAppended" /\ s.event.conv = v THEN {c} ELSE {})
      /\ Starting' = (Starting \ {c})
              \cup (IF s.at = "project" /\ s.event.kind = "AgentRunChanged" THEN {c} ELSE {})
  BY <1>1, CallsReplaced
<1>3. /\ c \notin Between /\ (\A v : c \notin Pending(v)) /\ c \notin Starting
      /\ s.at # "log"
  BY DEF Early, Between, Pending, Starting
<1>4. Between' = Between
  BY <1>2, <1>3
<1>5. journal' \in Seq(Entry) /\ Len(journal) \in Nat /\ Len(journal') \in Nat /\ Len(journal) <= Len(journal')
  BY <1>1, JournalGrows DEF Recorded
<1>6. ClientTypes'
  BY <1>2, <1>5 DEF ClientInv, ClientTypes
<1>7. CallInv'
  <2>1. \A k \in 1..Len(journal) : k \in 1..Len(journal')
    BY <1>5
  <2> SUFFICES ASSUME NEW d \in Callers
               PROVE  /\ calls'[d].at # "idle" => calls'[d].conv \in Conversations /\ calls'[d].op # "idle"
                      /\ calls'[d].at \in {"start", "load"} => calls'[d].id \in 1..Len(journal')
                      /\ calls'[d].at \in {"project", "queue", "log"} =>
                           calls'[d].event.conv \in Conversations /\ calls'[d].event.id \in 1..Len(journal')
                      /\ calls'[d].at = "project" => calls'[d].event.kind # "RuntimeStatusChanged"
    BY DEF CallInv
  <2>2. CASE d = c
    BY <1>2, <2>2 DEF Early
  <2>3. CASE d # c
    BY <1>2, <2>1, <2>3 DEF ClientInv, CallInv
  <2> QED BY <2>2, <2>3
<1>8. LogInv'
  BY DEF ClientInv, LogInv
<1>9. QueueInv'
  <2>1. Taken' = Taken /\ Client!logged' = Client!logged
    BY DEF Taken, Client!logged
  <2>2. \A d \in Between : calls'[d] = calls[d]
    BY <1>2, <1>3 DEF Between
  <2> QED BY <1>4, <2>1, <2>2 DEF ClientInv, QueueInv
<1>10. TimelineInv'
  <2> SUFFICES ASSUME NEW v \in Conversations
               PROVE  LET line == projections.timelines[v]
                      IN /\ Client!ToSet(line) \cup {calls'[d].event.id : d \in Pending(v)'} = Messages(v)'
                         /\ \A d \in Pending(v)' : calls'[d].event.id \notin Client!ToSet(line)
                         /\ \A d, f \in Pending(v)' : calls'[d].event.id = calls'[f].event.id => d = f
                         /\ \A i, j \in 1..Len(line) : line[i] = line[j] => i = j
    BY DEF TimelineInv
  <2> DEFINE line == projections.timelines[v]
  <2>1. /\ Client!ToSet(line) \cup {calls[d].event.id : d \in Pending(v)} = Messages(v)
        /\ \A d \in Pending(v) : calls[d].event.id \notin Client!ToSet(line)
        /\ \A d, f \in Pending(v) : calls[d].event.id = calls[f].event.id => d = f
        /\ \A i, j \in 1..Len(line) : line[i] = line[j] => i = j
    BY DEF ClientInv, TimelineInv
  <2> HIDE DEF line
  <2>2. \A d \in Pending(v) : calls'[d] = calls[d]
    BY <1>2, <1>3 DEF Pending
  <2>3. CASE s.at = "project" /\ s.event.kind = "TimelineItemAppended" /\ s.event.conv = v
    <3>1. Pending(v)' = Pending(v) \cup {c} /\ calls'[c].event.id = Len(journal) + 1
      BY <1>2, <1>3, <2>3 DEF Recorded
    <3>2. Messages(v)' = Messages(v) \cup {Len(journal) + 1}
      BY <1>1, <2>3, JournalGrows DEF Recorded
    <3>3. Len(journal) + 1 \notin Messages(v)
      BY <1>1 DEF Messages
    <3>4. \A d \in Pending(v) : calls[d].event.id # Len(journal) + 1
      BY <2>1, <3>3
    <3>5. {calls'[d].event.id : d \in Pending(v)'} = {calls[d].event.id : d \in Pending(v)} \cup {Len(journal) + 1}
      BY <2>2, <3>1
    <3>6. Len(journal) + 1 \notin Client!ToSet(line)
      BY <2>1, <3>3
    <3>7. Client!ToSet(line) \cup {calls'[d].event.id : d \in Pending(v)'} = Messages(v)'
      BY <2>1, <3>2, <3>5
    <3>8. \A d \in Pending(v)' : calls'[d].event.id \notin Client!ToSet(line)
      BY <2>1, <2>2, <3>1, <3>6
    <3>9. \A d, f \in Pending(v)' : calls'[d].event.id = calls'[f].event.id => d = f
      BY <2>1, <2>2, <3>1, <3>4
    <3> QED BY <2>1, <3>7, <3>8, <3>9 DEF line
  <2>4. CASE ~(s.at = "project" /\ s.event.kind = "TimelineItemAppended" /\ s.event.conv = v)
    <3>1. Pending(v)' = Pending(v)
      BY <1>2, <1>3, <2>4
    <3>2. Messages(v)' = Messages(v)
      <4>1. CASE journal' = journal
        BY <4>1 DEF Messages
      <4>2. CASE journal' # journal
        <5>1. PICK e \in Entry : /\ journal' = Append(journal, e)
                                 /\ ~(e.kind = "message" /\ e.conv = v)
          BY <2>4, <4>2 DEF Recorded
        <5> QED BY <1>1, <5>1, JournalGrows
      <4> QED BY <4>1, <4>2
    <3>3. {calls'[d].event.id : d \in Pending(v)'} = {calls[d].event.id : d \in Pending(v)}
      BY <2>2, <3>1
    <3> QED BY <2>1, <2>2, <3>1, <3>2, <3>3 DEF line
  <2> QED BY <2>3, <2>4
<1>11. RunInv'
  <2>1. /\ projections.runs \cup {calls[d].event.id : d \in Starting} = Started
        /\ \A j \in DOMAIN journal : journal[j].kind = "started" => journal[j].id \in 1..Len(journal)
    BY DEF ClientInv, RunInv
  <2>2. \A d \in Starting : calls'[d] = calls[d]
    BY <1>2, <1>3 DEF Starting
  <2>3. CASE s.at = "project" /\ s.event.kind = "AgentRunChanged"
    <3>1. PICK e \in Entry : /\ journal' = Append(journal, e) /\ e.kind = "started"
                             /\ s.event.id = e.id /\ e.id \in 1..Len(journal)
      BY <2>3 DEF Recorded
    <3>2. Started' = Started \cup {e.id}
      BY <1>1, <3>1, JournalGrows
    <3>3. Starting' = Starting \cup {c} /\ calls'[c].event.id = e.id
      BY <1>2, <1>3, <2>3, <3>1
    <3>4. {calls'[d].event.id : d \in Starting'} = {calls[d].event.id : d \in Starting} \cup {e.id}
      BY <2>2, <3>3
    <3>5. \A j \in DOMAIN journal' : journal'[j].kind = "started" => journal'[j].id \in 1..Len(journal')
      <4>1. \A j \in DOMAIN journal' : (j \in DOMAIN journal /\ journal'[j] = journal[j]) \/ journal'[j] = e
        BY <1>1, <3>1
      <4>2. \A k \in 1..Len(journal) : k \in 1..Len(journal')
        BY <1>5
      <4> QED BY <2>1, <3>1, <4>1, <4>2
    <3> QED BY <2>1, <3>2, <3>4, <3>5 DEF RunInv
  <2>4. CASE ~(s.at = "project" /\ s.event.kind = "AgentRunChanged")
    <3>1. Starting' = Starting
      BY <1>2, <1>3, <2>4
    <3>2. journal' = journal \/ \E e \in Entry : journal' = Append(journal, e) /\ e.kind # "started"
      BY <2>4 DEF Recorded
    <3>3. Started' = Started
      <4>1. CASE journal' = journal
        BY <4>1 DEF Started
      <4> QED BY <1>1, <3>2, <4>1, JournalGrows
    <3>4. {calls'[d].event.id : d \in Starting'} = {calls[d].event.id : d \in Starting}
      BY <2>2, <3>1
    <3>5. \A j \in DOMAIN journal' : journal'[j].kind = "started" => journal'[j].id \in 1..Len(journal')
      <4>1. \A j \in DOMAIN journal' : (j \in DOMAIN journal /\ journal'[j] = journal[j]) \/ journal'[j].kind # "started"
        <5>1. CASE journal' = journal
          BY <5>1
        <5>2. CASE journal' # journal
          <6>1. PICK e \in Entry : journal' = Append(journal, e) /\ e.kind # "started"
            BY <3>2, <5>2
          <6>2. \A j \in DOMAIN journal' : (j \in DOMAIN journal /\ journal'[j] = journal[j]) \/ journal'[j] = e
            BY <1>1, <6>1
          <6> QED BY <6>1, <6>2
        <5> QED BY <5>1, <5>2
      <4>2. \A k \in 1..Len(journal) : k \in 1..Len(journal')
        BY <1>5
      <4> QED BY <2>1, <4>1, <4>2
    <3> QED BY <2>1, <3>3, <3>4, <3>5 DEF RunInv
  <2> QED BY <2>3, <2>4
<1> QED BY <1>6, <1>7, <1>8, <1>9, <1>10, <1>11 DEF ClientInv

\* The facade starts with one event, in the queue and in the log.
LEMMA ClientStarts == Client!Init => ClientInv
<1> SUFFICES ASSUME Client!Init PROVE ClientInv
  OBVIOUS
<1>1. /\ journal = <<>> /\ calls = [c \in Callers |-> Client!Idle] /\ events = <<Client!Ready>>
      /\ log = <<[id |-> 1, event |-> Client!Ready]>> /\ client = [drained |-> <<>>, seen |-> <<>>]
      /\ projections = [conversations |-> [v \in Conversations |-> 0],
                        timelines |-> [v \in Conversations |-> <<>>], runs |-> {}]
  BY DEF Client!Init
<1>2. /\ Between = {} /\ Starting = {} /\ \A v : Pending(v) = {}
  BY <1>1, IdleCall DEF Between, Starting, Pending
<1>3. Started = {} /\ \A v : Messages(v) = {}
  BY <1>1 DEF Started, Messages
<1>4. ClientTypes
  <2>1. [id |-> 1, event |-> Client!Ready] \in Logged
    BY IdleCall DEF Logged
  <2>2. 0 \in Times
    BY DEF Times
  <2> QED BY <1>1, <2>1, <2>2, IdleCall DEF ClientTypes
<1>5. CallInv
  BY <1>1, IdleCall DEF CallInv
<1>6. LogInv
  BY <1>1 DEF LogInv
<1>7. QueueInv
  <2>1. Taken = <<>> \o <<Client!Ready>>
    BY <1>1 DEF Taken
  <2>2. Taken = <<Client!Ready>>
    BY <2>1
  <2>3. Client!logged = <<Client!Ready>>
    BY <1>1 DEF Client!logged
  <2>4. IsFiniteSet(Between) /\ Cardinality(Between) = 0 /\ Len(log) = 1
    BY <1>1, <1>2, FS_EmptySet
  <2> QED BY <1>2, <2>2, <2>3, <2>4 DEF QueueInv
<1>8. TimelineInv
  BY <1>1, <1>2, <1>3 DEF TimelineInv, Client!ToSet
<1>9. RunInv
  BY <1>1, <1>2, <1>3 DEF RunInv
<1> QED BY <1>4, <1>5, <1>6, <1>7, <1>8, <1>9 DEF ClientInv

\* An action that comes to wait for an approval concerns no projection.
LEMMA Approvals ==
  ASSUME ClientInv, NEW v \in Conversations, NEW a \in Actions, Client!approval_required(v, a)
  PROVE  ClientInv'
<1> DEFINE e == [kind |-> "approval_required", conv |-> v, action |-> a]
<1>1. e \in Entry /\ e.kind = "approval_required"
  BY DEF Entry
<1>2. journal' = Append(journal, e) /\ UNCHANGED <<calls, projections, events, log, client>>
  BY DEF Client!approval_required
<1> HIDE DEF e
<1>3. /\ journal' \in Seq(Entry) /\ Len(journal) \in Nat /\ Len(journal') = Len(journal) + 1
      /\ \A x : Messages(x)' = Messages(x)
      /\ Started' = Started
  BY <1>1, <1>2, JournalGrows DEF ClientInv, ClientTypes
<1>4. \A k \in 1..Len(journal) : k \in 1..Len(journal')
  BY <1>3
<1>5. ClientTypes' /\ CallInv' /\ LogInv'
  BY <1>2, <1>3, <1>4 DEF ClientInv, ClientTypes, CallInv, LogInv
<1>6. QueueInv'
  BY <1>2 DEF ClientInv, QueueInv, Between, Taken, Client!logged
<1>7. TimelineInv'
  <2>1. \A x : Pending(x)' = Pending(x)
    BY <1>2 DEF Pending
  <2> QED BY <1>2, <1>3, <2>1 DEF ClientInv, TimelineInv
<1>8. RunInv'
  <2>1. Starting' = Starting
    BY <1>2 DEF Starting
  <2>2. \A j \in DOMAIN journal' : (j \in DOMAIN journal /\ journal'[j] = journal[j]) \/ journal'[j].kind # "started"
    BY <1>1, <1>2 DEF ClientInv, ClientTypes
  <2> QED BY <1>2, <1>3, <1>4, <2>1, <2>2 DEF ClientInv, RunInv
<1> QED BY <1>5, <1>6, <1>7, <1>8 DEF ClientInv

\* The steps before a push.
LEMMA EarlySteps ==
  ASSUME ClientInv, NEW c \in Callers
  PROVE  /\ (\E v \in Conversations :
               \/ Client!create_conversation(c, v) \/ Client!submit_user_message(c, v) \/ Client!start_agent_run(c, v)
               \/ \E a \in Actions : Client!approve_action(c, v, a) \/ Client!deny_action(c, v, a)) => ClientInv'
         /\ Client!refused(c) \/ Client!commits(c) \/ Client!starts(c) \/ Client!loads(c) => ClientInv'
<1>t. /\ ClientTypes /\ CallInv /\ journal \in Seq(Entry) /\ calls \in [Callers -> Call] /\ calls[c] \in Call
      /\ Len(journal) \in Nat
  BY DEF ClientInv, ClientTypes
<1>1. ASSUME NEW v \in Conversations,
             \/ Client!create_conversation(c, v) \/ Client!submit_user_message(c, v) \/ Client!start_agent_run(c, v)
             \/ \E a \in Actions : Client!approve_action(c, v, a) \/ Client!deny_action(c, v, a)
      PROVE  ClientInv'
  <2>1. PICK s \in Call : /\ s.at = "kernel" /\ s.op # "idle" /\ s.conv = v /\ calls[c].at = "idle"
                          /\ calls' = [calls EXCEPT ![c] = s]
                          /\ UNCHANGED <<journal, projections, events, log, client>>
    BY <1>1, <1>t, Begins
  <2> QED BY <2>1, Moves DEF Early, Recorded
<1>2. ASSUME Client!refused(c) PROVE ClientInv'
  <2>1. /\ calls[c].at \in Early /\ calls' = [calls EXCEPT ![c] = Client!Idle]
        /\ UNCHANGED <<journal, projections, events, log, client>>
    BY <1>2 DEF Client!refused, Early
  <2> QED BY <2>1, IdleCall, Moves DEF Early, Recorded
<1>3. ASSUME Client!commits(c) PROVE ClientInv'
  <2>1. PICK e \in Entry, s \in Call :
           /\ journal' = Append(journal, e) /\ calls' = [calls EXCEPT ![c] = s]
           /\ UNCHANGED <<projections, events, log, client>>
           /\ calls[c].at = "kernel" /\ e.kind # "started"
           /\ s.at \in {"idle", "start", "load", "project"}
           /\ s.at # "idle" => s.conv \in Conversations /\ s.op # "idle"
           /\ s.at \in {"start", "load"} => s.id = Len(journal) + 1
           /\ s.at = "project" => /\ s.event.kind = "TimelineItemAppended" /\ e.kind = "message"
                                  /\ s.event.conv = e.conv /\ s.event.conv \in Conversations
                                  /\ s.event.id = Len(journal) + 1
           /\ e.kind = "message" => s.at = "project"
    BY <1>3, <1>t, Commits
  <2>2. Len(journal) + 1 \in 1..Len(journal')
    BY <1>t, <2>1
  <2>3. Recorded(s)
    BY <2>1 DEF Recorded
  <2>4. s.at \in Early \cup {"project"} /\ calls[c].at \in Early
    BY <2>1 DEF Early
  <2> QED BY <2>1, <2>2, <2>3, <2>4, Moves
<1>4. ASSUME Client!starts(c) PROVE ClientInv'
  <2> DEFINE x == calls[c]
             e == [kind |-> "started", conv |-> x.conv, id |-> x.id]
             z == [kind |-> "AgentRunChanged", conv |-> x.conv, id |-> x.id, at |-> Len(journal) + 1]
             s == [x EXCEPT !.at = "project", !.event = z]
  <2>1. x.at = "start" /\ x.conv \in Conversations /\ x.op # "idle" /\ x.id \in 1..Len(journal)
    BY <1>4, <1>t DEF Client!starts, CallInv
  <2>2. /\ journal' = Append(journal, e) /\ calls' = [calls EXCEPT ![c] = s]
        /\ UNCHANGED <<projections, events, log, client>>
    BY <1>4 DEF Client!starts
  <2>3. e \in Entry /\ e.kind = "started" /\ e.id = x.id
    BY <1>t, <2>1 DEF Entry
  <2>4. z \in Event /\ z.kind = "AgentRunChanged" /\ z.id = x.id /\ z.conv = x.conv
    BY <1>t, <2>1 DEF Event, Kinds, Times
  <2> HIDE DEF z
  <2>5. s \in Call /\ s.at = "project" /\ s.event = z /\ s.conv = x.conv /\ s.op = x.op
    BY <1>t, <2>4 DEF Call
  <2> HIDE DEF e, s
  <2>6. Recorded(s)
    BY <2>1, <2>2, <2>3, <2>4, <2>5 DEF Recorded
  <2>7. x.id \in 1..Len(journal')
    BY <1>t, <2>1, <2>2
  <2>8. calls[c].at \in Early /\ s.at \in Early \cup {"project"}
    BY <2>1, <2>5 DEF Early
  <2> QED BY <2>1, <2>2, <2>4, <2>5, <2>6, <2>7, <2>8, Moves
<1>5. ASSUME Client!loads(c) PROVE ClientInv'
  <2> DEFINE x == calls[c]
             at == {i \in DOMAIN journal : journal[i].conv = x.conv}
             t == CHOOSE i \in at : \A j \in at : j <= i
             z == [kind |-> "ConversationCreated", conv |-> x.conv, id |-> x.id, at |-> t]
             s == [x EXCEPT !.at = "project", !.event = z]
  <2>1. x.at = "load" /\ x.conv \in Conversations /\ x.op # "idle" /\ x.id \in 1..Len(journal)
    BY <1>5, <1>t DEF Client!loads, CallInv
  <2>2. /\ calls' = [calls EXCEPT ![c] = s]
        /\ UNCHANGED <<journal, projections, events, log, client>>
    BY <1>5 DEF Client!loads
  <2>3. t \in Times
    <3>1. at \in SUBSET Nat
      BY <1>t
    <3> HIDE DEF at
    <3> QED BY <3>1 DEF Times
  <2> HIDE DEF t
  <2>4. z \in Event /\ z.kind = "ConversationCreated" /\ z.id = x.id /\ z.conv = x.conv
    BY <1>t, <2>1, <2>3 DEF Event, Kinds
  <2> HIDE DEF z
  <2>5. s \in Call /\ s.at = "project" /\ s.event = z /\ s.conv = x.conv /\ s.op = x.op
    BY <1>t, <2>4 DEF Call
  <2> HIDE DEF s
  <2>6. Recorded(s)
    BY <2>2, <2>4, <2>5 DEF Recorded
  <2>8. calls[c].at \in Early /\ s.at \in Early \cup {"project"}
    BY <2>1, <2>5 DEF Early
  <2> QED BY <2>1, <2>2, <2>4, <2>5, <2>6, <2>8, Moves
<1> QED BY <1>1, <1>2, <1>3, <1>4, <1>5

\* One more place in a sequence.
LEMMA Appended ==
  ASSUME NEW T, NEW s \in Seq(T), NEW x \in T
  PROVE  /\ Append(s, x) \in Seq(T) /\ Len(Append(s, x)) = Len(s) + 1 /\ Len(s) \in Nat
         /\ \A i \in 1..Len(s) : Append(s, x)[i] = s[i]
         /\ Append(s, x)[Len(s) + 1] = x
         /\ Client!ToSet(Append(s, x)) = Client!ToSet(s) \cup {x}
<1> DEFINE t == Append(s, x)
           n == Len(s)
<1>1. /\ t \in Seq(T) /\ Len(t) = n + 1 /\ n \in Nat
      /\ \A i \in 1..n : t[i] = s[i]
      /\ t[n + 1] = x
      /\ DOMAIN t = 1..(n + 1) /\ DOMAIN s = 1..n
  OBVIOUS
<1> HIDE DEF t, n
<1>2. Client!ToSet(s) = {s[i] : i \in 1..n} /\ Client!ToSet(t) = {t[i] : i \in 1..(n + 1)}
  BY <1>1 DEF Client!ToSet
<1>3. 1..(n + 1) = 1..n \cup {n + 1}
  BY <1>1
<1>4. {t[i] : i \in 1..(n + 1)} = {s[i] : i \in 1..n} \cup {x}
  BY <1>1, <1>3
<1> QED BY <1>1, <1>2, <1>4 DEF t, n

\* The projections take up the event of a call.
LEMMA Projects ==
  ASSUME ClientInv, NEW c \in Callers, Client!apply_projection(c)
  PROVE  ClientInv'
<1> DEFINE e == calls[c].event
           s == [calls[c] EXCEPT !.at = "queue"]
<1>1. /\ journal \in Seq(Entry) /\ calls \in [Callers -> Call] /\ calls[c] \in Call /\ Len(journal) \in Nat
      /\ projections \in [conversations : [Conversations -> Times], timelines : [Conversations -> Seq(Nat)],
                          runs : SUBSET Nat]
  BY DEF ClientInv, ClientTypes
<1>2. /\ calls[c].at = "project" /\ calls' = [calls EXCEPT ![c] = s]
      /\ UNCHANGED <<journal, events, log, client>>
  BY DEF Client!apply_projection
<1>3. /\ e \in Event /\ e.conv \in Conversations /\ e.id \in 1..Len(journal) /\ e.id \in Nat /\ e.at \in Times
  BY <1>1, <1>2 DEF ClientInv, CallInv, Call, Event
<1>4. /\ s \in Call /\ s.at = "queue" /\ s.event = e /\ s.conv = calls[c].conv /\ s.op = calls[c].op
  BY <1>1 DEF Call
<1>5. projections' = CASE e.kind = "ConversationCreated" -> [projections EXCEPT !.conversations[e.conv] = e.at]
            [] e.kind = "TimelineItemAppended" ->
                 [projections EXCEPT
                    !.timelines[e.conv] = Append(@, e.id),
                    !.conversations[e.conv] = IF @ = 0 THEN 0 ELSE e.at]
            [] OTHER -> [projections EXCEPT !.runs = @ \cup {e.id}]
  BY DEF Client!apply_projection
<1> HIDE DEF s
<1>6. /\ calls' \in [Callers -> Call]
      /\ calls'[c] = s /\ \A d \in Callers \ {c} : calls'[d] = calls[d]
      /\ Between' = Between \ {c}
      /\ \A v : Pending(v)' = Pending(v) \ {c}
      /\ Starting' = Starting \ {c}
  <2>1. /\ calls' \in [Callers -> Call]
        /\ calls'[c] = s /\ \A d \in Callers \ {c} : calls'[d] = calls[d]
        /\ Between' = (Between \ {c}) \cup (IF s.at = "log" THEN {c} ELSE {})
        /\ \A v : Pending(v)' = (Pending(v) \ {c})
              \cup (IF s.at = "project" /\ s.event.kind = "TimelineItemAppended" /\ s.event.conv = v THEN {c} ELSE {})
        /\ Starting' = (Starting \ {c})
              \cup (IF s.at = "project" /\ s.event.kind = "AgentRunChanged" THEN {c} ELSE {})
    BY <1>1, <1>2, <1>4, CallsReplaced
  <2> QED BY <1>4, <2>1
<1>7. Between' = Between
  BY <1>2, <1>6 DEF Between
<1> HIDE DEF e
<1>8. /\ projections'.timelines = IF e.kind = "TimelineItemAppended"
           THEN [projections.timelines EXCEPT ![e.conv] = Append(projections.timelines[e.conv], e.id)]
           ELSE projections.timelines
      /\ projections'.runs = IF e.kind \notin {"ConversationCreated", "TimelineItemAppended"}
           THEN projections.runs \cup {e.id} ELSE projections.runs
      /\ projections' \in [conversations : [Conversations -> Times], timelines : [Conversations -> Seq(Nat)],
                           runs : SUBSET Nat]
  <2>1. CASE e.kind = "ConversationCreated"
    <3> DEFINE convs == [projections.conversations EXCEPT ![e.conv] = e.at]
    <3>1. projections' = [projections EXCEPT !.conversations = convs]
      BY <1>5, <2>1
    <3>2. convs \in [Conversations -> Times]
      BY <1>1, <1>3
    <3> HIDE DEF convs
    <3> QED BY <1>1, <2>1, <3>1, <3>2
  <2>2. CASE e.kind = "TimelineItemAppended"
    <3> DEFINE lines == [projections.timelines EXCEPT ![e.conv] = Append(projections.timelines[e.conv], e.id)]
               convs == [projections.conversations EXCEPT ![e.conv] =
                           IF projections.conversations[e.conv] = 0 THEN 0 ELSE e.at]
    <3>1. projections' = [projections EXCEPT !.timelines = lines, !.conversations = convs]
      BY <1>5, <2>2
    <3>2. lines \in [Conversations -> Seq(Nat)]
      BY <1>1, <1>3
    <3>3. convs \in [Conversations -> Times]
      <4>1. 0 \in Times
        BY DEF Times
      <4> QED BY <1>1, <1>3, <4>1
    <3> HIDE DEF lines, convs
    <3>4. projections'.timelines = lines /\ projections'.runs = projections.runs
          /\ projections' \in [conversations : [Conversations -> Times], timelines : [Conversations -> Seq(Nat)],
                           runs : SUBSET Nat]
      BY <1>1, <3>1, <3>2, <3>3
    <3> QED BY <2>2, <3>4 DEF lines
  <2>3. CASE e.kind \notin {"ConversationCreated", "TimelineItemAppended"}
    BY <1>1, <1>3, <1>5, <2>3
  <2> QED BY <2>1, <2>2, <2>3
<1>9. ClientTypes'
  BY <1>2, <1>6, <1>8 DEF ClientInv, ClientTypes
<1>10. CallInv'
  <2> SUFFICES ASSUME NEW d \in Callers
               PROVE  /\ calls'[d].at # "idle" => calls'[d].conv \in Conversations /\ calls'[d].op # "idle"
                      /\ calls'[d].at \in {"start", "load"} => calls'[d].id \in 1..Len(journal)
                      /\ calls'[d].at \in {"project", "queue", "log"} =>
                           calls'[d].event.conv \in Conversations /\ calls'[d].event.id \in 1..Len(journal)
                      /\ calls'[d].at = "project" => calls'[d].event.kind # "RuntimeStatusChanged"
    BY <1>2 DEF CallInv
  <2>1. CASE d = c
    BY <1>2, <1>3, <1>4, <1>6, <2>1 DEF ClientInv, CallInv
  <2>2. CASE d # c
    BY <1>6, <2>2 DEF ClientInv, CallInv
  <2> QED BY <2>1, <2>2
<1>11. LogInv'
  BY <1>2 DEF ClientInv, LogInv
<1>12. QueueInv'
  <2>1. Taken' = Taken /\ Client!logged' = Client!logged
    BY <1>2 DEF Taken, Client!logged
  <2>2. \A d \in Between : calls'[d] = calls[d]
    BY <1>2, <1>6 DEF Between
  <2> QED BY <1>2, <1>7, <2>1, <2>2 DEF ClientInv, QueueInv
<1>13. TimelineInv'
  <2> SUFFICES ASSUME NEW v \in Conversations
               PROVE  LET line == projections'.timelines[v]
                      IN /\ Client!ToSet(line) \cup {calls'[d].event.id : d \in Pending(v)'} = Messages(v)'
                         /\ \A d \in Pending(v)' : calls'[d].event.id \notin Client!ToSet(line)
                         /\ \A d, f \in Pending(v)' : calls'[d].event.id = calls'[f].event.id => d = f
                         /\ \A i, j \in 1..Len(line) : line[i] = line[j] => i = j
    BY DEF TimelineInv
  <2> DEFINE line == projections.timelines[v]
             new == projections'.timelines[v]
  <2>1. /\ Client!ToSet(line) \cup {calls[d].event.id : d \in Pending(v)} = Messages(v)
        /\ \A d \in Pending(v) : calls[d].event.id \notin Client!ToSet(line)
        /\ \A d, f \in Pending(v) : calls[d].event.id = calls[f].event.id => d = f
        /\ \A i, j \in 1..Len(line) : line[i] = line[j] => i = j
    BY DEF ClientInv, TimelineInv
  <2>2. line \in Seq(Nat)
    BY <1>1
  <2>3. Messages(v)' = Messages(v)
    BY <1>2 DEF Messages
  <2>4. Pending(v)' = Pending(v) \ {c} /\ \A d \in Pending(v)' : calls'[d] = calls[d]
    BY <1>6 DEF Pending
  <2>5. CASE e.kind = "TimelineItemAppended" /\ e.conv = v
    <3>1. new = Append(line, e.id)
      BY <1>1, <1>8, <2>5
    <3>2. c \in Pending(v) /\ calls[c].event.id = e.id
      BY <1>2, <2>5 DEF Pending, e
    <3> HIDE DEF line, new
    <3>3. /\ Len(new) = Len(line) + 1 /\ Len(line) \in Nat
          /\ \A i \in 1..Len(line) : new[i] = line[i]
          /\ new[Len(line) + 1] = e.id
          /\ Client!ToSet(new) = Client!ToSet(line) \cup {e.id}
      BY <1>3, <2>2, <3>1, Appended
    <3>4. Client!ToSet(new) \cup {calls'[d].event.id : d \in Pending(v)'} = Messages(v)'
      <4>1. {calls[d].event.id : d \in Pending(v)} = {calls'[d].event.id : d \in Pending(v)'} \cup {e.id}
        BY <2>4, <3>2
      <4> QED BY <2>1, <2>3, <3>3, <4>1
    <3>5. \A d \in Pending(v)' : calls'[d].event.id \notin Client!ToSet(new)
      BY <2>1, <2>4, <3>2, <3>3
    <3>6. \A d, f \in Pending(v)' : calls'[d].event.id = calls'[f].event.id => d = f
      BY <2>1, <2>4
    <3>7. \A i \in 1..Len(line) : line[i] # e.id
      <4>1. \A i \in 1..Len(line) : line[i] \in Client!ToSet(line)
        BY <2>2 DEF Client!ToSet
      <4> QED BY <2>1, <3>2, <4>1
    <3>8. \A i \in 1..Len(new) : i \in 1..Len(line) \/ i = Len(line) + 1
      BY <3>3
    <3>9. \A i, j \in 1..Len(new) : new[i] = new[j] => i = j
      BY <2>1, <3>3, <3>7, <3>8
    <3> QED BY <3>4, <3>5, <3>6, <3>9 DEF new
  <2>6. CASE ~(e.kind = "TimelineItemAppended" /\ e.conv = v)
    <3>1. new = line
      BY <1>1, <1>3, <1>8, <2>6
    <3>2. c \notin Pending(v)
      BY <2>6 DEF Pending, e
    <3>3. Pending(v)' = Pending(v)
      BY <2>4, <3>2
    <3> HIDE DEF line, new
    <3>4. {calls'[d].event.id : d \in Pending(v)'} = {calls[d].event.id : d \in Pending(v)}
      BY <2>4, <3>3
    <3>5. \A d \in Pending(v)' : calls'[d].event.id \notin Client!ToSet(new)
      BY <2>1, <2>4, <3>1, <3>3
    <3>6. \A d, f \in Pending(v)' : calls'[d].event.id = calls'[f].event.id => d = f
      BY <2>1, <2>4, <3>3
    <3>7. Client!ToSet(new) \cup {calls'[d].event.id : d \in Pending(v)'} = Messages(v)'
      BY <2>1, <2>3, <3>1, <3>4
    <3>8. \A i, j \in 1..Len(new) : new[i] = new[j] => i = j
      BY <2>1, <3>1
    <3> QED BY <3>5, <3>6, <3>7, <3>8 DEF new
  <2> QED BY <2>5, <2>6
<1>14. RunInv'
  <2>1. /\ projections.runs \cup {calls[d].event.id : d \in Starting} = Started
        /\ \A j \in DOMAIN journal : journal[j].kind = "started" => journal[j].id \in 1..Len(journal)
    BY DEF ClientInv, RunInv
  <2>2. Started' = Started
    BY <1>2 DEF Started
  <2>3. \A d \in Starting' : calls'[d] = calls[d]
    BY <1>6 DEF Starting
  <2>k. e.kind \in Kinds
    BY <1>3 DEF Event
  <2>l. e.kind # "RuntimeStatusChanged"
    BY <1>2 DEF ClientInv, CallInv, e
  <2>4. CASE e.kind = "AgentRunChanged"
    <3>1. c \in Starting /\ calls[c].event.id = e.id /\ projections'.runs = projections.runs \cup {e.id}
      BY <1>2, <1>8, <2>4 DEF Starting, e
    <3>2. {calls[d].event.id : d \in Starting} = {calls'[d].event.id : d \in Starting'} \cup {e.id}
      BY <1>6, <2>3, <3>1
    <3> QED BY <1>2, <2>1, <2>2, <3>1, <3>2 DEF RunInv
  <2>5. CASE e.kind \in {"ConversationCreated", "TimelineItemAppended"}
    <3>1. c \notin Starting /\ projections'.runs = projections.runs
      BY <1>8, <2>5 DEF Starting, e
    <3>2. {calls[d].event.id : d \in Starting} = {calls'[d].event.id : d \in Starting'}
      BY <1>6, <2>3, <3>1
    <3> QED BY <1>2, <2>1, <2>2, <3>1, <3>2 DEF RunInv
  <2> QED BY <2>4, <2>5, <2>k, <2>l DEF Kinds
<1> QED BY <1>9, <1>10, <1>11, <1>12, <1>13, <1>14 DEF ClientInv

\* The queue takes the event of a call that goes on to the log.
LEMMA Queues ==
  ASSUME ClientInv, NEW c \in Callers, Client!push_queue(c)
  PROVE  ClientInv'
<1> DEFINE e == calls[c].event
           s == [calls[c] EXCEPT !.at = "log", !.id = Client!Last(log).id + 1]
<1>1. /\ journal \in Seq(Entry) /\ calls \in [Callers -> Call] /\ calls[c] \in Call
      /\ events \in Seq(Event) /\ client.drained \in Seq(Event) /\ log \in Seq(Logged)
  BY DEF ClientInv, ClientTypes
<1>2. /\ calls[c].at = "queue" /\ events' = Append(events, e)
      /\ calls' = [calls EXCEPT ![c] = s]
      /\ UNCHANGED <<journal, projections, log, client>>
  BY <1>1 DEF Client!push_queue
<1>3. e \in Event
  BY <1>1 DEF Call
<1>4. s \in Call /\ s.at = "log" /\ s.event = e /\ s.conv = calls[c].conv /\ s.op = calls[c].op
  <2>1. Client!Last(log).id + 1 \in Nat
    <3>1. Len(log) \in 1..Len(log)
      BY <1>1 DEF ClientInv, LogInv
    <3>2. log[Len(log)].id = Len(log)
      BY <3>1 DEF ClientInv, LogInv
    <3> QED BY <3>1, <3>2 DEF Client!Last
  <2> QED BY <1>1, <2>1 DEF Call
<1> HIDE DEF s
<1>5. /\ calls' \in [Callers -> Call]
      /\ calls'[c] = s /\ \A d \in Callers \ {c} : calls'[d] = calls[d]
      /\ Between' = Between \cup {c} /\ c \notin Between
      /\ \A v : Pending(v)' = Pending(v)
      /\ Starting' = Starting
  <2>1. /\ calls' \in [Callers -> Call]
        /\ calls'[c] = s /\ \A d \in Callers \ {c} : calls'[d] = calls[d]
        /\ Between' = (Between \ {c}) \cup (IF s.at = "log" THEN {c} ELSE {})
        /\ \A v : Pending(v)' = (Pending(v) \ {c})
              \cup (IF s.at = "project" /\ s.event.kind = "TimelineItemAppended" /\ s.event.conv = v THEN {c} ELSE {})
        /\ Starting' = (Starting \ {c})
              \cup (IF s.at = "project" /\ s.event.kind = "AgentRunChanged" THEN {c} ELSE {})
    BY <1>1, <1>2, <1>4, CallsReplaced
  <2>2. c \notin Between /\ c \notin Starting /\ \A v : c \notin Pending(v)
    BY <1>2 DEF Between, Starting, Pending
  <2> QED BY <1>4, <2>1, <2>2
<1>6. events' \in Seq(Event)
  BY <1>1, <1>2, <1>3, Appended
<1>7. ClientTypes'
  BY <1>2, <1>5, <1>6 DEF ClientInv, ClientTypes
<1>8. CallInv'
  <2> SUFFICES ASSUME NEW d \in Callers
               PROVE  /\ calls'[d].at # "idle" => calls'[d].conv \in Conversations /\ calls'[d].op # "idle"
                      /\ calls'[d].at \in {"start", "load"} => calls'[d].id \in 1..Len(journal)
                      /\ calls'[d].at \in {"project", "queue", "log"} =>
                           calls'[d].event.conv \in Conversations /\ calls'[d].event.id \in 1..Len(journal)
                      /\ calls'[d].at = "project" => calls'[d].event.kind # "RuntimeStatusChanged"
    BY <1>2 DEF CallInv
  <2>1. CASE d = c
    BY <1>2, <1>4, <1>5, <2>1 DEF ClientInv, CallInv
  <2>2. CASE d # c
    BY <1>5, <2>2 DEF ClientInv, CallInv
  <2> QED BY <2>1, <2>2
<1>9. LogInv'
  BY <1>2 DEF ClientInv, LogInv
<1>10. QueueInv'
  <2> DEFINE old == client.drained \o events
             new == client.drained \o events'
  <2>1. Taken = old /\ Taken' = new
    BY <1>2 DEF Taken
  <2>2. new = Append(old, e) /\ old \in Seq(Event)
    <3> DEFINE p == client.drained
               m == Len(p)
               n == Len(events)
    <3> HIDE DEF p, e
    <3>1. p \in Seq(Event) /\ events \in Seq(Event) /\ e \in Event
      BY <1>1, <1>3 DEF p
    <3>2. /\ events' \in Seq(Event) /\ Len(events') = n + 1 /\ n \in Nat
          /\ \A i \in 1..n : events'[i] = events[i]
          /\ events'[n + 1] = e
      BY <1>2, <3>1, Appended
    <3>3. m \in Nat /\ old = p \o events /\ new = p \o events'
      BY <3>1 DEF p
    <3> HIDE DEF m, n, old, new
    <3>4. /\ old \in Seq(Event) /\ Len(old) = m + n
          /\ \A i \in 1..(m + n) : old[i] = IF i <= m THEN p[i] ELSE events[i - m]
      BY <3>1, <3>2, <3>3 DEF m, n
    <3>5. /\ new \in Seq(Event) /\ Len(new) = m + n + 1
          /\ \A i \in 1..(m + n + 1) : new[i] = IF i <= m THEN p[i] ELSE events'[i - m]
      <4> DEFINE q == events'
      <4>1. q \in Seq(Event) /\ Len(q) = n + 1 /\ n \in Nat /\ p \in Seq(Event) /\ Len(p) = m /\ new = p \o q
        BY <3>1, <3>2, <3>3 DEF m
      <4> HIDE DEF q
      <4>2. /\ new \in Seq(Event) /\ Len(new) = Len(p) + Len(q)
            /\ \A i \in 1..(Len(p) + Len(q)) : new[i] = IF i <= Len(p) THEN p[i] ELSE q[i - Len(p)]
        BY <4>1, ConcatProperties
      <4>3. Len(p) + Len(q) = m + n + 1
        BY <3>3, <4>1
      <4> QED BY <4>1, <4>2, <4>3 DEF q
    <3> DEFINE b == Append(old, e)
    <3>6. /\ b \in Seq(Event) /\ Len(b) = m + n + 1
          /\ \A i \in 1..(m + n) : b[i] = old[i]
          /\ b[m + n + 1] = e
      BY <3>1, <3>4, Appended
    <3> HIDE DEF b
    <3>7. \A i \in 1..(m + n + 1) : new[i] = b[i]
      <4> TAKE i \in 1..(m + n + 1)
      <4>1. CASE i = m + n + 1
        <5>1. ~(i <= m) /\ i - m = n + 1
          BY <3>2, <3>3, <4>1
        <5> QED BY <3>2, <3>5, <3>6, <4>1, <5>1
      <4>2. CASE i # m + n + 1
        <5>1. i \in 1..(m + n) /\ (~(i <= m) => i - m \in 1..n)
          BY <3>2, <3>3, <4>2
        <5> QED BY <3>2, <3>4, <3>5, <3>6, <5>1
      <4> QED BY <4>1, <4>2
    <3>8. new = b
      <4>1. Len(new) = Len(b) /\ \A i \in 1..Len(new) : new[i] = b[i]
        BY <3>5, <3>6, <3>7
      <4> QED BY <3>5, <3>6, <4>1, SeqEqual
    <3> QED BY <3>4, <3>8 DEF b
  <2> HIDE DEF old, new, e
  <2>3. Len(new) = Len(old) + 1 /\ Client!ToSet(new) = Client!ToSet(old) \cup {e} /\ Len(old) \in Nat
    BY <1>3, <2>2, Appended
  <2>4. /\ IsFiniteSet(Between) /\ Len(old) = Len(log) + Cardinality(Between)
        /\ Client!ToSet(old) = Client!ToSet(Client!logged) \cup {calls[d].event : d \in Between}
    BY <2>1 DEF ClientInv, QueueInv
  <2>5. IsFiniteSet(Between') /\ Cardinality(Between') = Cardinality(Between) + 1
    BY <1>5, <2>4, FS_AddElement
  <2>6. {calls'[d].event : d \in Between'} = {calls[d].event : d \in Between} \cup {e}
    <3>1. \A d \in Between : calls'[d] = calls[d]
      BY <1>5 DEF Between
    <3> QED BY <1>4, <1>5, <3>1 DEF e
  <2>7. Client!logged' = Client!logged
    BY <1>2 DEF Client!logged
  <2>8. Cardinality(Between) \in Nat /\ Len(log) \in Nat
    BY <1>1, <2>4, FS_CardinalityType
  <2>9. Len(new) = Len(log') + Cardinality(Between')
    BY <1>2, <2>3, <2>4, <2>5, <2>8
  <2>10. Client!ToSet(new) = Client!ToSet(Client!logged') \cup {calls'[d].event : d \in Between'}
    BY <2>3, <2>4, <2>6, <2>7
  <2> QED BY <2>1, <2>5, <2>9, <2>10 DEF QueueInv
<1>11. TimelineInv'
  <2>1. \A v : Messages(v)' = Messages(v)
    BY <1>2 DEF Messages
  <2>2. \A v : \A d \in Pending(v) : calls'[d] = calls[d]
    BY <1>2, <1>5 DEF Pending
  <2> SUFFICES ASSUME NEW v \in Conversations
               PROVE  LET line == projections.timelines[v]
                      IN /\ Client!ToSet(line) \cup {calls'[d].event.id : d \in Pending(v)'} = Messages(v)'
                         /\ \A d \in Pending(v)' : calls'[d].event.id \notin Client!ToSet(line)
                         /\ \A d, f \in Pending(v)' : calls'[d].event.id = calls'[f].event.id => d = f
                         /\ \A i, j \in 1..Len(line) : line[i] = line[j] => i = j
    BY <1>2 DEF TimelineInv
  <2>3. {calls'[d].event.id : d \in Pending(v)'} = {calls[d].event.id : d \in Pending(v)}
    BY <1>5, <2>2
  <2> QED BY <1>5, <2>1, <2>2, <2>3 DEF ClientInv, TimelineInv
<1>12. RunInv'
  <2>1. Started' = Started
    BY <1>2 DEF Started
  <2>2. {calls'[d].event.id : d \in Starting'} = {calls[d].event.id : d \in Starting}
    <3>1. \A d \in Starting : calls'[d] = calls[d]
      BY <1>2, <1>5 DEF Starting
    <3> QED BY <1>5, <3>1
  <2> QED BY <1>2, <2>1, <2>2 DEF ClientInv, RunInv
<1> QED BY <1>7, <1>8, <1>9, <1>10, <1>11, <1>12 DEF ClientInv

\* The log takes the event and the call is over.
LEMMA Logs ==
  ASSUME ClientInv, NEW c \in Callers, Client!push_log(c)
  PROVE  ClientInv'
<1> DEFINE e == calls[c].event
           x == [id |-> Client!Last(log).id + 1, event |-> e]
<1>1. /\ journal \in Seq(Entry) /\ calls \in [Callers -> Call] /\ calls[c] \in Call
      /\ events \in Seq(Event) /\ client.drained \in Seq(Event) /\ log \in Seq(Logged)
  BY DEF ClientInv, ClientTypes
<1>2. /\ calls[c].at = "log" /\ log' = Append(log, x) /\ calls' = [calls EXCEPT ![c] = Client!Idle]
      /\ UNCHANGED <<journal, projections, events, client>>
  BY DEF Client!push_log
<1>3. /\ Len(log) \in Nat /\ Len(log) # 0 /\ \A i \in 1..Len(log) : log[i].id = i
      /\ Len(client.seen) <= Len(log) /\ \A i \in 1..Len(client.seen) : client.seen[i] = log[i]
      /\ Len(client.seen) \in Nat
  BY <1>1 DEF ClientInv, LogInv, ClientTypes
<1>4. x.id = Len(log) + 1 /\ x \in Logged /\ x.event = e
  <2>1. Client!Last(log).id = Len(log)
    BY <1>3 DEF Client!Last
  <2>2. e \in Event
    BY <1>1 DEF Call
  <2> QED BY <1>3, <2>1, <2>2 DEF Logged
<1> HIDE DEF x
<1>5. /\ log' \in Seq(Logged) /\ Len(log') = Len(log) + 1
      /\ \A i \in 1..Len(log) : log'[i] = log[i]
      /\ log'[Len(log) + 1] = x
  BY <1>1, <1>2, <1>4, Appended
<1>6. /\ calls' \in [Callers -> Call]
      /\ calls'[c] = Client!Idle /\ \A d \in Callers \ {c} : calls'[d] = calls[d]
      /\ Between' = Between \ {c} /\ c \in Between
      /\ \A v : Pending(v)' = Pending(v)
      /\ Starting' = Starting
  <2>1. /\ calls' \in [Callers -> Call]
        /\ calls'[c] = Client!Idle /\ \A d \in Callers \ {c} : calls'[d] = calls[d]
        /\ Between' = (Between \ {c}) \cup (IF Client!Idle.at = "log" THEN {c} ELSE {})
        /\ \A v : Pending(v)' = (Pending(v) \ {c})
              \cup (IF Client!Idle.at = "project" /\ Client!Idle.event.kind = "TimelineItemAppended"
                        /\ Client!Idle.event.conv = v THEN {c} ELSE {})
        /\ Starting' = (Starting \ {c})
              \cup (IF Client!Idle.at = "project" /\ Client!Idle.event.kind = "AgentRunChanged" THEN {c} ELSE {})
    BY <1>1, <1>2, IdleCall, CallsReplaced
  <2>2. c \in Between /\ c \notin Starting /\ \A v : c \notin Pending(v)
    BY <1>2 DEF Between, Starting, Pending
  <2> QED BY <2>1, <2>2, IdleCall
<1>7. ClientTypes'
  BY <1>2, <1>5, <1>6 DEF ClientInv, ClientTypes
<1>8. CallInv'
  <2> SUFFICES ASSUME NEW d \in Callers
               PROVE  /\ calls'[d].at # "idle" => calls'[d].conv \in Conversations /\ calls'[d].op # "idle"
                      /\ calls'[d].at \in {"start", "load"} => calls'[d].id \in 1..Len(journal)
                      /\ calls'[d].at \in {"project", "queue", "log"} =>
                           calls'[d].event.conv \in Conversations /\ calls'[d].event.id \in 1..Len(journal)
                      /\ calls'[d].at = "project" => calls'[d].event.kind # "RuntimeStatusChanged"
    BY <1>2 DEF CallInv
  <2>1. CASE d = c
    BY <1>6, <2>1, IdleCall
  <2>2. CASE d # c
    BY <1>6, <2>2 DEF ClientInv, CallInv
  <2> QED BY <2>1, <2>2
<1>9. LogInv'
  <2>1. \A i \in 1..Len(log') : log'[i].id = i
    BY <1>3, <1>4, <1>5
  <2>2. Len(client'.seen) <= Len(log') /\ \A i \in 1..Len(client'.seen) : client'.seen[i] = log'[i]
    BY <1>2, <1>3, <1>5
  <2> QED BY <1>3, <1>5, <2>1, <2>2 DEF LogInv
<1>10. QueueInv'
  <2>1. Taken' = Taken
    BY <1>2 DEF Taken
  <2>2. Client!ToSet(Client!logged') = Client!ToSet(Client!logged) \cup {e}
    <3> DEFINE n == Len(log)
    <3>1. Client!logged = [i \in 1..n |-> log[i].event] /\ Client!logged' = [i \in 1..(n + 1) |-> log'[i].event]
      BY <1>1, <1>5 DEF Client!logged
    <3> HIDE DEF n
    <3>2. /\ Client!ToSet(Client!logged) = {log[i].event : i \in 1..n}
          /\ Client!ToSet(Client!logged') = {log'[i].event : i \in 1..(n + 1)}
      BY <3>1 DEF Client!ToSet
    <3>3. 1..(n + 1) = 1..n \cup {n + 1}
      BY <1>3 DEF n
    <3>4. {log'[i].event : i \in 1..(n + 1)} = {log[i].event : i \in 1..n} \cup {e}
      BY <1>4, <1>5, <3>3 DEF n
    <3> QED BY <3>2, <3>4
  <2>3. /\ IsFiniteSet(Between) /\ Len(Taken) = Len(log) + Cardinality(Between)
        /\ Client!ToSet(Taken) = Client!ToSet(Client!logged) \cup {calls[d].event : d \in Between}
    BY DEF ClientInv, QueueInv
  <2>4. IsFiniteSet(Between') /\ Cardinality(Between') = Cardinality(Between) - 1
    BY <1>6, <2>3, FS_RemoveElement
  <2>5. {calls[d].event : d \in Between} = {calls'[d].event : d \in Between'} \cup {e}
    <3>1. \A d \in Between' : calls'[d] = calls[d]
      BY <1>6 DEF Between
    <3> QED BY <1>6, <3>1
  <2>6. Cardinality(Between) \in Nat
    BY <2>3, FS_CardinalityType
  <2>7. Len(Taken') = Len(log') + Cardinality(Between')
    BY <1>3, <1>5, <2>1, <2>3, <2>4, <2>6
  <2>8. Client!ToSet(Taken') = Client!ToSet(Client!logged') \cup {calls'[d].event : d \in Between'}
    BY <2>1, <2>2, <2>3, <2>5
  <2> QED BY <2>4, <2>7, <2>8 DEF QueueInv
<1>11. TimelineInv'
  <2>1. \A v : Messages(v)' = Messages(v)
    BY <1>2 DEF Messages
  <2>2. \A v : \A d \in Pending(v) : calls'[d] = calls[d]
    BY <1>2, <1>6 DEF Pending
  <2> SUFFICES ASSUME NEW v \in Conversations
               PROVE  LET line == projections.timelines[v]
                      IN /\ Client!ToSet(line) \cup {calls'[d].event.id : d \in Pending(v)'} = Messages(v)'
                         /\ \A d \in Pending(v)' : calls'[d].event.id \notin Client!ToSet(line)
                         /\ \A d, f \in Pending(v)' : calls'[d].event.id = calls'[f].event.id => d = f
                         /\ \A i, j \in 1..Len(line) : line[i] = line[j] => i = j
    BY <1>2 DEF TimelineInv
  <2>3. {calls'[d].event.id : d \in Pending(v)'} = {calls[d].event.id : d \in Pending(v)}
    BY <1>6, <2>2
  <2> QED BY <1>6, <2>1, <2>2, <2>3 DEF ClientInv, TimelineInv
<1>12. RunInv'
  <2>1. Started' = Started
    BY <1>2 DEF Started
  <2>2. {calls'[d].event.id : d \in Starting'} = {calls[d].event.id : d \in Starting}
    <3>1. \A d \in Starting : calls'[d] = calls[d]
      BY <1>2, <1>6 DEF Starting
    <3> QED BY <1>6, <3>1
  <2> QED BY <1>2, <2>1, <2>2 DEF ClientInv, RunInv
<1> QED BY <1>7, <1>8, <1>9, <1>10, <1>11, <1>12 DEF ClientInv

\* What the application has taken from the queue and what is in it are one.
LEMMA Drains == ClientInv /\ Client!drain_events => ClientInv'
<1> SUFFICES ASSUME ClientInv, Client!drain_events PROVE ClientInv'
  OBVIOUS
<1>1. /\ events \in Seq(Event) /\ client \in [drained : Seq(Event), seen : Seq(Logged)]
      /\ client.drained \in Seq(Event)
  BY DEF ClientInv, ClientTypes
<1>2. /\ client' = [client EXCEPT !.drained = @ \o events] /\ events' = <<>>
      /\ UNCHANGED <<journal, calls, projections, log>>
  BY DEF Client!drain_events
<1>3. /\ client'.drained = client.drained \o events /\ client'.seen = client.seen
      /\ client' \in [drained : Seq(Event), seen : Seq(Logged)] /\ events' \in Seq(Event)
  <2> DEFINE old == client.drained \o events
  <2>1. old \in Seq(Event)
    BY <1>1
  <2>2. client' = [client EXCEPT !.drained = old]
    BY <1>2
  <2> HIDE DEF old
  <2>3. /\ client'.drained = old /\ client'.seen = client.seen
        /\ client' \in [drained : Seq(Event), seen : Seq(Logged)]
    BY <1>1, <2>1, <2>2
  <2>4. events' \in Seq(Event)
    BY <1>2
  <2> QED BY <2>3, <2>4 DEF old
<1>4. ClientTypes' /\ CallInv' /\ LogInv'
  BY <1>2, <1>3 DEF ClientInv, ClientTypes, CallInv, LogInv
<1>5. QueueInv'
  <2> DEFINE old == client.drained \o events
             new == old \o <<>>
  <2>1. Taken = old /\ Taken' = new /\ old \in Seq(Event)
    BY <1>1, <1>2, <1>3 DEF Taken
  <2> HIDE DEF old
  <2>2. new \in Seq(Event) /\ Len(new) = Len(old) /\ \A i \in 1..Len(new) : new[i] = old[i]
    BY <2>1
  <2> HIDE DEF new
  <2>3. new = old
    BY <2>1, <2>2, SeqEqual
  <2>4. Between' = Between /\ Client!logged' = Client!logged
    BY <1>2 DEF Between, Client!logged
  <2> QED BY <1>2, <2>1, <2>3, <2>4 DEF ClientInv, QueueInv
<1>6. TimelineInv' /\ RunInv'
  BY <1>2 DEF ClientInv, TimelineInv, Messages, Pending, RunInv, Started, Starting
<1> QED BY <1>4, <1>5, <1>6 DEF ClientInv

\* What the application has read of the log, followed by what events_after
\* answers to its cursor, is the log.
LEMMA ReadsAll ==
  ASSUME ClientInv
  PROVE  LET cursor == IF client.seen = <<>> THEN 0 ELSE Client!Last(client.seen).id
         IN client.seen \o Client!events_after(cursor) = log
<1> DEFINE seen == client.seen
           k == Len(seen)
           cursor == IF client.seen = <<>> THEN 0 ELSE Client!Last(client.seen).id
           rest == Client!events_after(cursor)
           all == seen \o rest
<1>1. /\ log \in Seq(Logged) /\ seen \in Seq(Logged) /\ k \in Nat /\ Len(log) \in Nat
      /\ \A i \in 1..Len(log) : log[i].id = i
      /\ k <= Len(log) /\ \A i \in 1..k : seen[i] = log[i]
  BY DEF ClientInv, ClientTypes, LogInv
<1>2. cursor = k
  <2>1. CASE seen = <<>>
    BY <2>1
  <2>2. CASE seen # <<>>
    <3>1. k \in 1..Len(log) /\ k \in 1..k
      BY <1>1, <2>2
    <3> QED BY <1>1, <2>2, <3>1 DEF Client!Last
  <2> QED BY <2>1, <2>2
<1> HIDE DEF cursor
<1>3. rest = SubSeq(log, k + 1, Len(log))
  <2>1. k \in 0..Len(log)
    BY <1>1
  <2> HIDE DEF k
  <2>2. Client!events_after(k) = SubSeq(log, k + 1, Len(log))
    BY <1>1, <2>1, EventsAfter
  <2> QED BY <1>2, <2>2
<1> HIDE DEF seen, rest, k
<1>4. /\ rest \in Seq(Logged) /\ Len(rest) = Len(log) - k
      /\ \A i \in 1..(Len(log) - k) : rest[i] = log[k + i]
  BY <1>1, <1>3
<1>5. all \in Seq(Logged) /\ Len(all) = Len(log) /\ k = Len(seen)
      /\ \A i \in 1..Len(log) : all[i] = IF i <= k THEN seen[i] ELSE rest[i - k]
  <2>1. /\ all \in Seq(Logged) /\ Len(all) = Len(seen) + Len(rest)
        /\ \A i \in 1..(Len(seen) + Len(rest)) : all[i] = IF i <= Len(seen) THEN seen[i] ELSE rest[i - Len(seen)]
    BY <1>1, <1>4, ConcatProperties
  <2>2. k = Len(seen)
    BY DEF k
  <2>3. Len(seen) + Len(rest) = Len(log)
    BY <1>1, <1>4, <2>2
  <2> QED BY <2>1, <2>2, <2>3
<1> HIDE DEF all
<1>6. \A i \in 1..Len(log) : all[i] = log[i]
  <2> TAKE i \in 1..Len(log)
  <2>1. CASE i <= k
    <3>1. i \in 1..k
      BY <1>1, <2>1
    <3> QED BY <1>1, <1>5, <2>1, <3>1
  <2>2. CASE ~(i <= k)
    <3>1. i - k \in 1..(Len(log) - k) /\ k + (i - k) = i
      BY <1>1, <2>2
    <3> QED BY <1>4, <1>5, <2>2, <3>1
  <2> QED BY <2>1, <2>2
<1>7. all = log
  BY <1>1, <1>5, <1>6, SeqEqual
<1> QED BY <1>7 DEF all, rest, cursor, seen

\* A page moves the application to the end of the log.
LEMMA Pages == ClientInv /\ Client!pages => ClientInv'
<1> SUFFICES ASSUME ClientInv, Client!pages PROVE ClientInv'
  OBVIOUS
<1>1. /\ log \in Seq(Logged) /\ client \in [drained : Seq(Event), seen : Seq(Logged)] /\ Len(log) \in Nat
  BY DEF ClientInv, ClientTypes
<1>2. /\ client' = [client EXCEPT !.seen = log]
      /\ UNCHANGED <<journal, calls, projections, events, log>>
  BY ReadsAll DEF Client!pages
<1>3. /\ client'.drained = client.drained /\ client'.seen = log
      /\ client' \in [drained : Seq(Event), seen : Seq(Logged)]
  BY <1>1, <1>2
<1>4. ClientTypes' /\ CallInv'
  BY <1>2, <1>3 DEF ClientInv, ClientTypes, CallInv
<1>5. LogInv'
  BY <1>1, <1>2, <1>3 DEF ClientInv, LogInv
<1>6. QueueInv'
  BY <1>2, <1>3 DEF ClientInv, QueueInv, Taken, Between, Client!logged
<1>7. TimelineInv'
  BY <1>2 DEF ClientInv, TimelineInv, Messages, Pending
<1>8. RunInv'
  <2>1. Started' = Started /\ Starting' = Starting /\ calls' = calls
    BY <1>2 DEF Started, Starting
  <2> QED BY <1>2, <2>1 DEF ClientInv, RunInv
<1> QED BY <1>4, <1>5, <1>6, <1>7, <1>8 DEF ClientInv

\* Every step of the commands and of the application keeps the invariant.
LEMMA ClientSteps == ClientInv /\ [Client!Next]_(Client!uvars) => ClientInv'
<1> SUFFICES ASSUME ClientInv, [Client!Next]_(Client!uvars) PROVE ClientInv'
  OBVIOUS
<1>1. ASSUME NEW v \in Conversations, NEW a \in Actions, Client!approval_required(v, a) PROVE ClientInv'
  BY <1>1, Approvals
<1>2. ASSUME NEW c \in Callers, NEW v \in Conversations,
             \/ Client!create_conversation(c, v) \/ Client!submit_user_message(c, v) \/ Client!start_agent_run(c, v)
             \/ \E a \in Actions : Client!approve_action(c, v, a) \/ Client!deny_action(c, v, a)
      PROVE  ClientInv'
  BY <1>2, EarlySteps
<1>3. ASSUME NEW c \in Callers, Client!refused(c) \/ Client!commits(c) \/ Client!starts(c) \/ Client!loads(c)
      PROVE  ClientInv'
  BY <1>3, EarlySteps
<1>4. ASSUME NEW c \in Callers, Client!apply_projection(c) PROVE ClientInv'
  BY <1>4, Projects
<1>5. ASSUME NEW c \in Callers, Client!push_queue(c) PROVE ClientInv'
  BY <1>5, Queues
<1>6. ASSUME NEW c \in Callers, Client!push_log(c) PROVE ClientInv'
  BY <1>6, Logs
<1>7. CASE Client!drain_events
  BY <1>7, Drains
<1>8. CASE Client!pages
  BY <1>8, Pages
<1>9. CASE UNCHANGED Client!uvars
  <2>1. UNCHANGED <<journal, calls, projections, events, log, client>>
    BY <1>9 DEF Client!uvars
  <2>2. ClientTypes' /\ CallInv' /\ LogInv'
    BY <2>1 DEF ClientInv, ClientTypes, CallInv, LogInv
  <2>3. QueueInv'
    BY <2>1 DEF ClientInv, QueueInv, Taken, Between, Client!logged
  <2>4. TimelineInv'
    BY <2>1 DEF ClientInv, TimelineInv, Messages, Pending
  <2>5. RunInv'
    <3>1. Started' = Started /\ Starting' = Starting
      BY <2>1 DEF Started, Starting
    <3> QED BY <2>1, <3>1 DEF ClientInv, RunInv
  <2> QED BY <2>2, <2>3, <2>4, <2>5 DEF ClientInv
<1> QED BY <1>1, <1>2, <1>3, <1>4, <1>5, <1>6, <1>7, <1>8, <1>9 DEF Client!Next

\* When no push is under way nothing is in between.
LEMMA NothingUnderWay ==
  ASSUME ClientInv, Client!quiet
  PROVE  /\ Client!ToSet(Taken) = Client!ToSet(Client!logged) /\ Len(Taken) = Len(log)
         /\ \A v \in Conversations : /\ Client!ToSet(projections.timelines[v]) = Messages(v)
                                     /\ Len(projections.timelines[v]) = Cardinality(Messages(v))
         /\ projections.runs = Started
<1>1. Between = {} /\ Starting = {} /\ \A v : Pending(v) = {}
  BY DEF Client!quiet, Between, Starting, Pending
<1>2. Client!ToSet(Taken) = Client!ToSet(Client!logged) /\ Len(Taken) = Len(log)
  <2>1. Cardinality(Between) = 0 /\ Len(log) \in Nat
    BY <1>1, FS_EmptySet DEF ClientInv, ClientTypes
  <2> QED BY <1>1, <2>1 DEF ClientInv, QueueInv
<1>3. ASSUME NEW v \in Conversations
      PROVE  /\ Client!ToSet(projections.timelines[v]) = Messages(v)
             /\ Len(projections.timelines[v]) = Cardinality(Messages(v))
  <2> DEFINE line == projections.timelines[v]
  <2>0. /\ Client!ToSet(line) \cup {calls[d].event.id : d \in Pending(v)} = Messages(v)
        /\ \A i, j \in 1..Len(line) : line[i] = line[j] => i = j
    BY DEF ClientInv, TimelineInv
  <2>1. /\ Client!ToSet(line) = Messages(v) /\ line \in Seq(Nat)
        /\ \A i, j \in 1..Len(line) : line[i] = line[j] => i = j
    <3>1. line \in Seq(Nat)
      BY DEF ClientInv, ClientTypes
    <3>2. {calls[d].event.id : d \in Pending(v)} = {}
      BY <1>1
    <3> HIDE DEF line
    <3> QED BY <2>0, <3>1, <3>2
  <2> HIDE DEF line
  <2> DEFINE n == Len(line)
             T == Client!ToSet(line)
  <2>2. n \in Nat /\ line \in [1..n -> Nat] /\ T = {line[i] : i \in 1..n}
    BY <2>1 DEF Client!ToSet
  <2> HIDE DEF T, n
  <2>3. line \in [1..n -> T]
    BY <2>2
  <2>4. line \in Surjection(1..n, T)
    BY <2>2, <2>3 DEF Surjection
  <2>5. line \in Injection(1..n, T)
    <3>1. \A i, j \in 1..n : line[i] = line[j] => i = j
      BY <2>1 DEF n
    <3>2. IsInjective(line)
      BY <2>3, <3>1 DEF IsInjective
    <3> QED BY <2>3, <3>2 DEF Injection
  <2>6. IsFiniteSet(1..n) /\ Cardinality(1..n) = n
    BY <2>2, FS_Interval
  <2>7. Cardinality(T) = n
    BY <2>4, <2>5, <2>6, FS_Surjection
  <2> QED BY <2>1, <2>7 DEF line, n, T
<1>4. projections.runs = Started
  BY <1>1 DEF ClientInv, RunInv
<1> QED BY <1>2, <1>3, <1>4

\* However the pushes of several commands interleave: an application that pages through the log
\* by its cursor has every event of the log once and in its order; and once no push is under way
\* the events drained and queued are those of the log, each timeline has the messages of its
\* conversation once each and the runs are those the kernel started.
THEOREM ClientsSeeAll == Client!Spec => [](Client!TypeOK /\ Client!ClientSeesAll)
<1>1. ClientInv => Client!TypeOK /\ Client!ClientSeesAll
  <2> SUFFICES ASSUME ClientInv PROVE Client!TypeOK /\ Client!ClientSeesAll
    OBVIOUS
  <2>1. Client!TypeOK
    <3>1. \A c \in Callers : calls[c].at \in {"idle", "kernel", "start", "load", "project", "queue", "log"}
      BY DEF ClientInv, ClientTypes, Call
    <3>2. projections.runs \subseteq DOMAIN journal
      <4>1. \A i \in Started : i \in DOMAIN journal
        BY DEF ClientInv, ClientTypes, RunInv, Started
      <4> QED BY <4>1 DEF ClientInv, RunInv
    <3>3. DOMAIN projections.timelines = Conversations
      BY DEF ClientInv, ClientTypes
    <3> QED BY <3>1, <3>2, <3>3 DEF Client!TypeOK
  <2>2. Client!ClientSeesAll
    BY ReadsAll, NothingUnderWay, SameCount DEF Client!ClientSeesAll, Taken, Messages, Started
  <2> QED BY <2>1, <2>2
<1> QED BY <1>1, ClientStarts, ClientSteps, PTL DEF Client!Spec

-----------------------------------------------------------------------------
(* ServerSync.  What a projection says is compared with what the stream    *)
(* says up to the projection's cursor: the next event changes both alike,  *)
(* and events after the cursor change neither.  The stream is an argument  *)
(* of what follows, since it grows.                                        *)

\* Objects are finitely many positive numbers (0 marks the key of a grant with an id
\* and an entry of no object); the backend publishes events of the types of the code.
StreamAssumption ==
  /\ Objects \subseteq Nat \ {0} /\ IsFiniteSet(Objects)
  /\ \A pub \in Publications : pub[1] \in Stream!ServerSyncObjectType
  /\ MaxPages \in Nat

\* What the payloads that are no knowledge entry may have as their status.
Statuses == {"active", "inactive", "deleted", "uninstalled", "removed", "disabled"}

\* The grants and their map.
PluginPermissions == "plugin_permissions"

\* The key of a permission granted to an installation, and a payload that grants it.
KeyOf(o, m) == IF <<o, m>> \in Named THEN <<0, <<o, m>>>> ELSE <<o, m>>
GrantOf(o, x) ==
  /\ x.installation_id = o /\ x.permission_key \in Permissions
  /\ x.grant_id = IF <<o, x.permission_key>> \in Named THEN <<o, x.permission_key>> ELSE <<>>

\* What can be relied on in an event.
EventOk(e) ==
  /\ e.object_type \in Stream!ServerSyncObjectType /\ e.object_id \in Objects
  /\ e.object_type = "knowledge" => e.payload.version \in Nat /\ e.payload.content_hash \in 1 .. 2
  /\ e.object_type # "knowledge" => e.payload.status \in Statuses
  /\ e.object_type = "plugin" /\ e.operation \in Stream!Grants => GrantOf(e.object_id, e.payload)

\* The backend numbers the events.
StreamOk(s) == \A i \in 1 .. Len(s) : s[i].sequence = i /\ EventOk(s[i])

\* The last number of a set.
Latest(S) == IF S = {} THEN 0 ELSE CHOOSE i \in S : \A j \in S : j <= i

\* An event about an object of a family, about a grant, about an entry.
Concerns(e, f, o) == e.object_type # "knowledge" /\ Stream!family(e) = f /\ e.object_id = o
ConcernsGrant(e, k, o) ==
  /\ e.object_type = "plugin"
  /\ \/ e.operation \in Stream!Grants /\ Stream!permission_key(e) = k
     \/ e.operation \in {"uninstalled", "removed"} /\ e.object_id = o
ConcernsEntry(e, o) == e.object_type = "knowledge" /\ e.object_id = o

\* Those up to n.
About(s, n, f, o) == {i \in 1 .. n : Concerns(s[i], f, o)}
AboutGrant(s, n, k, o) == {i \in 1 .. n : ConcernsGrant(s[i], k, o)}
AboutEntry(s, n, o) == {i \in 1 .. n : ConcernsEntry(s[i], o)}

\* What the last of them leaves.
Left(s, i) == IF i = 0 THEN {} ELSE IF s[i].operation \in Stream!Removals THEN {} ELSE {s[i].payload}
LeftGrant(s, i) == IF i = 0 THEN {} ELSE IF s[i].operation = "permission_granted" THEN {s[i].payload} ELSE {}

\* An entry is the newest of its object up to n.
NewestIn(s, n, o, payload) ==
  /\ \E i \in AboutEntry(s, n, o) : s[i].payload = payload
  /\ \A i \in AboutEntry(s, n, o) : /\ s[i].payload.version <= payload.version
                                    /\ ~Stream!contradicts(payload, s[i].payload)

\* The model's names for them.
LEMMA StreamNames ==
  /\ \A n, f, o : Stream!Stands(n, f, o) = Left(stream, Latest(About(stream, n, f, o)))
  /\ \A n, k, o : Stream!Granted(n, k, o) = LeftGrant(stream, Latest(AboutGrant(stream, n, k, o)))
  /\ \A n, o, payload : Stream!Newest(n, o, payload) = NewestIn(stream, n, o, payload)
<1>1. ASSUME NEW n, NEW f, NEW o PROVE Stream!Stands(n, f, o) = Left(stream, Latest(About(stream, n, f, o)))
  BY Zenon DEF Stream!Stands, Stream!LastOf, Left, Latest, About, Concerns
<1>2. ASSUME NEW n, NEW k, NEW o PROVE Stream!Granted(n, k, o) = LeftGrant(stream, Latest(AboutGrant(stream, n, k, o)))
  BY Zenon DEF Stream!Granted, Stream!LastOf, LeftGrant, Latest, AboutGrant, ConcernsGrant
<1>3. ASSUME NEW n, NEW o, NEW payload PROVE Stream!Newest(n, o, payload) = NewestIn(stream, n, o, payload)
  BY Zenon DEF Stream!Newest, NewestIn, AboutEntry, ConcernsEntry
<1> QED BY <1>1, <1>2, <1>3

\* A number larger than those of a set becomes its last one.
LEMMA LatestNew ==
  ASSUME NEW n \in Nat, NEW T \in SUBSET (1 .. (n + 1)), n + 1 \in T
  PROVE  Latest(T) = n + 1
<1>1. \A j \in T : j <= n + 1 /\ j \in Nat
  OBVIOUS
<1> DEFINE Top(i) == \A j \in T : j <= i
<1>2. Top(n + 1) /\ \A i \in T : Top(i) => i = n + 1
  BY <1>1
<1>3. Latest(T) = CHOOSE i \in T : Top(i)
  BY Zenon DEF Latest
<1> HIDE DEF Top
<1>4. (CHOOSE i \in T : Top(i)) \in T /\ Top(CHOOSE i \in T : Top(i))
  BY <1>2
<1> QED BY <1>2, <1>3, <1>4

\* The last number of a set is one of it.
LEMMA LatestIn ==
  ASSUME NEW n \in Nat, NEW T \in SUBSET (1 .. n)
  PROVE  Latest(T) \in 0 .. n
<1>0. \A i \in T : i \in 0 .. n /\ i \in Nat /\ i <= n
  OBVIOUS
<1>1. CASE T = {}
  BY <1>1 DEF Latest
<1>2. CASE T # {}
  <2> DEFINE Rest == {n - i : i \in T}
  <2>1. Rest \in SUBSET Nat /\ Rest # {}
    <3>1. \A i \in T : n - i \in Nat
      BY <1>0
    <3> QED BY <1>2, <3>1
  <2>2. PICK x \in Rest : \A y \in Rest : ~(y < x)
    <3> HIDE DEF Rest
    <3> QED BY <2>1, LeastNatural
  <2>3. PICK i \in T : x = n - i
    OBVIOUS
  <2>4. \A j \in T : j <= i
    <3> TAKE j \in T
    <3>1. n - j \in Rest
      OBVIOUS
    <3>2. ~(n - j < n - i) /\ i \in 1 .. n /\ j \in 1 .. n
      BY <2>2, <2>3, <3>1
    <3> QED BY <3>2
  <2> HIDE DEF Rest
  <2>5. (CHOOSE k \in T : \A j \in T : j <= k) \in T
    BY <2>4
  <2>6. Latest(T) \in T
    BY <1>2, <2>5, Zenon DEF Latest
  <2> QED BY <1>0, <2>6
<1> QED BY <1>1, <1>2

\* The next event joins those that are about what it is about.
LEMMA NextAbout ==
  ASSUME NEW s, NEW n \in Nat
  PROVE  /\ \A f, o : /\ Concerns(s[n + 1], f, o) => n + 1 \in About(s, n + 1, f, o)
                      /\ ~Concerns(s[n + 1], f, o) => About(s, n + 1, f, o) = About(s, n, f, o)
         /\ \A k, o : /\ ConcernsGrant(s[n + 1], k, o) => n + 1 \in AboutGrant(s, n + 1, k, o)
                      /\ ~ConcernsGrant(s[n + 1], k, o) => AboutGrant(s, n + 1, k, o) = AboutGrant(s, n, k, o)
         /\ \A o : /\ ConcernsEntry(s[n + 1], o) => AboutEntry(s, n + 1, o) = AboutEntry(s, n, o) \cup {n + 1}
                   /\ ~ConcernsEntry(s[n + 1], o) => AboutEntry(s, n + 1, o) = AboutEntry(s, n, o)
<1>1. 1 .. (n + 1) = (1 .. n) \cup {n + 1} /\ n + 1 \in 1 .. (n + 1)
  OBVIOUS
<1> QED BY <1>1 DEF About, AboutGrant, AboutEntry

\* What the next event leaves of what it is about, and of the rest.
LEMMA NextLeaves ==
  ASSUME NEW s, NEW n \in Nat
  PROVE  /\ \A f, o : /\ Concerns(s[n + 1], f, o) => Left(s, Latest(About(s, n + 1, f, o))) = Left(s, n + 1)
                      /\ ~Concerns(s[n + 1], f, o) =>
                           Left(s, Latest(About(s, n + 1, f, o))) = Left(s, Latest(About(s, n, f, o)))
         /\ \A k, o : /\ ConcernsGrant(s[n + 1], k, o) =>
                           LeftGrant(s, Latest(AboutGrant(s, n + 1, k, o))) = LeftGrant(s, n + 1)
                      /\ ~ConcernsGrant(s[n + 1], k, o) =>
                           LeftGrant(s, Latest(AboutGrant(s, n + 1, k, o))) = LeftGrant(s, Latest(AboutGrant(s, n, k, o)))
<1>1. ASSUME NEW f, NEW o, Concerns(s[n + 1], f, o) PROVE Latest(About(s, n + 1, f, o)) = n + 1
  <2>1. n + 1 \in About(s, n + 1, f, o)
    BY <1>1, NextAbout
  <2>2. About(s, n + 1, f, o) \in SUBSET (1 .. (n + 1))
    BY DEF About
  <2> QED BY <2>1, <2>2, LatestNew
<1>2. ASSUME NEW k, NEW o, ConcernsGrant(s[n + 1], k, o) PROVE Latest(AboutGrant(s, n + 1, k, o)) = n + 1
  <2>1. n + 1 \in AboutGrant(s, n + 1, k, o)
    BY <1>2, NextAbout
  <2>2. AboutGrant(s, n + 1, k, o) \in SUBSET (1 .. (n + 1))
    BY DEF AboutGrant
  <2> QED BY <2>1, <2>2, LatestNew
<1> QED BY <1>1, <1>2, NextAbout

\* A knowledge projection has the newest entries up to n.
KnowledgeAgrees(s, n, k) ==
  /\ k = [cursor |-> k.cursor, entries |-> k.entries] /\ k.cursor \in 0 .. n
  /\ DOMAIN k.entries \subseteq Objects
  /\ \A i \in 1 .. n : s[i].object_type = "knowledge" => i <= k.cursor /\ s[i].object_id \in DOMAIN k.entries
  /\ \A o \in DOMAIN k.entries : NewestIn(s, n, o, k.entries[o])

\* The other maps have the last snapshot of each object up to n.
MapsAgree(s, n, maps) ==
  \A f \in Stream!Families \ {PluginPermissions} :
    /\ DOMAIN maps[f] \subseteq Objects
    /\ \A o \in DOMAIN maps[f] : maps[f][o].status \in Statuses
    /\ \A o \in Objects : Left(s, Latest(About(s, n, f, o))) = IF o \in DOMAIN maps[f] THEN {maps[f][o]} ELSE {}

\* A map of grants has those that stand after n events.
GrantsAgree(s, n, g) ==
  /\ \A k \in DOMAIN g : /\ g[k].installation_id \in Objects /\ g[k].permission_key \in Permissions
                         /\ k = KeyOf(g[k].installation_id, g[k].permission_key)
                         /\ g[k].status \in Statuses
  /\ \A o \in Objects, m \in Permissions :
       LeftGrant(s, Latest(AboutGrant(s, n, KeyOf(o, m), o))) = IF KeyOf(o, m) \in DOMAIN g THEN {g[KeyOf(o, m)]} ELSE {}

\* No event that the reducer cannot accept was passed.
Passed(s, n) ==
  \A i \in 1 .. n :
    /\ s[i].schema_version = 1
    /\ IF s[i].object_type # "knowledge" THEN s[i].operation \in Stream!allowed(s[i].object_type)
       ELSE s[i].operation = "deleted" => s[i].payload.status = "deleted"

\* A projection is what the stream says up to its cursor.
Agrees(s, p) ==
  /\ p = [cursor |-> p.cursor, knowledge |-> p.knowledge, maps |-> p.maps]
  /\ p.cursor \in 0 .. Len(s) /\ DOMAIN p.maps = Stream!Families
  /\ Passed(s, p.cursor)
  /\ KnowledgeAgrees(s, p.cursor, p.knowledge)
  /\ MapsAgree(s, p.cursor, p.maps)
  /\ GrantsAgree(s, p.cursor, p.maps[PluginPermissions])

\* An event of knowledge: the entries stay the newest, or it is refused.
LEMMA KnowledgeStep ==
  ASSUME NEW s, NEW n \in Nat, NEW k, KnowledgeAgrees(s, n, k),
         \A i \in 1 .. (n + 1) : s[i].sequence = i /\ EventOk(s[i]),
         s[n + 1].object_type = "knowledge"
  PROVE  LET r == Stream!apply_knowledge_event(k, s[n + 1])
         IN /\ r.ok => /\ KnowledgeAgrees(s, n + 1, r.p)
                       /\ s[n + 1].schema_version = 1
                       /\ s[n + 1].operation = "deleted" => s[n + 1].payload.status = "deleted"
            /\ r.ok \in BOOLEAN /\ (~r.ok => r.p = k)
<1> DEFINE e == s[n + 1]
           o == e.object_id
           known == o \in DOMAIN k.entries
           stays == known /\ ~Stream!supersedes(k.entries[o], e.payload)
           more == IF stays THEN k.entries ELSE Stream!upsert_snapshot(k.entries, o, e.payload)
           bad == \/ ~Stream!ensure_supported(e) \/ e.object_type # "knowledge"
                  \/ e.operation \notin {"created", "updated", "deleted"}
                  \/ e.payload.entry_id # e.object_id
                  \/ e.operation = "deleted" /\ e.payload.status # "deleted"
                  \/ known /\ Stream!contradicts(k.entries[o], e.payload)
           r == Stream!apply_knowledge_event(k, e)
<1>1. /\ k.cursor \in 0 .. n /\ n + 1 \in 1 .. (n + 1) /\ e.sequence = n + 1
      /\ o \in Objects /\ e.payload.version \in Nat
  BY DEF KnowledgeAgrees, EventOk
<1>2. Stream!should_apply(k.cursor, e)
  BY <1>1 DEF Stream!should_apply
<1>3. r = IF bad THEN [ok |-> FALSE, p |-> k] ELSE [ok |-> TRUE, p |-> [cursor |-> n + 1, entries |-> more]]
  BY <1>1, <1>2 DEF Stream!apply_knowledge_event, Stream!Refused, Stream!Accepted
<1>4. CASE bad
  <2>1. r = [ok |-> FALSE, p |-> k]
    BY <1>3, <1>4
  <2> HIDE DEF r
  <2> QED BY <2>1 DEF r, e
<1>5. CASE ~bad
  <2> DEFINE q == [cursor |-> n + 1, entries |-> more]
  <2>1. r = [ok |-> TRUE, p |-> q]
    BY <1>3, <1>5
  <2>2. /\ e.schema_version = 1 /\ (e.operation = "deleted" => e.payload.status = "deleted")
        /\ (known => ~Stream!contradicts(k.entries[o], e.payload))
    BY <1>5 DEF Stream!ensure_supported
  <2>3. /\ DOMAIN more = DOMAIN k.entries \cup {o}
        /\ more[o] = IF stays THEN k.entries[o] ELSE e.payload
        /\ \A x \in DOMAIN k.entries : x # o => more[x] = k.entries[x]
    BY DEF Stream!upsert_snapshot
  <2> HIDE DEF more
  <2>4. /\ AboutEntry(s, n + 1, o) = AboutEntry(s, n, o) \cup {n + 1}
        /\ \A x : x # o => AboutEntry(s, n + 1, x) = AboutEntry(s, n, x)
    <3>1. ConcernsEntry(e, o) /\ \A x : x # o => ~ConcernsEntry(e, x)
      BY DEF ConcernsEntry
    <3> HIDE DEF o
    <3> QED BY <3>1, NextAbout
  <2>5. \A x \in DOMAIN k.entries : NewestIn(s, n, x, k.entries[x])
    BY DEF KnowledgeAgrees
  <2>6. \A i \in AboutEntry(s, n, o) : s[i].payload.version \in Nat /\ o \in DOMAIN k.entries
    BY DEF AboutEntry, ConcernsEntry, KnowledgeAgrees, EventOk
  <2>7. NewestIn(s, n + 1, o, more[o])
    <3>1. CASE stays
      <4>1. NewestIn(s, n, o, k.entries[o]) /\ more[o] = k.entries[o]
        BY <2>3, <2>5, <3>1
      <4>2. k.entries[o].version \in Nat
        BY <2>6, <4>1 DEF NewestIn
      <4>3. e.payload.version <= k.entries[o].version
        BY <1>1, <3>1, <4>2 DEF Stream!supersedes
      <4> HIDE DEF o
      <4> QED BY <2>2, <2>4, <3>1, <4>1, <4>3 DEF NewestIn
    <3>2. CASE ~stays /\ known
      <4>1. NewestIn(s, n, o, k.entries[o]) /\ more[o] = e.payload
        BY <2>3, <2>5, <3>2
      <4>2. k.entries[o].version \in Nat
        BY <2>6, <4>1 DEF NewestIn
      <4>3. e.payload.version > k.entries[o].version
        BY <3>2 DEF Stream!supersedes
      <4>4. ASSUME NEW i \in AboutEntry(s, n, o)
            PROVE  s[i].payload.version <= e.payload.version /\ ~Stream!contradicts(e.payload, s[i].payload)
        <5>1. s[i].payload.version \in Nat /\ s[i].payload.version <= k.entries[o].version
          BY <2>6, <4>1, <4>4 DEF NewestIn
        <5> QED BY <1>1, <4>2, <4>3, <5>1 DEF Stream!contradicts
      <4>5. e.payload.version <= e.payload.version /\ ~Stream!contradicts(e.payload, e.payload)
        BY <1>1 DEF Stream!contradicts
      <4> HIDE DEF o
      <4> QED BY <2>4, <4>1, <4>4, <4>5 DEF NewestIn
    <3>3. CASE ~known
      <4>1. AboutEntry(s, n, o) = {} /\ more[o] = e.payload
        BY <2>3, <2>6, <3>3
      <4>2. e.payload.version <= e.payload.version /\ ~Stream!contradicts(e.payload, e.payload)
        BY <1>1 DEF Stream!contradicts
      <4> HIDE DEF o
      <4> QED BY <2>4, <4>1, <4>2 DEF NewestIn
    <3> QED BY <3>1, <3>2, <3>3
  <2>8. ASSUME NEW x \in DOMAIN more PROVE NewestIn(s, n + 1, x, more[x])
    <3>1. CASE x = o
      BY <2>7, <3>1
    <3>2. CASE x # o
      <4>1. x \in DOMAIN k.entries /\ more[x] = k.entries[x] /\ AboutEntry(s, n + 1, x) = AboutEntry(s, n, x)
        BY <2>3, <2>4, <2>8, <3>2
      <4> QED BY <2>5, <4>1 DEF NewestIn
    <3> QED BY <3>1, <3>2
  <2>9. ASSUME NEW i \in 1 .. (n + 1), s[i].object_type = "knowledge"
        PROVE  i <= n + 1 /\ s[i].object_id \in DOMAIN more
    <3>1. i = n + 1 \/ i \in 1 .. n
      OBVIOUS
    <3>2. i \in 1 .. n => s[i].object_id \in DOMAIN k.entries
      BY <2>9 DEF KnowledgeAgrees
    <3> QED BY <2>3, <3>1, <3>2
  <2>10. DOMAIN more \subseteq Objects
    BY <1>1, <2>3 DEF KnowledgeAgrees
  <2>11. q = [cursor |-> q.cursor, entries |-> q.entries] /\ q.cursor = n + 1 /\ q.entries = more
    OBVIOUS
  <2> HIDE DEF q
  <2>12. KnowledgeAgrees(s, n + 1, q)
    BY <2>8, <2>9, <2>10, <2>11 DEF KnowledgeAgrees
  <2>13. r.ok = TRUE /\ r.p = q
    BY <2>1
  <2> HIDE DEF r
  <2> QED BY <2>2, <2>12, <2>13 DEF r, e
<1> QED BY <1>4, <1>5

\* Another event leaves the entries what they are.
LEMMA KnowledgeStays ==
  ASSUME NEW s, NEW n \in Nat, NEW k, KnowledgeAgrees(s, n, k), s[n + 1].object_type # "knowledge"
  PROVE  KnowledgeAgrees(s, n + 1, k)
<1>1. \A o : AboutEntry(s, n + 1, o) = AboutEntry(s, n, o)
  BY NextAbout DEF ConcernsEntry
<1>2. \A i \in 1 .. (n + 1) : i = n + 1 \/ i \in 1 .. n
  OBVIOUS
<1>3. k.cursor \in 0 .. (n + 1)
  BY DEF KnowledgeAgrees
<1> QED BY <1>1, <1>2, <1>3 DEF KnowledgeAgrees, NewestIn

\* The family of an event that is accepted.
LEMMA FamilyOf ==
  ASSUME NEW e, e.object_type \in Stream!ServerSyncObjectType \ {"knowledge"},
         e.operation \in Stream!allowed(e.object_type)
  PROVE  /\ Stream!family(e) \in Stream!Families
         /\ e.operation \in Stream!Grants => e.object_type = "plugin" /\ Stream!family(e) = PluginPermissions
         /\ e.operation \notin Stream!Grants => Stream!family(e) # PluginPermissions
<1>1. CASE e.operation = "read"
  BY <1>1 DEF Stream!family, Stream!Families, Stream!Grants, PluginPermissions
<1>2. CASE e.operation \in {"reaction_added", "reaction_removed"}
  BY <1>2 DEF Stream!family, Stream!Families, Stream!Grants, PluginPermissions
<1>3. CASE e.operation \in Stream!Grants
  <2>1. e.object_type = "plugin"
    BY <1>3 DEF Stream!allowed, Stream!ServerSyncObjectType, Stream!Grants
  <2> QED BY <1>3, <2>1 DEF Stream!family, Stream!Families, Stream!Grants, PluginPermissions
<1>4. CASE e.operation \notin Stream!Grants \cup {"read", "reaction_added", "reaction_removed"}
  <2>1. Stream!family(e) = e.object_type
    BY <1>4 DEF Stream!family
  <2> QED BY <1>4, <2>1 DEF Stream!Families, Stream!ServerSyncObjectType, PluginPermissions
<1> QED BY <1>1, <1>2, <1>3, <1>4

\* What a snapshot does to the maps.
LEMMA SnapshotMaps ==
  ASSUME NEW e, NEW maps, DOMAIN maps = Stream!Families, Stream!family(e) \in Stream!Families
  PROVE  LET new == Stream!apply_snapshot_operation(maps, e)
             f == Stream!family(e)
         IN /\ DOMAIN new = Stream!Families
            /\ \A h \in Stream!Families : h # f => new[h] = maps[h]
            /\ e.operation \in Stream!Removals => new[f] = Stream!removed(maps[f], {Stream!key_in_map(e)})
            /\ e.operation \notin Stream!Removals =>
                 new[f] = Stream!upsert_snapshot(maps[f], Stream!key_in_map(e), e.payload)
BY DEF Stream!apply_snapshot_operation

\* What an event that is accepted does to the maps.
Applied(maps, e) ==
  IF e.object_type = "plugin" THEN Stream!apply_plugin_event(maps, e) ELSE Stream!apply_snapshot_operation(maps, e)

\* A grant changes its key alone.
LEMMA GrantStep ==
  ASSUME StreamAssumption, NEW s, NEW n \in Nat, NEW maps, DOMAIN maps = Stream!Families,
         MapsAgree(s, n, maps), GrantsAgree(s, n, maps[PluginPermissions]),
         EventOk(s[n + 1]), s[n + 1].object_type # "knowledge",
         s[n + 1].operation \in Stream!allowed(s[n + 1].object_type), s[n + 1].operation \in Stream!Grants
  PROVE  LET new == Applied(maps, s[n + 1])
         IN /\ DOMAIN new = Stream!Families
            /\ MapsAgree(s, n + 1, new)
            /\ GrantsAgree(s, n + 1, new[PluginPermissions])
<1> DEFINE e == s[n + 1]
           o == e.object_id
           m == e.payload.permission_key
           new == Applied(maps, e)
           g == maps[PluginPermissions]
           h == new[PluginPermissions]
<1>1. /\ e.object_type = "plugin" /\ Stream!family(e) = PluginPermissions /\ PluginPermissions \in Stream!Families
      /\ o \in Objects /\ m \in Permissions /\ GrantOf(o, e.payload) /\ e.payload.status \in Statuses
  BY FamilyOf DEF EventOk, GrantOf
<1>2. e.operation \notin {"uninstalled", "removed"}
  BY DEF Stream!Grants
<1>3. new = Stream!apply_snapshot_operation(maps, e)
  BY <1>1, <1>2 DEF Applied, Stream!apply_plugin_event
<1>4. /\ Stream!permission_key(e) = KeyOf(o, m) /\ Stream!key_in_map(e) = KeyOf(o, m)
      /\ e.payload.installation_id = o
  BY <1>1 DEF GrantOf, KeyOf, Stream!permission_key, Stream!key_in_map
<1>5. /\ DOMAIN new = Stream!Families
      /\ \A f \in Stream!Families : f # PluginPermissions => new[f] = maps[f]
      /\ e.operation \in Stream!Removals => h = Stream!removed(g, {KeyOf(o, m)})
      /\ e.operation \notin Stream!Removals => h = Stream!upsert_snapshot(g, KeyOf(o, m), e.payload)
  <2> HIDE DEF new, e
  <2>1. Stream!family(e) \in Stream!Families
    BY <1>1
  <2>2. /\ DOMAIN new = Stream!Families
        /\ \A f \in Stream!Families : f # Stream!family(e) => new[f] = maps[f]
        /\ e.operation \in Stream!Removals =>
             new[Stream!family(e)] = Stream!removed(maps[Stream!family(e)], {Stream!key_in_map(e)})
        /\ e.operation \notin Stream!Removals =>
             new[Stream!family(e)] = Stream!upsert_snapshot(maps[Stream!family(e)], Stream!key_in_map(e), e.payload)
    <3> DEFINE next == Stream!apply_snapshot_operation(maps, e)
    <3>1. /\ DOMAIN next = Stream!Families
          /\ \A f \in Stream!Families : f # Stream!family(e) => next[f] = maps[f]
          /\ e.operation \in Stream!Removals =>
               next[Stream!family(e)] = Stream!removed(maps[Stream!family(e)], {Stream!key_in_map(e)})
          /\ e.operation \notin Stream!Removals =>
               next[Stream!family(e)] = Stream!upsert_snapshot(maps[Stream!family(e)], Stream!key_in_map(e), e.payload)
      BY <2>1, SnapshotMaps, Zenon
    <3>2. new = next
      BY <1>3
    <3> HIDE DEF next
    <3> QED BY <3>1, <3>2
  <2> QED BY <1>1, <1>4, <2>2
<1> HIDE DEF new, e
<1>6. MapsAgree(s, n + 1, new)
  <2>1. ASSUME NEW f \in Stream!Families \ {PluginPermissions}
        PROVE  new[f] = maps[f] /\ \A x : Left(s, Latest(About(s, n + 1, f, x))) = Left(s, Latest(About(s, n, f, x)))
    <3>1. \A x : ~Concerns(s[n + 1], f, x)
      BY <1>1, <2>1 DEF Concerns, e
    <3> QED BY <1>5, <2>1, <3>1, NextLeaves
  <2> QED BY <2>1 DEF MapsAgree
<1>7. GrantsAgree(s, n + 1, h)
  <2> DEFINE key == KeyOf(o, m)
  <2>1. /\ e.operation \in Stream!Removals <=> e.operation # "permission_granted"
        /\ LeftGrant(s, n + 1) = IF e.operation = "permission_granted" THEN {e.payload} ELSE {}
    BY DEF Stream!Removals, Stream!Grants, LeftGrant, e
  <2>2. /\ e.operation # "permission_granted" => DOMAIN h = DOMAIN g \ {key} /\ \A k \in DOMAIN h : h[k] = g[k]
        /\ e.operation = "permission_granted" => /\ DOMAIN h = DOMAIN g \cup {key} /\ h[key] = e.payload
                                                 /\ \A k \in DOMAIN g : k # key => h[k] = g[k]
    BY <1>5, <2>1 DEF Stream!removed, Stream!upsert_snapshot
  <2> HIDE DEF g, h
  <2>3. ASSUME NEW k \in DOMAIN h
        PROVE  /\ h[k].installation_id \in Objects /\ h[k].permission_key \in Permissions
               /\ k = KeyOf(h[k].installation_id, h[k].permission_key)
               /\ h[k].status \in Statuses
    <3>1. CASE k = key /\ e.operation = "permission_granted"
      BY <1>1, <1>4, <2>2, <3>1
    <3>2. CASE ~(k = key /\ e.operation = "permission_granted")
      <4>1. k \in DOMAIN g /\ h[k] = g[k]
        BY <2>2, <2>3, <3>2
      <4> QED BY <4>1 DEF GrantsAgree, g
    <3> QED BY <3>1, <3>2
  <2>4. ASSUME NEW x \in Objects, NEW y \in Permissions
        PROVE  LeftGrant(s, Latest(AboutGrant(s, n + 1, KeyOf(x, y), x))) =
                 IF KeyOf(x, y) \in DOMAIN h THEN {h[KeyOf(x, y)]} ELSE {}
    <3>1. LeftGrant(s, Latest(AboutGrant(s, n, KeyOf(x, y), x))) =
            IF KeyOf(x, y) \in DOMAIN g THEN {g[KeyOf(x, y)]} ELSE {}
      BY DEF GrantsAgree, g
    <3>2. CASE KeyOf(x, y) = key
      <4>1. ConcernsGrant(s[n + 1], key, x)
        BY <1>1, <1>4 DEF ConcernsGrant, e
      <4>2. LeftGrant(s, Latest(AboutGrant(s, n + 1, key, x))) = LeftGrant(s, n + 1)
        BY <4>1, NextLeaves
      <4> HIDE DEF key
      <4> QED BY <2>1, <2>2, <3>2, <4>2
    <3>3. CASE KeyOf(x, y) # key
      <4>1. ~ConcernsGrant(s[n + 1], KeyOf(x, y), x)
        BY <1>1, <1>2, <1>4, <3>3 DEF ConcernsGrant, e
      <4>2. LeftGrant(s, Latest(AboutGrant(s, n + 1, KeyOf(x, y), x)))
               = LeftGrant(s, Latest(AboutGrant(s, n, KeyOf(x, y), x)))
        BY <4>1, NextLeaves
      <4> HIDE DEF key
      <4> QED BY <2>2, <3>1, <3>3, <4>2
    <3> QED BY <3>2, <3>3
  <2> QED BY <2>3, <2>4 DEF GrantsAgree
<1> QED BY <1>5, <1>6, <1>7 DEF new, e

\* Another snapshot changes one object of its family; an installation that goes takes its
\* grants along.
LEMMA ObjectStep ==
  ASSUME StreamAssumption, NEW s, NEW n \in Nat, NEW maps, DOMAIN maps = Stream!Families,
         MapsAgree(s, n, maps), GrantsAgree(s, n, maps[PluginPermissions]),
         EventOk(s[n + 1]), s[n + 1].object_type # "knowledge",
         s[n + 1].operation \in Stream!allowed(s[n + 1].object_type), s[n + 1].operation \notin Stream!Grants
  PROVE  LET new == Applied(maps, s[n + 1])
         IN /\ DOMAIN new = Stream!Families
            /\ MapsAgree(s, n + 1, new)
            /\ GrantsAgree(s, n + 1, new[PluginPermissions])
<1> DEFINE e == s[n + 1]
           o == e.object_id
           f == Stream!family(e)
           snap == Stream!apply_snapshot_operation(maps, e)
           new == Applied(maps, e)
           g == maps[PluginPermissions]
           h == new[PluginPermissions]
           leaves == e.object_type = "plugin" /\ e.operation \in {"uninstalled", "removed"}
<1>1. /\ f \in Stream!Families /\ f # PluginPermissions /\ PluginPermissions \in Stream!Families
      /\ o \in Objects /\ e.payload.status \in Statuses /\ Stream!key_in_map(e) = o
  BY FamilyOf DEF EventOk, Stream!key_in_map, Stream!Families, PluginPermissions
<1>2. /\ DOMAIN snap = Stream!Families
      /\ \A x \in Stream!Families : x # f => snap[x] = maps[x]
      /\ e.operation \in Stream!Removals => snap[f] = Stream!removed(maps[f], {o})
      /\ e.operation \notin Stream!Removals => snap[f] = Stream!upsert_snapshot(maps[f], o, e.payload)
  <2>1. /\ DOMAIN snap = Stream!Families
        /\ \A x \in Stream!Families : x # f => snap[x] = maps[x]
        /\ e.operation \in Stream!Removals => snap[f] = Stream!removed(maps[f], {Stream!key_in_map(e)})
        /\ e.operation \notin Stream!Removals =>
             snap[f] = Stream!upsert_snapshot(maps[f], Stream!key_in_map(e), e.payload)
    BY <1>1, SnapshotMaps
  <2> HIDE DEF snap, f, o, e
  <2> QED BY <1>1, <2>1
<1>3. /\ DOMAIN new = Stream!Families
      /\ \A x \in Stream!Families : x # PluginPermissions => new[x] = snap[x]
      /\ h = IF leaves THEN Stream!removed(g, Stream!granted_to(g, o)) ELSE g
  <2>1. snap[PluginPermissions] = g
    <3> HIDE DEF snap, f
    <3> QED BY <1>1, <1>2
  <2>2. CASE leaves
    <3>1. new = [snap EXCEPT ![PluginPermissions] =
                   Stream!removed(snap[PluginPermissions], Stream!granted_to(snap[PluginPermissions], o))]
      BY <2>2, Zenon DEF Applied, Stream!apply_plugin_event, PluginPermissions
    <3> HIDE DEF snap, new, f, o, g
    <3> QED BY <1>1, <1>2, <2>1, <2>2, <3>1
  <2>3. CASE ~leaves
    <3>1. new = snap
      BY <2>3 DEF Applied, Stream!apply_plugin_event
    <3> HIDE DEF snap, new, f, o, g
    <3> QED BY <1>2, <2>1, <2>3, <3>1
  <2> QED BY <2>2, <2>3
<1> HIDE DEF snap, new, e, f
<1>4. /\ e.operation \in Stream!Removals =>
           DOMAIN new[f] = DOMAIN maps[f] \ {o} /\ \A x \in DOMAIN new[f] : new[f][x] = maps[f][x]
      /\ e.operation \notin Stream!Removals =>
           /\ DOMAIN new[f] = DOMAIN maps[f] \cup {o} /\ new[f][o] = e.payload
           /\ \A x \in DOMAIN maps[f] : x # o => new[f][x] = maps[f][x]
  <2> HIDE DEF o
  <2> QED BY <1>1, <1>2, <1>3 DEF Stream!removed, Stream!upsert_snapshot
<1>5. MapsAgree(s, n + 1, new)
  <2>1. ASSUME NEW x \in Stream!Families \ {PluginPermissions}, x # f
        PROVE  new[x] = maps[x] /\ \A y : Left(s, Latest(About(s, n + 1, x, y))) = Left(s, Latest(About(s, n, x, y)))
    <3>1. \A y : ~Concerns(s[n + 1], x, y)
      BY <2>1 DEF Concerns, e, f
    <3> QED BY <1>2, <1>3, <2>1, <3>1, NextLeaves
  <2>2. Left(s, n + 1) = IF e.operation \in Stream!Removals THEN {} ELSE {e.payload}
    BY DEF Left, e
  <2>3. Left(s, Latest(About(s, n + 1, f, o))) = Left(s, n + 1)
    <3>1. Concerns(s[n + 1], f, o)
      BY DEF Concerns, e, f
    <3> HIDE DEF o
    <3> QED BY <3>1, NextLeaves
  <2>4. ASSUME NEW y \in Objects, y # o
        PROVE  Left(s, Latest(About(s, n + 1, f, y))) = Left(s, Latest(About(s, n, f, y)))
    <3>1. ~Concerns(s[n + 1], f, y)
      BY <2>4 DEF Concerns, e
    <3> QED BY <3>1, NextLeaves
  <2>5. /\ DOMAIN maps[f] \subseteq Objects
        /\ \A y \in DOMAIN maps[f] : maps[f][y].status \in Statuses
        /\ \A y \in Objects : Left(s, Latest(About(s, n, f, y))) = IF y \in DOMAIN maps[f] THEN {maps[f][y]} ELSE {}
    BY <1>1 DEF MapsAgree
  <2> HIDE DEF o
  <2>6. /\ DOMAIN new[f] \subseteq Objects
        /\ \A y \in DOMAIN new[f] : new[f][y].status \in Statuses
    BY <1>1, <1>4, <2>5
  <2>7. ASSUME NEW y \in Objects
        PROVE  Left(s, Latest(About(s, n + 1, f, y))) = IF y \in DOMAIN new[f] THEN {new[f][y]} ELSE {}
    <3>1. CASE y = o
      BY <1>4, <2>2, <2>3, <3>1
    <3>2. CASE y # o
      <4>1. y \in DOMAIN new[f] <=> y \in DOMAIN maps[f]
        BY <1>4, <3>2
      <4>2. y \in DOMAIN maps[f] => new[f][y] = maps[f][y]
        BY <1>4, <3>2
      <4> QED BY <2>4, <2>5, <3>2, <4>1, <4>2
    <3> QED BY <3>1, <3>2
  <2>8. ASSUME NEW x \in Stream!Families \ {PluginPermissions}
        PROVE  /\ DOMAIN new[x] \subseteq Objects
               /\ \A y \in DOMAIN new[x] : new[x][y].status \in Statuses
               /\ \A y \in Objects : Left(s, Latest(About(s, n + 1, x, y))) =
                                       IF y \in DOMAIN new[x] THEN {new[x][y]} ELSE {}
    <3>1. CASE x = f
      BY <2>6, <2>7, <3>1
    <3>2. CASE x # f
      BY <2>1, <3>2 DEF MapsAgree
    <3> QED BY <3>1, <3>2
  <2> QED BY <2>8 DEF MapsAgree
<1>6. GrantsAgree(s, n + 1, h)
  <2>1. ASSUME NEW x \in Objects, NEW y \in Permissions
        PROVE  /\ KeyOf(x, y)[1] \in {0, x}
               /\ x # 0
    BY DEF KeyOf, StreamAssumption
  <2>2. \A k \in DOMAIN g : /\ g[k].installation_id \in Objects /\ g[k].permission_key \in Permissions
                            /\ k = KeyOf(g[k].installation_id, g[k].permission_key)
                            /\ g[k].status \in Statuses
    BY DEF GrantsAgree
  <2>3. ASSUME NEW k \in DOMAIN g PROVE k \in Stream!granted_to(g, o) <=> g[k].installation_id = o
    <3>1. k[1] = o => g[k].installation_id = o
      <4>1. k[1] \in {0, g[k].installation_id} /\ o # 0
        BY <1>1, <2>1, <2>2 DEF StreamAssumption
      <4> QED BY <4>1
    <3> HIDE DEF g, o
    <3> QED BY <3>1 DEF Stream!granted_to
  <2>4. /\ leaves => DOMAIN h = {k \in DOMAIN g : g[k].installation_id # o}
        /\ ~leaves => DOMAIN h = DOMAIN g
        /\ \A k \in DOMAIN h : h[k] = g[k]
    <3> HIDE DEF g, h, o, leaves
    <3>1. CASE leaves
      <4>1. h = Stream!removed(g, Stream!granted_to(g, o))
        BY <1>3, <3>1
      <4>2. Stream!granted_to(g, o) \subseteq DOMAIN g
        BY DEF Stream!granted_to
      <4> QED BY <2>3, <3>1, <4>1, <4>2 DEF Stream!removed
    <3>2. CASE ~leaves
      BY <1>3, <3>2
    <3> QED BY <3>1, <3>2
  <2>5. ASSUME NEW x \in Objects, NEW y \in Permissions
        PROVE  LeftGrant(s, Latest(AboutGrant(s, n + 1, KeyOf(x, y), x))) =
                 IF KeyOf(x, y) \in DOMAIN h THEN {h[KeyOf(x, y)]} ELSE {}
    <3>1. LeftGrant(s, Latest(AboutGrant(s, n, KeyOf(x, y), x))) =
            IF KeyOf(x, y) \in DOMAIN g THEN {g[KeyOf(x, y)]} ELSE {}
      BY DEF GrantsAgree
    <3>2. ConcernsGrant(s[n + 1], KeyOf(x, y), x) <=> leaves /\ x = o
      BY DEF ConcernsGrant, e
    <3>3. KeyOf(x, y) \in DOMAIN g => g[KeyOf(x, y)].installation_id = x
      <4> SUFFICES ASSUME KeyOf(x, y) \in DOMAIN g PROVE g[KeyOf(x, y)].installation_id = x
        OBVIOUS
      <4> DEFINE z == g[KeyOf(x, y)]
      <4>1. z.installation_id \in Objects /\ KeyOf(x, y) = KeyOf(z.installation_id, z.permission_key) /\ 0 \notin Objects
        BY <2>2 DEF StreamAssumption
      <4> HIDE DEF z
      <4>2. z.installation_id = x
        BY <4>1 DEF KeyOf
      <4> QED BY <4>2 DEF z
    <3> HIDE DEF g, h, o, leaves
    <3>4. CASE leaves /\ x = o
      <4>1. LeftGrant(s, Latest(AboutGrant(s, n + 1, KeyOf(x, y), x))) = LeftGrant(s, n + 1)
        BY <3>2, <3>4, NextLeaves
      <4>2. LeftGrant(s, n + 1) = {}
        BY <3>4 DEF LeftGrant, leaves, e
      <4>3. KeyOf(x, y) \notin DOMAIN h
        BY <2>4, <3>3, <3>4
      <4> QED BY <4>1, <4>2, <4>3
    <3>5. CASE ~(leaves /\ x = o)
      <4>1. LeftGrant(s, Latest(AboutGrant(s, n + 1, KeyOf(x, y), x)))
               = LeftGrant(s, Latest(AboutGrant(s, n, KeyOf(x, y), x)))
        BY <3>2, <3>5, NextLeaves
      <4>2. KeyOf(x, y) \in DOMAIN h <=> KeyOf(x, y) \in DOMAIN g
        BY <2>4, <3>3, <3>5
      <4>3. KeyOf(x, y) \in DOMAIN h => h[KeyOf(x, y)] = g[KeyOf(x, y)]
        BY <2>4
      <4> QED BY <3>1, <4>1, <4>2, <4>3
    <3> QED BY <3>4, <3>5
  <2> HIDE DEF g, h
  <2>6. \A k \in DOMAIN h : k \in DOMAIN g /\ h[k] = g[k]
    BY <2>4
  <2> QED BY <2>2, <2>5, <2>6 DEF GrantsAgree
<1> QED BY <1>3, <1>5, <1>6 DEF new, e

\* A projection whose cursor and knowledge, or whose cursor and maps, are replaced.
WithKnowledge(p, c, x) == [p EXCEPT !.cursor = c, !.knowledge = x]
WithMaps(p, c, x) == [p EXCEPT !.cursor = c, !.maps = x]
IsProjection(p, c, k, m) == p = [cursor |-> c, knowledge |-> k, maps |-> m]

\* They are projections.
LEMMA ProjectionChanged ==
  ASSUME NEW c, NEW k, NEW m, NEW p, IsProjection(p, c, k, m), NEW c2, NEW x
  PROVE  /\ IsProjection(WithKnowledge(p, c2, x), c2, x, m)
         /\ IsProjection(WithMaps(p, c2, x), c2, k, x)
<1> DEFINE q == [p EXCEPT !.cursor = c2, !.knowledge = x]
           r == [p EXCEPT !.cursor = c2, !.maps = x]
<1>1. q \in [cursor : {c2}, knowledge : {x}, maps : {m}]
  BY DEF IsProjection
<1>2. r \in [cursor : {c2}, knowledge : {k}, maps : {x}]
  BY DEF IsProjection
<1> HIDE DEF q, r
<1>3. q = [cursor |-> c2, knowledge |-> x, maps |-> m]
  BY <1>1
<1>4. r = [cursor |-> c2, knowledge |-> k, maps |-> x]
  BY <1>2
<1>5. q = WithKnowledge(p, c2, x) /\ r = WithMaps(p, c2, x)
  BY Zenon DEF q, r, WithKnowledge, WithMaps
<1> QED BY <1>3, <1>4, <1>5 DEF IsProjection

\* The next event of the stream brings the projection to where the stream is, or is refused; the
\* knowledge projection alone takes an event of knowledge alike.
LEMMA EventStep ==
  ASSUME StreamAssumption, NEW s, Len(s) \in Nat, StreamOk(s), NEW p, Agrees(s, p), p.cursor < Len(s)
  PROVE  LET e == s[p.cursor + 1]
             r == Stream!apply_event(p, e)
             k == Stream!apply_knowledge_event(p.knowledge, e)
         IN /\ r.ok \in BOOLEAN
            /\ r.ok => Agrees(s, r.p) /\ r.p.cursor = p.cursor + 1
            /\ e.object_type = "knowledge" => k.ok = r.ok /\ (r.ok => k.p = r.p.knowledge)
<1> DEFINE n == p.cursor
           e == s[n + 1]
           r == Stream!apply_event(p, e)
           k == Stream!apply_knowledge_event(p.knowledge, e)
           maps == Applied(p.maps, e)
<1>1. /\ n \in Nat /\ n + 1 \in 1 .. Len(s) /\ n < n + 1 /\ e.sequence = n + 1 /\ EventOk(e)
      /\ \A i \in 1 .. (n + 1) : s[i].sequence = i /\ EventOk(s[i])
  BY DEF Agrees, StreamOk
<1>2. /\ p = [cursor |-> n, knowledge |-> p.knowledge, maps |-> p.maps]
      /\ DOMAIN p.maps = Stream!Families
      /\ Passed(s, n) /\ KnowledgeAgrees(s, n, p.knowledge)
      /\ MapsAgree(s, n, p.maps) /\ GrantsAgree(s, n, p.maps[PluginPermissions])
  BY DEF Agrees
<1>3. Stream!should_apply(n, e)
  BY <1>1 DEF Stream!should_apply
<1>4. \A i \in 1 .. (n + 1) : i = n + 1 \/ i \in 1 .. n
  BY <1>1
<1>5. n + 1 \in 0 .. Len(s)
  BY <1>1
<1>6. CASE ~Stream!ensure_supported(e)
  <2>1. r = [ok |-> FALSE, p |-> p]
    BY <1>3, <1>6 DEF Stream!apply_event, Stream!Refused
  <2>2. e.object_type = "knowledge" => k = [ok |-> FALSE, p |-> p.knowledge]
    <3>1. p.knowledge.cursor < e.sequence
      BY <1>1, <1>2 DEF KnowledgeAgrees
    <3> HIDE DEF e
    <3> QED BY <1>6, <3>1 DEF Stream!apply_knowledge_event, Stream!Refused, Stream!should_apply
  <2> HIDE DEF r, k, e, n
  <2>3. r.ok = FALSE /\ (e.object_type = "knowledge" => k.ok = FALSE)
    BY <2>1, <2>2
  <2> QED BY <2>3 DEF r, k, e, n
<1>7. CASE Stream!ensure_supported(e) /\ e.object_type = "knowledge"
  <2>1. /\ k.ok => /\ KnowledgeAgrees(s, n + 1, k.p) /\ e.schema_version = 1
                   /\ e.operation = "deleted" => e.payload.status = "deleted"
        /\ k.ok \in BOOLEAN /\ (~k.ok => k.p = p.knowledge)
    BY <1>1, <1>2, <1>7, KnowledgeStep
  <2> DEFINE q == [p EXCEPT !.cursor = n + 1, !.knowledge = k.p]
  <2>2. r = IF k.ok THEN [ok |-> TRUE, p |-> q] ELSE [ok |-> FALSE, p |-> p]
    <3> HIDE DEF k, e
    <3>1. r = IF k.ok THEN [ok |-> TRUE, p |-> [p EXCEPT !.cursor = e.sequence, !.knowledge = k.p]]
              ELSE [ok |-> FALSE, p |-> p]
      BY <1>3, <1>7, Zenon DEF Stream!apply_event, Stream!Refused, Stream!Accepted, k, n
    <3> QED BY <1>1, <3>1
  <2> HIDE DEF k
  <2>3. /\ q = [cursor |-> q.cursor, knowledge |-> q.knowledge, maps |-> q.maps]
        /\ q.cursor = n + 1 /\ q.knowledge = k.p /\ q.maps = p.maps
    <3>1. IsProjection(p, n, p.knowledge, p.maps)
      BY <1>2 DEF IsProjection
    <3>2. IsProjection(WithKnowledge(p, n + 1, k.p), n + 1, k.p, p.maps)
      BY <3>1, ProjectionChanged
    <3>3. q = WithKnowledge(p, n + 1, k.p)
      BY Zenon DEF WithKnowledge
    <3> HIDE DEF q
    <3>4. q = [cursor |-> n + 1, knowledge |-> k.p, maps |-> p.maps]
      BY <3>2, <3>3 DEF IsProjection
    <3> QED BY <3>4
  <2> HIDE DEF q, r
  <2>4. CASE k.ok
    <3>1. r.ok = TRUE /\ r.p = q
      BY <2>2, <2>4
    <3>2. Passed(s, n + 1)
      BY <1>2, <1>4, <1>7, <2>1, <2>4 DEF Passed
    <3>3. MapsAgree(s, n + 1, p.maps)
      <4>1. \A f, o : ~Concerns(s[n + 1], f, o)
        BY <1>7 DEF Concerns
      <4>2. \A f, o : Left(s, Latest(About(s, n + 1, f, o))) = Left(s, Latest(About(s, n, f, o)))
        BY <1>1, <4>1, NextLeaves
      <4> QED BY <1>2, <4>2 DEF MapsAgree
    <3>4. GrantsAgree(s, n + 1, p.maps[PluginPermissions])
      <4>1. \A x, o : ~ConcernsGrant(s[n + 1], x, o)
        BY <1>7 DEF ConcernsGrant
      <4>2. \A x, o : LeftGrant(s, Latest(AboutGrant(s, n + 1, x, o))) = LeftGrant(s, Latest(AboutGrant(s, n, x, o)))
        BY <1>1, <4>1, NextLeaves
      <4> QED BY <1>2, <4>2 DEF GrantsAgree
    <3>5. Agrees(s, q)
      BY <1>2, <1>5, <2>1, <2>3, <2>4, <3>2, <3>3, <3>4 DEF Agrees
    <3> QED BY <2>3, <2>4, <3>1, <3>5 DEF r, k, e, n
  <2>5. CASE ~k.ok
    <3>1. r.ok = FALSE /\ k.ok = FALSE
      BY <2>1, <2>2, <2>5
    <3> QED BY <3>1 DEF r, k, e, n
  <2> QED BY <2>4, <2>5
<1>8. CASE Stream!ensure_supported(e) /\ e.object_type # "knowledge" /\ e.operation \notin Stream!allowed(e.object_type)
  <2>1. r = [ok |-> FALSE, p |-> p]
    BY <1>3, <1>8 DEF Stream!apply_event, Stream!Refused
  <2> HIDE DEF r, k, e, n
  <2>2. r.ok = FALSE /\ e.object_type # "knowledge"
    BY <1>8, <2>1
  <2> QED BY <2>2 DEF r, k, e, n
<1>9. CASE Stream!ensure_supported(e) /\ e.object_type # "knowledge" /\ e.operation \in Stream!allowed(e.object_type)
  <2> DEFINE q == [p EXCEPT !.cursor = n + 1, !.maps = maps]
  <2>1. r = [ok |-> TRUE, p |-> q]
    <3>1. r = [ok |-> TRUE, p |-> [p EXCEPT !.cursor = e.sequence,
                                     !.maps = IF e.object_type = "plugin" THEN Stream!apply_plugin_event(@, e)
                                              ELSE Stream!apply_snapshot_operation(@, e)]]
      BY <1>3, <1>9, Zenon DEF Stream!apply_event, Stream!Accepted, n
    <3> HIDE DEF e, n, r
    <3>2. [p EXCEPT !.cursor = e.sequence,
                    !.maps = IF e.object_type = "plugin" THEN Stream!apply_plugin_event(@, e)
                             ELSE Stream!apply_snapshot_operation(@, e)] = q
      BY <1>1, <1>2 DEF Applied
    <3> QED BY <3>1, <3>2
  <2>2. /\ DOMAIN maps = Stream!Families /\ MapsAgree(s, n + 1, maps) /\ GrantsAgree(s, n + 1, maps[PluginPermissions])
    <3>1. CASE e.operation \in Stream!Grants
      BY <1>1, <1>2, <1>9, <3>1, GrantStep
    <3>2. CASE e.operation \notin Stream!Grants
      BY <1>1, <1>2, <1>9, <3>2, ObjectStep
    <3> QED BY <3>1, <3>2
  <2> HIDE DEF maps, k
  <2>3. /\ q = [cursor |-> q.cursor, knowledge |-> q.knowledge, maps |-> q.maps]
        /\ q.cursor = n + 1 /\ q.knowledge = p.knowledge /\ q.maps = maps
    <3>1. IsProjection(p, n, p.knowledge, p.maps)
      BY <1>2 DEF IsProjection
    <3>2. IsProjection(WithMaps(p, n + 1, maps), n + 1, p.knowledge, maps)
      BY <3>1, ProjectionChanged
    <3>3. q = WithMaps(p, n + 1, maps)
      BY Zenon DEF WithMaps
    <3> HIDE DEF q
    <3>4. q = [cursor |-> n + 1, knowledge |-> p.knowledge, maps |-> maps]
      BY <3>2, <3>3 DEF IsProjection
    <3> QED BY <3>4
  <2> HIDE DEF q, r
  <2>4. Passed(s, n + 1)
    BY <1>2, <1>4, <1>9 DEF Passed, Stream!ensure_supported
  <2>5. KnowledgeAgrees(s, n + 1, p.knowledge)
    BY <1>1, <1>2, <1>9, KnowledgeStays
  <2>6. Agrees(s, q)
    BY <1>5, <2>2, <2>3, <2>4, <2>5 DEF Agrees
  <2>7. r.ok = TRUE /\ r.p = q
    BY <2>1
  <2> QED BY <1>9, <2>3, <2>6, <2>7 DEF r, k, e, n
<1> QED BY <1>6, <1>7, <1>8, <1>9

\* An event that was applied before changes nothing.
LEMMA EventAgain ==
  ASSUME NEW s, StreamOk(s), NEW p, Agrees(s, p), NEW i \in 1 .. Len(s), i <= p.cursor
  PROVE  /\ Stream!apply_event(p, s[i]) = [ok |-> TRUE, p |-> p]
         /\ s[i].object_type = "knowledge" =>
              Stream!apply_knowledge_event(p.knowledge, s[i]) = [ok |-> TRUE, p |-> p.knowledge]
<1>1. s[i].sequence = i /\ p.cursor \in Int /\ i \in 1 .. p.cursor
  BY DEF StreamOk, Agrees
<1>2. ~Stream!should_apply(p.cursor, s[i])
  BY <1>1 DEF Stream!should_apply
<1>3. s[i].object_type = "knowledge" => ~Stream!should_apply(p.knowledge.cursor, s[i])
  BY <1>1 DEF Stream!should_apply, Agrees, KnowledgeAgrees
<1> QED BY <1>2, <1>3 DEF Stream!apply_event, Stream!apply_knowledge_event, Stream!Accepted

\* Events after the cursor do not matter to a projection.
LEMMA AgreesLater ==
  ASSUME NEW s, NEW t, NEW p, Agrees(s, p), Len(s) \in Nat, Len(t) \in Nat, Len(s) <= Len(t),
         \A i \in 1 .. Len(s) : t[i] = s[i]
  PROVE  Agrees(t, p)
<1> DEFINE n == p.cursor
<1>1. n \in 0 .. Len(s) /\ n \in 0 .. Len(t) /\ \A i \in 1 .. n : t[i] = s[i]
  BY DEF Agrees
<1> HIDE DEF n
<1>2. /\ \A f, o : About(t, n, f, o) = About(s, n, f, o)
      /\ \A k, o : AboutGrant(t, n, k, o) = AboutGrant(s, n, k, o)
      /\ \A o : AboutEntry(t, n, o) = AboutEntry(s, n, o)
  BY <1>1 DEF About, AboutGrant, AboutEntry
<1>3. /\ \A f, o : Latest(About(s, n, f, o)) \in 0 .. n
      /\ \A k, o : Latest(AboutGrant(s, n, k, o)) \in 0 .. n
  <2>1. /\ \A f, o : About(s, n, f, o) \in SUBSET (1 .. n)
        /\ \A k, o : AboutGrant(s, n, k, o) \in SUBSET (1 .. n)
    BY DEF About, AboutGrant
  <2>2. n \in Nat
    BY <1>1
  <2> QED BY <2>1, <2>2, LatestIn
<1>4. /\ \A f, o : Left(t, Latest(About(t, n, f, o))) = Left(s, Latest(About(s, n, f, o)))
      /\ \A k, o : LeftGrant(t, Latest(AboutGrant(t, n, k, o))) = LeftGrant(s, Latest(AboutGrant(s, n, k, o)))
  <2>1. \A i \in 0 .. n : Left(t, i) = Left(s, i) /\ LeftGrant(t, i) = LeftGrant(s, i)
    <3> TAKE i \in 0 .. n
    <3>1. i = 0 \/ (i \in 1 .. n /\ t[i] = s[i])
      BY <1>1
    <3> QED BY <3>1 DEF Left, LeftGrant
  <2> QED BY <1>2, <1>3, <2>1
<1>5. Passed(t, n)
  BY <1>1 DEF Agrees, Passed, n
<1>6. KnowledgeAgrees(t, n, p.knowledge)
  <2>1. KnowledgeAgrees(s, n, p.knowledge)
    BY DEF Agrees, n
  <2>2. \A o : AboutEntry(s, n, o) \in SUBSET (1 .. n)
    BY DEF AboutEntry
  <2>3. \A o, x : NewestIn(s, n, o, x) => NewestIn(t, n, o, x)
    BY <1>1, <1>2, <2>2 DEF NewestIn
  <2> QED BY <1>1, <2>1, <2>3 DEF KnowledgeAgrees
<1>7. MapsAgree(t, n, p.maps) /\ GrantsAgree(t, n, p.maps[PluginPermissions])
  <2>1. MapsAgree(s, n, p.maps) /\ GrantsAgree(s, n, p.maps[PluginPermissions])
    BY DEF Agrees, n
  <2> QED BY <1>4, <2>1 DEF MapsAgree, GrantsAgree
<1> QED BY <1>1, <1>5, <1>6, <1>7 DEF Agrees, n

\* One event of a page, for the whole projection or for the knowledge projection alone; the
\* projections it goes through.
Begun(p) == [ok |-> TRUE, p |-> p]
Takes(part, acc, e) == IF part = "all" THEN Stream!then_apply(acc, e) ELSE Stream!then_apply_knowledge(acc, e)
Leads(g, part, p, sent, n) ==
  g = [i \in 0 .. n |-> IF i = 0 THEN Begun(p) ELSE Takes(part, g[i - 1], sent[i])]
through(part, p, sent) == CHOOSE g : Leads(g, part, p, sent, Len(sent))

\* One event more.
LEMMA ThroughExtends ==
  ASSUME NEW part, NEW p, NEW sent, NEW n \in Nat, NEW f, Leads(f, part, p, sent, n)
  PROVE  \E g : Leads(g, part, p, sent, n + 1)
<1> DEFINE g == [i \in 0 .. (n + 1) |-> IF i <= n THEN f[i] ELSE Takes(part, f[n], sent[n + 1])]
<1>1. \A i \in 0 .. n : f[i] = IF i = 0 THEN Begun(p) ELSE Takes(part, f[i - 1], sent[i])
  BY DEF Leads
<1>2. ASSUME NEW i \in 0 .. (n + 1)
      PROVE  g[i] = IF i = 0 THEN Begun(p) ELSE Takes(part, g[i - 1], sent[i])
  <2>1. CASE i = 0
    <3>1. 0 \in 0 .. n /\ g[0] = f[0]
      OBVIOUS
    <3>2. f[0] = Begun(p)
      BY <1>1, <3>1
    <3> HIDE DEF g
    <3> QED BY <2>1, <3>1, <3>2
  <2>2. CASE i # 0 /\ i <= n
    <3>1. i \in 0 .. n /\ i - 1 \in 0 .. (n + 1) /\ i - 1 <= n
      BY <2>2
    <3>2. g[i] = f[i] /\ g[i - 1] = f[i - 1]
      BY <3>1
    <3> QED BY <1>1, <2>2, <3>1, <3>2
  <2>3. CASE i = n + 1
    <3>1. g[i] = Takes(part, f[n], sent[n + 1])
      BY <2>3
    <3>2. g[n] = f[n]
      OBVIOUS
    <3>3. i - 1 = n /\ i # 0
      BY <2>3
    <3> HIDE DEF g
    <3> QED BY <2>3, <3>1, <3>2, <3>3
  <2> QED BY <2>1, <2>2, <2>3
<1>3. g = [i \in 0 .. (n + 1) |-> g[i]]
  OBVIOUS
<1> HIDE DEF g
<1>4. Leads(g, part, p, sent, n + 1)
  BY <1>2, <1>3 DEF Leads
<1> QED BY <1>4

\* Any number of events can be taken: there is no least number that cannot.
LEMMA ThroughExists == ASSUME NEW part, NEW p, NEW sent, NEW n \in Nat PROVE \E f : Leads(f, part, p, sent, n)
<1> DEFINE Bad == {k \in Nat : ~\E f : Leads(f, part, p, sent, k)}
<1>1. ASSUME NEW k \in Bad, \A j \in Bad : ~(j < k) PROVE FALSE
  <2>1. CASE k = 0
    <3>1. Leads([i \in 0 .. 0 |-> Begun(p)], part, p, sent, 0)
      BY DEF Leads
    <3> QED BY <2>1, <3>1
  <2>2. CASE k # 0
    <3>1. k - 1 \in Nat /\ k - 1 < k /\ (k - 1) + 1 = k
      BY <2>2
    <3>2. k - 1 \notin Bad
      BY <1>1, <3>1
    <3>3. PICK f : Leads(f, part, p, sent, k - 1)
      BY <3>1, <3>2
    <3>4. \E g : Leads(g, part, p, sent, (k - 1) + 1)
      BY <3>1, <3>3, ThroughExtends
    <3> QED BY <3>1, <3>4
  <2> QED BY <2>1, <2>2
<1>2. Bad \in SUBSET Nat
  OBVIOUS
<1>3. Bad = {}
  <2> HIDE DEF Bad
  <2> QED BY <1>1, <1>2, LeastNatural
<1> QED BY <1>3

\* The projections a page takes one through, and where it ends.
LEMMA ThroughSteps ==
  ASSUME NEW part, NEW p, NEW sent, Len(sent) \in Nat
  PROVE  LET f == through(part, p, sent)
         IN /\ f[0] = Begun(p)
            /\ \A i \in 1 .. Len(sent) : f[i] = Takes(part, f[i - 1], sent[i])
<1> DEFINE f == through(part, p, sent)
<1>1. Leads(f, part, p, sent, Len(sent))
  BY ThroughExists DEF through
<1> HIDE DEF f
<1>2. \A i \in 0 .. Len(sent) : f[i] = IF i = 0 THEN Begun(p) ELSE Takes(part, f[i - 1], sent[i])
  BY <1>1 DEF Leads
<1>3. 0 \in 0 .. Len(sent) /\ \A i \in 1 .. Len(sent) : i \in 0 .. Len(sent) /\ i # 0
  OBVIOUS
<1>4. f[0] = Begun(p)
  BY <1>2, <1>3
<1>5. \A i \in 1 .. Len(sent) : f[i] = Takes(part, f[i - 1], sent[i])
  BY <1>2, <1>3
<1> QED BY <1>4, <1>5 DEF f

\* The model's names for it.
LEMMA ThroughNames ==
  /\ \A p, sent : Stream!apply_events(p, sent) = through("all", p, sent)[Len(sent)]
  /\ \A k, sent : Stream!apply_knowledge_sync_events(k, sent) = through("knowledge", k, sent)[Len(sent)]
<1>1. ASSUME NEW p, NEW sent PROVE Stream!apply_events(p, sent) = through("all", p, sent)[Len(sent)]
  BY Zenon DEF Stream!apply_events, through, Leads, Takes, Begun, Stream!Accepted
<1>2. ASSUME NEW k, NEW sent
      PROVE  Stream!apply_knowledge_sync_events(k, sent) = through("knowledge", k, sent)[Len(sent)]
  BY Zenon DEF Stream!apply_knowledge_sync_events, through, Leads, Takes, Begun, Stream!Accepted
<1> QED BY <1>1, <1>2

\* What an answer to a host whose cursor was a has come to with i of its events.
Reached(s, c, a, i, r) ==
  r.ok \in BOOLEAN /\ (r.ok => Agrees(s, r.p) /\ c <= r.p.cursor /\ a + i <= r.p.cursor)

\* The knowledge projection alone comes to the same.
Alike(r, k) == k.ok = r.ok /\ (r.ok => k.p = r.p.knowledge)

\* The next event of a page was applied before, is the next one of the stream or is refused.
LEMMA TakesStep ==
  ASSUME StreamAssumption, NEW s, Len(s) \in Nat, StreamOk(s), NEW c \in Nat, NEW a \in Nat, NEW i \in Nat,
         a + i + 1 <= Len(s), NEW r, Reached(s, c, a, i, r)
  PROVE  /\ Reached(s, c, a, i + 1, Takes("all", r, s[a + i + 1]))
         /\ \A k : Alike(r, k) /\ s[a + i + 1].object_type = "knowledge" =>
                     Alike(Takes("all", r, s[a + i + 1]), Takes("knowledge", k, s[a + i + 1]))
<1> DEFINE n == a + i + 1
           e == s[n]
           q == Takes("all", r, e)
<1>1. n \in 1 .. Len(s) /\ n = a + (i + 1) /\ a + i + 1 = n
  OBVIOUS
<1>2. CASE ~r.ok
  <2>1. q = r
    BY <1>2 DEF Takes, Stream!then_apply
  <2>2. \A k : Alike(r, k) => Takes("knowledge", k, e) = k
    BY <1>2 DEF Takes, Stream!then_apply_knowledge, Alike
  <2> HIDE DEF q
  <2>3. Reached(s, c, a, i + 1, q)
    BY <1>2, <2>1 DEF Reached
  <2> HIDE DEF n
  <2> QED BY <1>1, <2>1, <2>2, <2>3 DEF q, e, n
<1>3. CASE r.ok
  <2>1. Agrees(s, r.p) /\ c <= r.p.cursor /\ a + i <= r.p.cursor /\ r.p.cursor \in 0 .. Len(s)
    BY <1>3 DEF Reached, Agrees
  <2>2. q = Stream!apply_event(r.p, e)
    BY <1>3 DEF Takes, Stream!then_apply
  <2>3. \A k : Alike(r, k) => Takes("knowledge", k, e) = Stream!apply_knowledge_event(r.p.knowledge, e)
    BY <1>3 DEF Takes, Stream!then_apply_knowledge, Alike
  <2> DEFINE k1 == Stream!apply_knowledge_event(r.p.knowledge, e)
  <2> HIDE DEF q, n, k1
  <2>4. /\ q.ok \in BOOLEAN
        /\ q.ok => Agrees(s, q.p) /\ r.p.cursor <= q.p.cursor /\ n <= q.p.cursor /\ q.p.cursor \in Int
        /\ e.object_type = "knowledge" => Alike(q, k1)
    <3>1. CASE n <= r.p.cursor
      <4>1. q = [ok |-> TRUE, p |-> r.p] /\ (e.object_type = "knowledge" => k1 = [ok |-> TRUE, p |-> r.p.knowledge])
        BY <1>1, <2>1, <2>2, <3>1, EventAgain DEF k1
      <4>2. q.ok = TRUE /\ q.p = r.p
        BY <4>1
      <4>3. e.object_type = "knowledge" => k1.ok = TRUE /\ k1.p = r.p.knowledge
        BY <4>1
      <4>4. r.p.cursor \in Int /\ r.p.cursor <= q.p.cursor /\ n <= q.p.cursor /\ q.p.cursor \in Int /\ Agrees(s, q.p)
        BY <2>1, <3>1, <4>2
      <4>5. e.object_type = "knowledge" => Alike(q, k1)
        BY <4>2, <4>3 DEF Alike
      <4> QED BY <4>2, <4>4, <4>5
    <3>2. CASE ~(n <= r.p.cursor)
      <4>1. n = r.p.cursor + 1 /\ r.p.cursor < Len(s)
        BY <1>1, <2>1, <3>2
      <4>2. /\ q.ok \in BOOLEAN
            /\ q.ok => Agrees(s, q.p) /\ q.p.cursor = r.p.cursor + 1
            /\ e.object_type = "knowledge" => k1.ok = q.ok /\ (q.ok => k1.p = q.p.knowledge)
        BY <2>1, <2>2, <4>1, EventStep DEF k1
      <4> QED BY <2>1, <4>1, <4>2 DEF Alike
    <3> QED BY <3>1, <3>2
  <2>5. q.ok => c <= q.p.cursor /\ n <= q.p.cursor
    BY <2>1, <2>4
  <2>6. Reached(s, c, a, i + 1, q)
    BY <1>1, <2>4, <2>5 DEF Reached
  <2>7. \A k : Alike(r, k) /\ e.object_type = "knowledge" => Alike(q, Takes("knowledge", k, e))
    BY <2>3, <2>4 DEF k1
  <2> QED BY <1>1, <2>6, <2>7 DEF q, e, n
<1> QED BY <1>2, <1>3

\* A page holds the events after a.
Segment(s, a, sent) ==
  /\ a \in Nat /\ Len(sent) \in Nat /\ a + Len(sent) <= Len(s)
  /\ DOMAIN sent = 1 .. Len(sent) /\ \A i \in 1 .. Len(sent) : sent[i] = s[a + i]

\* Wherever the answer to a pull began, the page leads to what the stream says, or is refused; and the
\* knowledge projection alone comes to the same if the events are all of knowledge.
LEMMA PageSound ==
  ASSUME StreamAssumption, NEW s, Len(s) \in Nat, StreamOk(s), NEW p, Agrees(s, p),
         NEW a, NEW sent, Segment(s, a, sent), a <= p.cursor
  PROVE  LET r == Stream!apply_events(p, sent)
             k == Stream!apply_knowledge_sync_events(p.knowledge, sent)
         IN /\ r.ok => Agrees(s, r.p) /\ p.cursor <= r.p.cursor
            /\ (\A i \in DOMAIN sent : sent[i].object_type = "knowledge") =>
                 k.ok = r.ok /\ (r.ok => k.p = r.p.knowledge)
<1> DEFINE m == Len(sent)
           f == through("all", p, sent)
           g == through("knowledge", p.knowledge, sent)
           knows == \A i \in DOMAIN sent : sent[i].object_type = "knowledge"
           Good(i) == Reached(s, p.cursor, a, i, f[i]) /\ (knows => Alike(f[i], g[i]))
           Bad == {i \in 0 .. m : ~Good(i)}
<1>1. /\ a \in Nat /\ m \in Nat /\ a + m <= Len(s) /\ DOMAIN sent = 1 .. m
      /\ \A i \in 1 .. m : sent[i] = s[a + i]
  BY DEF Segment
<1>2. p.cursor \in 0 .. Len(s)
  BY DEF Agrees
<1>3. /\ f[0] = Begun(p)
      /\ \A i \in 1 .. m : f[i] = Takes("all", f[i - 1], sent[i])
  <2>1. Len(sent) \in Nat
    BY <1>1
  <2> HIDE DEF Good, Bad, knows
  <2> QED BY <2>1, ThroughSteps
<1>4. /\ g[0] = Begun(p.knowledge)
      /\ \A i \in 1 .. m : g[i] = Takes("knowledge", g[i - 1], sent[i])
  <2>1. Len(sent) \in Nat
    BY <1>1
  <2> HIDE DEF Good, Bad, knows
  <2> QED BY <2>1, ThroughSteps
<1> HIDE DEF f, g, m
<1>5. Good(0)
  <2>1. f[0].ok = TRUE /\ f[0].p = p /\ g[0].ok = TRUE /\ g[0].p = p.knowledge
    BY <1>3, <1>4 DEF Begun
  <2>2. Reached(s, p.cursor, a, 0, f[0])
    <3>1. a + 0 <= p.cursor /\ p.cursor <= p.cursor
      BY <1>1, <1>2
    <3>2. Agrees(s, f[0].p) /\ f[0].p.cursor = p.cursor /\ f[0].ok = TRUE
      BY <2>1
    <3> QED BY <3>1, <3>2 DEF Reached
  <2>3. Alike(f[0], g[0])
    BY <2>1 DEF Alike
  <2> QED BY <2>2, <2>3
<1>6. ASSUME NEW i \in 0 .. m, i # 0, Good(i - 1) PROVE Good(i)
  <2>0. p.cursor \in Nat /\ a \in Nat /\ m \in Nat /\ a + m <= Len(s)
    BY <1>1, <1>2
  <2> HIDE DEF Good, knows
  <2>1. /\ i - 1 \in Nat /\ (i - 1) + 1 = i /\ i \in 1 .. m /\ a + (i - 1) + 1 = a + i
        /\ a + (i - 1) + 1 <= Len(s) /\ p.cursor \in Nat
    <3>1. i - 1 \in Nat /\ (i - 1) + 1 = i /\ i \in 1 .. m
      BY <1>6, <2>0
    <3>2. a + (i - 1) + 1 = a + i /\ a + i <= Len(s)
      BY <2>0, <3>1
    <3> QED BY <2>0, <3>1, <3>2
  <2> USE DEF Good, knows
  <2>2. Reached(s, p.cursor, a, i - 1, f[i - 1]) /\ (knows => Alike(f[i - 1], g[i - 1]))
    BY <1>6
  <2>3. sent[i] = s[a + i] /\ (knows => sent[i].object_type = "knowledge")
    BY <1>1, <2>1
  <2> HIDE DEF knows
  <2>4. /\ Reached(s, p.cursor, a, (i - 1) + 1, Takes("all", f[i - 1], s[a + (i - 1) + 1]))
        /\ \A k : Alike(f[i - 1], k) /\ s[a + (i - 1) + 1].object_type = "knowledge" =>
                    Alike(Takes("all", f[i - 1], s[a + (i - 1) + 1]), Takes("knowledge", k, s[a + (i - 1) + 1]))
    BY <1>1, <2>1, <2>2, TakesStep
  <2>5. f[i] = Takes("all", f[i - 1], s[a + i]) /\ g[i] = Takes("knowledge", g[i - 1], s[a + i])
    BY <1>3, <1>4, <2>1, <2>3
  <2> QED BY <2>1, <2>2, <2>3, <2>4, <2>5
<1> HIDE DEF Good
<1>7. Bad = {}
  <2>1. ASSUME NEW k \in Bad, \A j \in Bad : ~(j < k) PROVE FALSE
    <3>1. k \in 0 .. m /\ ~Good(k) /\ k # 0
      BY <1>5, <2>1
    <3>2. k - 1 \in 0 .. m /\ k - 1 < k
      BY <1>1, <3>1
    <3>3. Good(k - 1)
      BY <2>1, <3>2
    <3> QED BY <1>6, <3>1, <3>3
  <2>2. Bad \in SUBSET Nat
    OBVIOUS
  <2> HIDE DEF Bad
  <2> QED BY <2>1, <2>2, LeastNatural
<1>8. Good(m)
  BY <1>1, <1>7
<1>9. Stream!apply_events(p, sent) = f[m] /\ Stream!apply_knowledge_sync_events(p.knowledge, sent) = g[m]
  BY ThroughNames DEF f, g, m
<1> QED BY <1>8, <1>9 DEF Good, Reached, Alike

\* The events the backend may publish.
Operation == {pub[2] : pub \in Publications} \cup {"created"}
StreamPayload ==
  UNION {Stream!Payloads(t, o, operation) : t \in Stream!ServerSyncObjectType, o \in Objects, operation \in Operation}
StreamEvent ==
  [sequence : Nat, schema_version : {1, 2}, object_type : Stream!ServerSyncObjectType, object_id : Objects,
   operation : Operation, payload : StreamPayload]

\* Both projections are what the stream says, the persisted one is not ahead, and the answers on their
\* way begin where the persisted one was at some time.
StreamInv ==
  /\ stream \in Seq(StreamEvent) /\ StreamOk(stream)
  /\ Agrees(stream, latest) /\ Agrees(stream, saved) /\ saved.cursor <= latest.cursor
  /\ kept \in 0 .. saved.cursor
  /\ IsFiniteSet(answers) /\ Cardinality(answers) <= MaxPages
  /\ \A page \in answers : \E a \in 0 .. saved.cursor : Segment(stream, a, page.events)

\* Nothing is known of an empty stream.
LEMMA StreamStarts == ASSUME StreamAssumption, Stream!Init PROVE StreamInv
<1>1. /\ stream = <<>> /\ kept = 0 /\ answers = {} /\ latest = Stream!EmptyProjection /\ saved = Stream!EmptyProjection
  BY DEF Stream!Init
<1>2. stream \in Seq(StreamEvent) /\ Len(stream) = 0
  BY <1>1
<1>3. StreamOk(stream)
  BY <1>2 DEF StreamOk
<1> DEFINE p == Stream!EmptyProjection
<1>4. /\ p = [cursor |-> p.cursor, knowledge |-> p.knowledge, maps |-> p.maps]
      /\ p.cursor = 0 /\ p.knowledge = [cursor |-> 0, entries |-> Stream!Empty]
      /\ p.maps = [f \in Stream!Families |-> Stream!Empty] /\ DOMAIN Stream!Empty = {}
  BY DEF Stream!EmptyProjection, Stream!Empty
<1> HIDE DEF p
<1>5. \A f, o, k : /\ About(stream, 0, f, o) = {} /\ AboutGrant(stream, 0, k, o) = {}
  BY DEF About, AboutGrant
<1>6. \A f, o, k : /\ Left(stream, Latest(About(stream, 0, f, o))) = {}
                   /\ LeftGrant(stream, Latest(AboutGrant(stream, 0, k, o))) = {}
  BY <1>5 DEF Latest, Left, LeftGrant
<1>7. PluginPermissions \in Stream!Families
  BY DEF PluginPermissions, Stream!Families
<1>8. p.maps[PluginPermissions] = Stream!Empty /\ \A f \in Stream!Families : p.maps[f] = Stream!Empty
  BY <1>4, <1>7
<1>9. Agrees(stream, p)
  <2>1. Passed(stream, 0)
    BY DEF Passed
  <2>2. p.knowledge.cursor = 0 /\ p.knowledge.entries = Stream!Empty
    BY <1>4
  <2>3. KnowledgeAgrees(stream, 0, p.knowledge)
    BY <1>4, <2>2 DEF KnowledgeAgrees
  <2>4. MapsAgree(stream, 0, p.maps)
    BY <1>4, <1>6, <1>8 DEF MapsAgree
  <2>5. GrantsAgree(stream, 0, p.maps[PluginPermissions])
    BY <1>4, <1>6, <1>8 DEF GrantsAgree
  <2>6. DOMAIN p.maps = Stream!Families /\ p.cursor \in 0 .. Len(stream)
    BY <1>2, <1>4
  <2> QED BY <1>4, <2>1, <2>3, <2>4, <2>5, <2>6 DEF Agrees
<1>10. IsFiniteSet(answers) /\ Cardinality(answers) <= MaxPages
  <2>1. IsFiniteSet(answers) /\ Cardinality(answers) = 0
    BY <1>1, FS_EmptySet
  <2> QED BY <2>1 DEF StreamAssumption
<1>11. latest = p /\ saved = p /\ p.cursor = 0 /\ kept \in 0 .. p.cursor /\ p.cursor <= p.cursor
  BY <1>1, <1>4 DEF p
<1> QED BY <1>1, <1>2, <1>3, <1>9, <1>10, <1>11 DEF StreamInv

\* What the backend publishes can be relied on.
LEMMA PayloadOk ==
  ASSUME NEW t \in Stream!ServerSyncObjectType, NEW o \in Objects, NEW operation,
         NEW payload \in Stream!Payloads(t, o, operation)
  PROVE  /\ t = "knowledge" => payload.version \in Nat /\ payload.content_hash \in 1 .. 2
         /\ t # "knowledge" => payload.status \in Statuses
         /\ t = "plugin" /\ operation \in Stream!Grants => GrantOf(o, payload)
<1>1. Stream!Status(operation) \subseteq Statuses
  BY DEF Stream!Status, Statuses
<1>2. CASE t = "knowledge"
  <2>1. payload \in Stream!EntryPayloads(o, operation)
    BY <1>2 DEF Stream!Payloads
  <2>2. payload.version \in 1 .. 2 /\ payload.content_hash \in 1 .. 2
    BY <2>1 DEF Stream!EntryPayloads
  <2> QED BY <1>2, <2>2
<1>3. CASE t = "skill"
  <2>1. payload \in Stream!SkillPayloads(operation)
    BY <1>3 DEF Stream!Payloads
  <2>2. payload.status \in Stream!Status(operation)
    BY <2>1 DEF Stream!SkillPayloads
  <2> QED BY <1>1, <1>3, <2>2
<1>4. CASE t = "plugin" /\ operation \in Stream!Grants
  <2>1. payload \in Stream!GrantPayloads(o, operation)
    BY <1>4 DEF Stream!Payloads
  <2>2. PICK s \in Stream!Status(operation), m \in Permissions : payload = Stream!Grant(o, m, s)
    BY <2>1 DEF Stream!GrantPayloads
  <2>3. /\ payload.status = s /\ payload.installation_id = o /\ payload.permission_key = m
        /\ payload.grant_id = IF <<o, m>> \in Named THEN <<o, m>> ELSE <<>>
    BY <2>2 DEF Stream!Grant
  <2> QED BY <1>1, <1>4, <2>3 DEF GrantOf
<1>5. CASE t \notin {"knowledge", "skill"} /\ ~(t = "plugin" /\ operation \in Stream!Grants)
  <2>1. payload \in [status : Stream!Status(operation)]
    BY <1>5 DEF Stream!Payloads
  <2>2. payload.status \in Stream!Status(operation)
    BY <2>1
  <2> QED BY <1>1, <1>5, <2>2
<1> QED BY <1>2, <1>3, <1>4, <1>5

\* A published event comes after those that the projections have.
LEMMA PublishStep ==
  ASSUME StreamAssumption, StreamInv, NEW t \in Stream!ServerSyncObjectType, NEW operation \in Operation,
         NEW o \in Objects, NEW payload \in Stream!Payloads(t, o, operation), NEW schema \in {1, 2},
         Stream!publish(t, operation, o, payload, schema)
  PROVE  StreamInv'
<1> DEFINE n == Len(stream)
           e == [sequence |-> n + 1, schema_version |-> schema, object_type |-> t,
                 object_id |-> o, operation |-> operation, payload |-> payload]
<1>1. /\ stream \in Seq(StreamEvent) /\ StreamOk(stream) /\ n \in Nat
      /\ stream' = Append(stream, e)
      /\ kept' = kept /\ answers' = answers /\ latest' = latest /\ saved' = saved
  BY DEF StreamInv, Stream!publish
<1>2. /\ e.sequence = n + 1 /\ e.object_type = t /\ e.object_id = o /\ e.operation = operation /\ e.payload = payload
      /\ e.schema_version = schema
  OBVIOUS
<1>3. payload \in StreamPayload
  BY DEF StreamPayload
<1>4. e \in StreamEvent
  BY <1>1, <1>3 DEF StreamEvent
<1>5. EventOk(e)
  <2> HIDE DEF e
  <2> QED BY <1>2, PayloadOk DEF EventOk
<1> HIDE DEF e
<1>6. /\ stream' \in Seq(StreamEvent) /\ Len(stream') = n + 1 /\ stream'[n + 1] = e
      /\ \A i \in 1 .. n : stream'[i] = stream[i]
  BY <1>1, <1>4
<1> HIDE DEF n
<1>7. StreamOk(stream')
  <2> SUFFICES ASSUME NEW i \in 1 .. (n + 1) PROVE stream'[i].sequence = i /\ EventOk(stream'[i])
    BY <1>6 DEF StreamOk
  <2>1. i = n + 1 \/ i \in 1 .. n
    BY <1>1
  <2> QED BY <1>1, <1>2, <1>5, <1>6, <2>1 DEF StreamOk, n
<1>8. Agrees(stream', latest) /\ Agrees(stream', saved)
  <2>1. Agrees(stream, latest) /\ Agrees(stream, saved)
    BY DEF StreamInv
  <2>2. Len(stream) = n /\ n <= n + 1 /\ Len(stream') \in Nat
    BY <1>1, <1>6 DEF n
  <2> QED BY <1>1, <1>6, <2>1, <2>2, AgreesLater
<1>9. ASSUME NEW a, NEW sent, Segment(stream, a, sent) PROVE Segment(stream', a, sent)
  <2>1. a \in Nat /\ Len(sent) \in Nat /\ a + Len(sent) <= n /\ \A i \in 1 .. Len(sent) : sent[i] = stream[a + i]
    BY <1>9 DEF Segment, n
  <2>2. \A i \in 1 .. Len(sent) : a + i \in 1 .. n
    BY <1>1, <2>1
  <2> QED BY <1>1, <1>6, <1>9, <2>1, <2>2 DEF Segment
<1> QED BY <1>1, <1>6, <1>7, <1>8, <1>9 DEF StreamInv

\* A pull is answered by what comes after the persisted cursor, or refused.
LEMMA PullStep == ASSUME StreamAssumption, StreamInv, Stream!pull PROVE StreamInv'
<1>1. /\ Cardinality(answers) < MaxPages
      /\ stream' = stream /\ kept' = kept /\ latest' = latest /\ saved' = saved
  BY SameCount DEF Stream!pull
<1>2. PICK page : /\ answers' = answers \cup {page}
                  /\ \E a \in 0 .. saved.cursor : Segment(stream, a, page.events)
  <2>1. CASE answers' = answers \cup {[code |-> 401, events |-> <<>>]}
    <3> DEFINE page == [code |-> 401, events |-> <<>>]
    <3>1. page.events = <<>> /\ Len(page.events) = 0 /\ DOMAIN page.events = 1 .. 0
      OBVIOUS
    <3> HIDE DEF page
    <3>2. Segment(stream, 0, page.events) /\ 0 \in 0 .. saved.cursor
      <4>1. Len(stream) \in Nat /\ saved.cursor \in 0 .. Len(stream)
        BY DEF StreamInv, Agrees
      <4> QED BY <3>1, <4>1 DEF Segment
    <3>3. answers' = answers \cup {page}
      BY <2>1 DEF page
    <3> QED BY <3>2, <3>3
  <2>2. ASSUME NEW upto \in (saved.cursor + 1) .. Len(stream),
               answers' = answers \cup {[code |-> 0, events |-> SubSeq(stream, saved.cursor + 1, upto)]}
        PROVE  \E page : /\ answers' = answers \cup {page}
                         /\ \E a \in 0 .. saved.cursor : Segment(stream, a, page.events)
    <3> DEFINE a == saved.cursor
               ev == SubSeq(stream, a + 1, upto)
               page == [code |-> 0, events |-> ev]
    <3>1. stream \in Seq(StreamEvent) /\ a \in 0 .. Len(stream) /\ Len(stream) \in Nat
      BY DEF StreamInv, Agrees
    <3> HIDE DEF a
    <3>2. upto \in (a + 1) .. Len(stream)
      BY DEF a
    <3>3. /\ Len(ev) = upto - a /\ DOMAIN ev = 1 .. (upto - a)
          /\ \A i \in 1 .. (upto - a) : ev[i] = stream[a + i]
      <4>1. a + 1 \in 1 .. (Len(stream) + 1) /\ upto \in a .. Len(stream) /\ upto - (a + 1) + 1 = upto - a
        BY <3>1, <3>2
      <4>2. ev \in Seq(StreamEvent) /\ Len(ev) = upto - a
        BY <3>1, <3>2, <4>1
      <4>3. \A i \in 1 .. (upto - a) : ev[i] = stream[a + 1 + i - 1] /\ a + 1 + i - 1 = a + i
        BY <3>1, <3>2, <4>1
      <4> QED BY <4>2, <4>3
    <3> HIDE DEF ev
    <3>4. Segment(stream, a, ev)
      BY <3>1, <3>2, <3>3 DEF Segment
    <3>5. page.events = ev /\ answers' = answers \cup {page}
      BY <2>2 DEF a, ev
    <3> HIDE DEF page
    <3> QED BY <3>1, <3>4, <3>5 DEF a
  <2> QED BY <2>1, <2>2 DEF Stream!pull
<1>3. IsFiniteSet(answers') /\ Cardinality(answers') <= MaxPages
  <2>1. IsFiniteSet(answers) /\ Cardinality(answers) \in Nat
    BY FS_CardinalityType DEF StreamInv
  <2>2. IsFiniteSet(answers \cup {page}) /\ Cardinality(answers \cup {page}) <= Cardinality(answers) + 1
    BY <2>1, FS_AddElement
  <2>3. Cardinality(answers \cup {page}) \in Nat
    BY <2>2, FS_CardinalityType
  <2> QED BY <1>1, <1>2, <2>1, <2>2, <2>3 DEF StreamAssumption
<1> QED BY <1>1, <1>2, <1>3 DEF StreamInv

\* A page leads the stored projection to what the stream says.
LEMMA ApplyStep ==
  ASSUME StreamAssumption, StreamInv, NEW page \in answers, NEW again \in BOOLEAN,
         Stream!apply_sync_pull_response(page, again)
  PROVE  StreamInv'
<1> DEFINE r == Stream!apply_events(saved, page.events)
<1>1. /\ latest' = (IF page.code = 0 /\ r.ok THEN r.p ELSE latest)
      /\ answers' = (IF again THEN answers ELSE answers \ {page})
      /\ stream' = stream /\ kept' = kept /\ saved' = saved
  BY DEF Stream!apply_sync_pull_response
<1>2. r.ok => Agrees(stream, r.p) /\ saved.cursor <= r.p.cursor
  <2>1. PICK a \in 0 .. saved.cursor : Segment(stream, a, page.events)
    BY DEF StreamInv
  <2>2. a <= saved.cursor /\ Len(stream) \in Nat /\ StreamOk(stream) /\ Agrees(stream, saved)
    BY DEF StreamInv, Agrees
  <2> QED BY <2>1, <2>2, PageSound
<1> HIDE DEF r
<1>3. Agrees(stream, latest') /\ saved.cursor <= latest'.cursor
  BY <1>1, <1>2 DEF StreamInv
<1>4. answers' \subseteq answers /\ IsFiniteSet(answers') /\ Cardinality(answers') <= MaxPages
  <2>1. answers' \subseteq answers
    BY <1>1
  <2>2. IsFiniteSet(answers) /\ Cardinality(answers) <= MaxPages
    BY DEF StreamInv
  <2>3. /\ IsFiniteSet(answers') /\ Cardinality(answers') <= Cardinality(answers)
        /\ Cardinality(answers') \in Nat /\ Cardinality(answers) \in Nat
    BY <2>1, <2>2, FS_Subset, FS_CardinalityType
  <2> QED BY <2>1, <2>2, <2>3 DEF StreamAssumption
<1> QED BY <1>1, <1>3, <1>4 DEF StreamInv

\* The host's steps.
LEMMA HostSteps ==
  ASSUME StreamAssumption, StreamInv, (Stream!persist \/ Stream!ack) \/ Stream!restart
  PROVE  StreamInv'
<1>0. saved.cursor \in Nat /\ latest.cursor \in Nat /\ saved.cursor <= latest.cursor
  BY DEF StreamInv, Agrees
<1>1. CASE Stream!persist
  <2>1. 0 .. saved.cursor \subseteq 0 .. latest.cursor /\ latest.cursor <= latest.cursor
    BY <1>0
  <2>2. saved' = latest /\ stream' = stream /\ kept' = kept /\ answers' = answers /\ latest' = latest
    BY <1>1 DEF Stream!persist
  <2>3. \A page \in answers : \E a \in 0 .. latest.cursor : Segment(stream, a, page.events)
    BY <2>1 DEF StreamInv
  <2> QED BY <2>1, <2>2, <2>3 DEF StreamInv
<1>2. CASE Stream!ack
  <2>1. saved.cursor \in 0 .. saved.cursor
    BY <1>0
  <2> QED BY <1>2, <2>1 DEF Stream!ack, StreamInv
<1>3. CASE Stream!restart
  <2>1. latest' = saved /\ answers' = {} /\ stream' = stream /\ kept' = kept /\ saved' = saved
    BY <1>3 DEF Stream!restart
  <2>2. IsFiniteSet({}) /\ Cardinality({}) <= MaxPages
    BY FS_EmptySet DEF StreamAssumption
  <2>3. saved.cursor <= saved.cursor
    BY <1>0
  <2> QED BY <2>1, <2>2, <2>3 DEF StreamInv
<1> QED BY <1>1, <1>2, <1>3

\* Every step.
LEMMA StreamStep == ASSUME StreamAssumption, StreamInv, [Stream!Next]_(Stream!yvars) PROVE StreamInv'
<1>1. CASE UNCHANGED Stream!yvars
  BY <1>1 DEF Stream!yvars, StreamInv
<1>2. ASSUME NEW pub \in Publications, NEW o \in Objects, NEW payload \in Stream!Payloads(pub[1], o, pub[2]),
             Stream!publish(pub[1], pub[2], o, payload, 1)
      PROVE  StreamInv'
  <2>1. pub[1] \in Stream!ServerSyncObjectType /\ pub[2] \in Operation
    BY DEF StreamAssumption, Operation
  <2> QED BY <1>2, <2>1, PublishStep
<1>3. ASSUME NEW o \in Objects, Stream!publish("message", "created", o, [status |-> "active"], 2)
      PROVE  StreamInv'
  <2>0. "created" \in Operation
    BY DEF Operation
  <2>1. "message" \in Stream!ServerSyncObjectType
    BY DEF Stream!ServerSyncObjectType
  <2>2. [status |-> "active"] \in Stream!Payloads("message", o, "created")
    BY DEF Stream!Payloads, Stream!Status
  <2> QED BY <1>3, <2>0, <2>1, <2>2, PublishStep
<1>4. ASSUME NEW page \in answers, NEW again \in BOOLEAN, Stream!apply_sync_pull_response(page, again) PROVE StreamInv'
  BY <1>4, ApplyStep
<1> QED BY <1>1, <1>2, <1>3, <1>4, PullStep, HostSteps DEF Stream!Next

\* A projection that agrees with the stream is what the stream says.
LEMMA StreamSays == ASSUME NEW p, Agrees(stream, p) PROVE Stream!AsStreamSays(p)
<1> DEFINE n == p.cursor
<1>1. /\ Passed(stream, n) /\ KnowledgeAgrees(stream, n, p.knowledge)
      /\ MapsAgree(stream, n, p.maps) /\ GrantsAgree(stream, n, p.maps[PluginPermissions])
  BY DEF Agrees
<1>2. \A F, x : {F[y] : y \in DOMAIN F \cap {x}} = IF x \in DOMAIN F THEN {F[x]} ELSE {}
  OBVIOUS
<1>3. \A i \in 1 .. n : /\ stream[i].schema_version = 1
                        /\ IF stream[i].object_type # "knowledge"
                           THEN stream[i].operation \in Stream!allowed(stream[i].object_type)
                           ELSE stream[i].operation = "deleted" => stream[i].payload.status = "deleted"
  BY <1>1 DEF Passed
<1>4. /\ \A o \in DOMAIN p.knowledge.entries : Stream!Newest(n, o, p.knowledge.entries[o])
      /\ \A i \in 1 .. n : stream[i].object_type = "knowledge" => stream[i].object_id \in DOMAIN p.knowledge.entries
  BY <1>1, StreamNames DEF KnowledgeAgrees
<1>5. ASSUME NEW f \in Stream!Families \ {"plugin_permissions"}, NEW o \in Objects
      PROVE  {p.maps[f][x] : x \in DOMAIN p.maps[f] \cap {o}} = Stream!Stands(n, f, o)
  <2>1. Left(stream, Latest(About(stream, n, f, o))) = IF o \in DOMAIN p.maps[f] THEN {p.maps[f][o]} ELSE {}
    BY <1>1, <1>5 DEF MapsAgree, PluginPermissions
  <2>2. {p.maps[f][x] : x \in DOMAIN p.maps[f] \cap {o}} = IF o \in DOMAIN p.maps[f] THEN {p.maps[f][o]} ELSE {}
    BY <1>2
  <2> QED BY <2>1, <2>2, StreamNames
<1>6. ASSUME NEW o \in Objects, NEW m \in Permissions
      PROVE  LET k == IF <<o, m>> \in Named THEN <<0, <<o, m>>>> ELSE <<o, m>>
                 permissions == p.maps["plugin_permissions"]
             IN {permissions[x] : x \in DOMAIN permissions \cap {k}} = Stream!Granted(n, k, o)
  <2> DEFINE k == KeyOf(o, m)
             permissions == p.maps[PluginPermissions]
  <2>1. LeftGrant(stream, Latest(AboutGrant(stream, n, k, o))) = IF k \in DOMAIN permissions THEN {permissions[k]} ELSE {}
    BY <1>1, <1>6 DEF GrantsAgree
  <2>2. {permissions[x] : x \in DOMAIN permissions \cap {k}} = IF k \in DOMAIN permissions THEN {permissions[k]} ELSE {}
    BY <1>2
  <2>3. {permissions[x] : x \in DOMAIN permissions \cap {k}} = Stream!Granted(n, k, o)
    BY <2>1, <2>2, StreamNames
  <2> QED BY <2>3, Zenon DEF KeyOf, PluginPermissions
<1> QED BY <1>3, <1>4, <1>5, <1>6, Zenon DEF Stream!AsStreamSays, n

\* A status that is active.
LEMMA ActiveStatus ==
  ASSUME NEW payload, payload.status \in Statuses, Stream!is_active_payload(payload)
  PROVE  payload.status = "active"
BY DEF Statuses, Stream!is_active_payload

\* What a projection that agrees with the stream has as an active object stands in the stream.
LEMMA ActiveStands ==
  ASSUME NEW p, Agrees(stream, p), NEW f \in {"plugin", "skill"}, NEW o \in Stream!active(p.maps[f])
  PROVE  o \in Objects /\ \E payload \in Stream!Stands(p.cursor, f, o) : payload.status = "active"
<1>1. f \in Stream!Families \ {PluginPermissions}
  BY DEF Stream!Families, Stream!ServerSyncObjectType, PluginPermissions
<1>2. MapsAgree(stream, p.cursor, p.maps)
  BY DEF Agrees
<1>3. /\ o \in DOMAIN p.maps[f] /\ o \in Objects /\ p.maps[f][o].status \in Statuses
      /\ Stream!is_active_payload(p.maps[f][o])
  BY <1>1, <1>2 DEF MapsAgree, Stream!active
<1>4. Stream!Stands(p.cursor, f, o) = {p.maps[f][o]}
  BY <1>1, <1>2, <1>3, StreamNames DEF MapsAgree
<1> QED BY <1>3, <1>4, ActiveStatus

\* A plugin may act only by a grant that stands.
LEMMA StreamAllows == ASSUME NEW p, Agrees(stream, p) PROVE Stream!AllowsByGrant(p)
<1> SUFFICES ASSUME NEW m \in Permissions, NEW high_risk \in BOOLEAN, NEW confirmed \in BOOLEAN,
                    "Allow" \in Stream!evaluate_sage_invocation(p, m, high_risk, confirmed)
             PROVE  \E o \in Objects :
                      /\ \E installed \in Stream!Stands(p.cursor, "plugin", o) : installed.status = "active"
                      /\ \E k \in {<<0, <<o, m>>>>, <<o, m>>} : \E grant \in Stream!Granted(p.cursor, k, o) :
                           grant.status = "active" /\ (high_risk \/ grant.requires_confirmation => confirmed)
  BY Zenon DEF Stream!AllowsByGrant
<1> DEFINE permissions == p.maps[PluginPermissions]
           grants(o) == {k \in Stream!active(permissions) : /\ permissions[k].installation_id = o
                                                            /\ permissions[k].permission_key = m}
           asks(k) == (high_risk \/ permissions[k].requires_confirmation) /\ ~confirmed
           decision(k) == IF asks(k) THEN "RequiresConfirmation" ELSE "Allow"
           installed == Stream!active(p.maps["plugin"])
           outcomes(o) == IF grants(o) = {} THEN {"permission_not_granted"} ELSE {decision(k) : k \in grants(o)}
<1>1. "Allow" \in IF installed = {} THEN {"plugin_not_installed"} ELSE UNION {outcomes(o) : o \in installed}
  BY Zenon DEF Stream!evaluate_sage_invocation, PluginPermissions
<1> HIDE DEF asks, grants
<1>2. PICK o \in installed : "Allow" \in outcomes(o)
  <2> HIDE DEF outcomes, installed
  <2> QED BY <1>1
<1>3. PICK k \in grants(o) : decision(k) = "Allow"
  BY <1>2
<1>4. ~asks(k)
  BY <1>3
<1>5. o \in Objects /\ \E payload \in Stream!Stands(p.cursor, "plugin", o) : payload.status = "active"
  BY ActiveStands
<1>6. /\ k \in DOMAIN permissions /\ permissions[k].installation_id = o /\ permissions[k].permission_key = m
      /\ Stream!is_active_payload(permissions[k])
  BY DEF grants, Stream!active
<1>7. GrantsAgree(stream, p.cursor, permissions)
  BY DEF Agrees
<1>8. k = KeyOf(o, m) /\ permissions[k].status \in Statuses
  BY <1>6, <1>7 DEF GrantsAgree
<1>9. Stream!Granted(p.cursor, KeyOf(o, m), o) = {permissions[k]}
  <2>1. LeftGrant(stream, Latest(AboutGrant(stream, p.cursor, KeyOf(o, m), o))) =
          IF KeyOf(o, m) \in DOMAIN permissions THEN {permissions[KeyOf(o, m)]} ELSE {}
    BY <1>5, <1>7 DEF GrantsAgree
  <2> HIDE DEF permissions
  <2> QED BY <1>6, <1>8, <2>1, StreamNames
<1>10. permissions[k].status = "active"
  BY <1>6, <1>8, ActiveStatus
<1> DEFINE grant == permissions[k]
<1>11. high_risk \/ grant.requires_confirmation => confirmed
  BY <1>4 DEF asks
<1>12. KeyOf(o, m) \in {<<0, <<o, m>>>>, <<o, m>>}
  BY DEF KeyOf
<1> QED BY <1>5, <1>9, <1>10, <1>11, <1>12

\* A list of a finite set of numbers by size holds its elements.
LEMMA Listed ==
  ASSUME NEW S, IsFiniteSet(S), S \in SUBSET Int
  PROVE  LET list == [k \in 1 .. Cardinality(S) |-> CHOOSE o \in S : Stream!place(S, o) = k]
         IN \A o : (\E i \in DOMAIN list : list[i] = o) <=> o \in S
<1> DEFINE n == Cardinality(S)
           below(o) == {x \in S : x <= o}
           rank(o) == Stream!place(S, o)
           f == [o \in S |-> rank(o)]
           list == [k \in 1 .. n |-> CHOOSE o \in S : rank(o) = k]
<1>1. n \in Nat
  BY FS_CardinalityType
<1>0. \A o \in S : rank(o) = Cardinality(below(o))
  BY SameCount DEF Stream!place
<1> HIDE DEF rank
<1>2. \A o \in S : below(o) \in SUBSET S /\ IsFiniteSet(below(o)) /\ rank(o) \in Nat /\ rank(o) <= n /\ o \in below(o)
  <2> TAKE o \in S
  <2>1. below(o) \in SUBSET S /\ o \in below(o)
    OBVIOUS
  <2> HIDE DEF below
  <2>2. IsFiniteSet(below(o)) /\ rank(o) <= n
    BY <1>0, <2>1, FS_Subset
  <2> QED BY <1>0, <2>1, <2>2, FS_CardinalityType
<1>3. \A o, q \in S : o < q => rank(o) < rank(q)
  <2> SUFFICES ASSUME NEW o \in S, NEW q \in S, o < q PROVE rank(o) < rank(q)
    OBVIOUS
  <2>0. \A x \in S : x \in Int /\ o \in Int /\ q \in Int
    OBVIOUS
  <2>1. below(o) \in SUBSET below(q) /\ q \in below(q) /\ q \notin below(o)
    <3>1. \A x \in S : x <= o => x <= q
      BY <2>0
    <3>2. q <= q /\ ~(q <= o)
      BY <2>0
    <3> QED BY <3>1, <3>2
  <2> HIDE DEF below
  <2>2. below(o) # below(q) /\ IsFiniteSet(below(q)) /\ rank(o) \in Nat /\ rank(q) \in Nat
    BY <1>2, <2>1
  <2> QED BY <1>0, <2>1, <2>2, FS_Subset
<1>4. \A o, q \in S : rank(o) = rank(q) => o = q
  <2> TAKE o, q \in S
  <2>1. o = q \/ o < q \/ q < o
    OBVIOUS
  <2> HIDE DEF below
  <2> QED BY <1>2, <1>3, <2>1
<1>5. \A o \in S : rank(o) \in 1 .. n
  <2> TAKE o \in S
  <2>1. rank(o) # 0
    <3>1. below(o) # {}
      BY <1>2
    <3> HIDE DEF below
    <3> QED BY <1>0, <1>2, <3>1, FS_EmptySet
  <2>2. rank(o) \in Nat /\ rank(o) <= n
    BY <1>2
  <2> HIDE DEF below, n
  <2> QED BY <1>1, <2>1, <2>2
<1> HIDE DEF n
<1>6. \A k \in 1 .. n : \E o \in S : rank(o) = k
  <2>1. f \in [S -> 1 .. n]
    BY <1>5
  <2>2. f \in Injection(S, 1 .. n)
    BY <1>4, <2>1 DEF Injection, IsInjective
  <2>3. IsFiniteSet(1 .. n) /\ Cardinality(1 .. n) = n
    BY <1>1, FS_Interval
  <2> HIDE DEF f
  <2>4. f \in Surjection(S, 1 .. n)
    BY <2>2, <2>3, FS_Injection DEF n
  <2>5. \A k \in 1 .. n : \E o \in S : f[o] = k
    BY <2>4 DEF Surjection
  <2> QED BY <2>5 DEF f
<1>7. DOMAIN list = 1 .. n
  OBVIOUS
<1>8. \A k \in 1 .. n : list[k] \in S /\ rank(list[k]) = k
  BY <1>6
<1> HIDE DEF list
<1>9. \A o : (\E i \in DOMAIN list : list[i] = o) <=> o \in S
  BY <1>4, <1>5, <1>7, <1>8
<1> QED BY <1>9 DEF list, rank, n

\* The entries a projection cites are the active ones among the newest.
LEMMA StreamCites == ASSUME StreamAssumption, Len(stream) \in Nat, StreamOk(stream), NEW p, Agrees(stream, p)
                     PROVE  Stream!GivesWhatStands(p)
<1> DEFINE n == p.cursor
           entries == p.knowledge.entries
           matches == 1 .. 2
           found == {o \in DOMAIN entries : entries[o].status = "active" /\ entries[o].content_hash \in matches}
           list == [k \in 1 .. Cardinality(found) |-> CHOOSE o \in found : Stream!place(found, o) = k]
           cited == Stream!retrieve_knowledge_context(p, matches, Stream!Cardinality(Objects))
           told(o, i) == /\ stream[i].object_type = "knowledge" /\ stream[i].object_id = o
                         /\ stream[i].payload.status = "active" /\ Stream!Newest(n, o, stream[i].payload)
<1>1. KnowledgeAgrees(stream, n, p.knowledge) /\ n \in 0 .. Len(stream)
  BY DEF Agrees
<1>2. \A i \in 1 .. n : stream[i].object_type = "knowledge" =>
                          stream[i].payload.version \in Nat /\ stream[i].payload.content_hash \in matches
  BY <1>1 DEF StreamOk, EventOk
<1>3. DOMAIN entries \subseteq Objects /\ Objects \subseteq Nat /\ IsFiniteSet(Objects)
  BY <1>1 DEF KnowledgeAgrees, StreamAssumption
<1>4. \A o \in DOMAIN entries : NewestIn(stream, n, o, entries[o])
  BY <1>1 DEF KnowledgeAgrees
<1>5. /\ found \in SUBSET Int /\ IsFiniteSet(found)
      /\ Cardinality(found) \in Nat /\ Cardinality(Objects) \in Nat /\ Cardinality(found) <= Cardinality(Objects)
  <2>1. found \in SUBSET Objects
    BY <1>3
  <2>2. Objects \in SUBSET Int
    BY <1>3
  <2> HIDE DEF found
  <2> QED BY <1>3, <2>1, <2>2, FS_Subset, FS_CardinalityType
<1>6. cited = list
  <2> DEFINE limit == Cardinality(Objects)
             count == Cardinality(found)
  <2>1. cited = [k \in 1 .. (IF limit < count THEN limit ELSE count) |->
                   CHOOSE o \in found : Stream!place(found, o) = k]
    BY SameCount DEF Stream!retrieve_knowledge_context
  <2> HIDE DEF limit, found, cited
  <2>2. (IF limit < count THEN limit ELSE count) = count
    BY <1>5 DEF limit
  <2> QED BY <2>1, <2>2
<1>7. \A o : (\E i \in DOMAIN cited : cited[i] = o) <=> o \in found
  <2> HIDE DEF found
  <2>1. \A o : (\E i \in DOMAIN list : list[i] = o) <=> o \in found
    BY <1>5, Listed
  <2> HIDE DEF list, cited
  <2> QED BY <1>6, <2>1
<1> HIDE DEF cited
<1>8. ASSUME NEW o \in found PROVE \E i \in 1 .. n : told(o, i)
  <2>1. NewestIn(stream, n, o, entries[o]) /\ entries[o].status = "active"
    BY <1>4
  <2>2. PICK i \in AboutEntry(stream, n, o) : stream[i].payload = entries[o]
    BY <2>1 DEF NewestIn
  <2>3. i \in 1 .. n /\ stream[i].object_type = "knowledge" /\ stream[i].object_id = o
    BY <2>2 DEF AboutEntry, ConcernsEntry
  <2> QED BY <2>1, <2>2, <2>3, StreamNames
<1>9. ASSUME NEW o \in Objects, NEW i \in 1 .. n, told(o, i) PROVE o \in found
  <2>1. NewestIn(stream, n, o, stream[i].payload) /\ i \in AboutEntry(stream, n, o)
    BY <1>9, StreamNames DEF AboutEntry, ConcernsEntry
  <2>2. o \in DOMAIN entries
    BY <1>1, <1>9 DEF KnowledgeAgrees
  <2>3. NewestIn(stream, n, o, entries[o])
    BY <1>4, <2>2
  <2>4. PICK j \in AboutEntry(stream, n, o) : stream[j].payload = entries[o]
    BY <2>3 DEF NewestIn
  <2>5. /\ stream[j].payload.version <= stream[i].payload.version
        /\ stream[i].payload.version <= stream[j].payload.version
        /\ ~Stream!contradicts(stream[i].payload, stream[j].payload)
    BY <2>1, <2>3, <2>4 DEF NewestIn
  <2>6. /\ stream[i].payload.version \in Nat /\ stream[j].payload.version \in Nat
        /\ stream[j].payload.content_hash \in matches
    BY <1>2, <1>9, <2>4 DEF AboutEntry, ConcernsEntry
  <2>7. stream[j].payload.version = stream[i].payload.version
    BY <2>5, <2>6
  <2>8. stream[j].payload.status = "active"
    BY <1>9, <2>5, <2>7 DEF Stream!contradicts
  <2> QED BY <2>2, <2>4, <2>6, <2>8
<1> HIDE DEF found
<1>10. \A o \in Objects : (\E i \in DOMAIN cited : cited[i] = o) <=> \E i \in 1 .. n : told(o, i)
  BY <1>7, <1>8, <1>9
<1>11. \A o \in Stream!skill_runtime_bundles(p) : \E s \in Stream!Stands(n, "skill", o) : s.status = "active"
  <2> TAKE o \in Stream!skill_runtime_bundles(p)
  <2>1. o \in Stream!active(p.maps["skill"])
    BY DEF Stream!skill_runtime_bundles
  <2> QED BY <2>1, ActiveStands
<1> QED BY <1>10, <1>11, Zenon DEF Stream!GivesWhatStands, cited, told, n, matches

\* The parts together.
LEMMA StreamConclusion == ASSUME StreamAssumption, StreamInv PROVE Stream!TypeOK /\ Stream!FollowsStream
<1>1. /\ Len(stream) \in Nat /\ StreamOk(stream) /\ Agrees(stream, latest) /\ Agrees(stream, saved)
      /\ kept \in 0 .. saved.cursor /\ saved.cursor \in 0 .. Len(stream)
  BY DEF StreamInv, Agrees
<1>2. ASSUME NEW page \in answers PROVE Stream!AloneAlike(page)
  <2>1. PICK a \in 0 .. saved.cursor : Segment(stream, a, page.events)
    BY DEF StreamInv
  <2>2. a <= saved.cursor
    BY <1>1
  <2>3. LET r == Stream!apply_events(saved, page.events)
            k == Stream!apply_knowledge_sync_events(saved.knowledge, page.events)
        IN (\A i \in DOMAIN page.events : page.events[i].object_type = "knowledge") =>
             k.ok = r.ok /\ (r.ok => k.p = r.p.knowledge)
    BY <1>1, <2>1, <2>2, PageSound
  <2> QED BY <2>3 DEF Stream!AloneAlike
<1>3. Stream!FollowsStream
  <2>1. \A p \in {latest, saved} : Stream!AsStreamSays(p) /\ Stream!AllowsByGrant(p) /\ Stream!GivesWhatStands(p)
    BY <1>1, StreamSays, StreamAllows, StreamCites
  <2>2. kept <= saved.cursor
    BY <1>1
  <2> QED BY <1>2, <2>1, <2>2 DEF Stream!FollowsStream
<1>4. Stream!TypeOK
  <2>1. kept \in 0 .. Len(stream)
    BY <1>1
  <2>2. DOMAIN saved.knowledge.entries \subseteq Objects /\ DOMAIN saved.maps = Stream!Families
    BY <1>1 DEF Agrees, KnowledgeAgrees
  <2>3. Stream!Cardinality(answers) <= MaxPages
    BY SameCount DEF StreamInv
  <2> QED BY <1>1, <2>1, <2>2, <2>3 DEF Stream!TypeOK
<1> QED BY <1>3, <1>4

\* Whatever answers of the backend were lost, repeated, late or cut by a restart of the host, and in
\* whatever order it published events, snapshots, grants and versions, a client's projection is what
\* the stream says up to its cursor; a plugin may act only by a grant that stands, a task is given only
\* skills and exactly the citations that stand, the knowledge projection alone comes to the same
\* entries, and the backend drops nothing that is not persisted.
THEOREM StreamFollowed == ASSUME StreamAssumption PROVE Stream!Spec => [](Stream!TypeOK /\ Stream!FollowsStream)
<1>1. Stream!Init => StreamInv
  BY StreamStarts
<1>2. StreamInv /\ [Stream!Next]_(Stream!yvars) => StreamInv'
  BY StreamStep
<1>3. StreamInv => Stream!TypeOK /\ Stream!FollowsStream
  BY StreamConclusion
<1> QED BY <1>1, <1>2, <1>3, PTL DEF Stream!Spec
=============================================================================
