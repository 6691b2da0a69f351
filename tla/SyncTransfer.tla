----------------------------- MODULE SyncTransfer -----------------------------
(***************************************************************************)
(* The transfer of sync objects: the object store, the ownership filter    *)
(* that decides what a manifest may name, the encryption of an object      *)
(* under a shared session key that expires, and the in-memory transport.   *)
(* The crate offers these as separate calls; the order in which a caller   *)
(* puts them together, and the damage a transport may do, are outside it.  *)
(*                                                                         *)
(* A text is a content (0 is the empty one) and the key bytes it is under; *)
(* a hash or a tag is what it is taken of, collisions aside.               *)
(***************************************************************************)
EXTENDS Naturals, Sequences, FiniteSets, SequencesExt

CONSTANTS Objects, KeyIds,
          KeyBytes,    \* 0 is the empty string of bytes
          Policy,      \* SyncPolicy of the filter
          MaxContent,  \* bound: contents written
          MaxTime,     \* bound: the clock
          Lifetime,    \* ttl_seconds of a session key
          MaxKeys,     \* bound: session keys made
          MaxInbox     \* bound: messages in the inbox

VARIABLES source,     \* the sender's store: the objects it holds
          marks,      \* the caller's ownership map: the objects that are marked
          manifest,   \* the manifest that was last filtered: ids and hashes
          keys,       \* the session keys both devices know
          connected,  \* whether the transport is connected to the peer
          inbox,      \* of the transport
          received,   \* what the receiver decrypted, and when
          clock, ghost

tvars == <<source, marks, manifest, keys, connected, inbox, received, clock, ghost>>

Init ==
  /\ source = [o \in {} |-> 0]
  /\ marks = [o \in {} |-> "Personal"]
  /\ manifest = {}
  /\ keys = {}
  /\ connected = FALSE
  /\ inbox = <<>>
  /\ received = {}
  /\ clock = 0
  /\ ghost = [written |-> 0, sent |-> {}, taken |-> {}]

-----------------------------------------------------------------------------
(* SyncObject and MemorySyncObjectStore.                                   *)
Plain(content) == [content |-> content, under |-> {}]
compute_hash(text) == text
SyncObject(text) == [text |-> text, content_hash |-> compute_hash(text)]
verify_hash(object) == compute_hash(object.text) = object.content_hash

\* The caller writes a new content, the first one empty.
put(o) ==
  /\ ghost.written < MaxContent
  /\ source' = [x \in DOMAIN source \cup {o} |-> IF x = o THEN SyncObject(Plain(ghost.written)) ELSE source[x]]
  /\ ghost' = [ghost EXCEPT !.written = @ + 1]
  /\ UNCHANGED <<marks, manifest, keys, connected, inbox, received, clock>>

delete(o) ==
  /\ o \in DOMAIN source
  /\ source' = [x \in DOMAIN source \ {o} |-> source[x]]
  /\ UNCHANGED <<marks, manifest, keys, connected, inbox, received, clock, ghost>>

-----------------------------------------------------------------------------
(* DataOwnershipMarker and SyncFilter.                                     *)
DataOwnership == {"Personal", "Enterprise"}

mark(o, ownership) ==
  /\ marks' = [x \in DOMAIN marks \cup {o} |-> IF x = o THEN ownership ELSE marks[x]]
  /\ UNCHANGED <<source, manifest, keys, connected, inbox, received, clock, ghost>>

should_include(ownership) ==
  CASE Policy = "PersonalOnly" -> ownership = "Personal"
    [] Policy = "EnterpriseOnly" -> ownership = "Enterprise"
    [] OTHER -> TRUE

\* The marked objects of a manifest that the policy admits.
filter_manifest(ids) == {o \in ids : o \in DOMAIN marks /\ should_include(marks[o])}

\* The caller filters the manifest of its store.
take_manifest ==
  /\ manifest' = filter_manifest(DOMAIN source)
  /\ ghost' = [ghost EXCEPT !.taken = @ \cup {<<o, marks[o]>> : o \in DOMAIN marks}]
  /\ UNCHANGED <<source, marks, keys, connected, inbox, received, clock>>

-----------------------------------------------------------------------------
(* SharedSessionKey, encrypt_sync_object and decrypt_payload.              *)
new_session_key(id, bytes) ==
  /\ Cardinality(keys) < MaxKeys
  /\ keys' = keys \cup {[key_id |-> id, key_bytes |-> bytes, expires_at |-> clock + Lifetime]}
  /\ UNCHANGED <<source, marks, manifest, connected, inbox, received, clock, ghost>>

is_expired(key) == clock > key.expires_at

\* The bytes repeated along the text; a key without bytes leaves nothing of it.
xor(text, bytes) ==
  IF text.content = 0 \/ bytes = 0 THEN Plain(0)
  ELSE [text EXCEPT !.under = IF bytes \in @ THEN @ \ {bytes} ELSE @ \cup {bytes}]

compute_tag(ciphertext, bytes) == <<ciphertext, bytes>>

\* Of one payload or of none, if the key has expired.
encrypt_sync_object(key, object) ==
  LET ciphertext == xor(object.text, key.key_bytes)
  IN IF is_expired(key) THEN {}
     ELSE {[key_id |-> key.key_id, ciphertext |-> ciphertext, tag |-> compute_tag(ciphertext, key.key_bytes),
            content_hash |-> compute_hash(object.text)]}

\* Of one text or of none, if a check fails.
decrypt_payload(key, payload) ==
  LET plaintext == xor(payload.ciphertext, key.key_bytes)
  IN IF \/ is_expired(key)
        \/ key.key_id # payload.key_id
        \/ payload.tag # compute_tag(payload.ciphertext, key.key_bytes)
        \/ compute_hash(plaintext) # payload.content_hash
     THEN {} ELSE {plaintext}

-----------------------------------------------------------------------------
(* MemoryTransport.                                                        *)
simulate_connect ==
  /\ connected' = TRUE
  /\ UNCHANGED <<source, marks, manifest, keys, inbox, received, clock, ghost>>

disconnect ==
  /\ connected' = FALSE
  /\ UNCHANGED <<source, marks, manifest, keys, inbox, received, clock, ghost>>

\* SyncTransport::send fails when it is not connected.
delivered(message) == IF connected THEN Append(inbox, message) ELSE inbox

\* The caller encrypts an object of its manifest as its store holds it, and sends it.
send_object(o, key) ==
  /\ o \in manifest /\ o \in DOMAIN source
  /\ Len(inbox) < MaxInbox
  /\ \E payload \in encrypt_sync_object(key, source[o]) :
       /\ inbox' = delivered(payload)
       /\ ghost' = [ghost EXCEPT !.sent = @ \cup {<<o, key, source[o].text>>}]
  /\ UNCHANGED <<source, marks, manifest, keys, connected, received, clock>>

\* Outside the program: one field of a payload is damaged on its way.
damage(i) ==
  /\ \E payload \in {[inbox[i] EXCEPT !.ciphertext = Plain(MaxContent)]}
                    \cup {[inbox[i] EXCEPT !.content_hash = Plain(MaxContent)]}
                    \cup {[inbox[i] EXCEPT !.key_id = id] : id \in KeyIds} :
       inbox' = [inbox EXCEPT ![i] = payload]
  /\ UNCHANGED <<source, marks, manifest, keys, connected, received, clock, ghost>>

\* receive hands out the first message, and a Timeout when there is none; the
\* caller decrypts it with a key it knows and drops it when that fails.
receive(key) ==
  /\ inbox # <<>>
  /\ inbox' = Tail(inbox)
  /\ received' = received \cup {[object |-> [SyncObject(text) EXCEPT !.content_hash = Head(inbox).content_hash],
                                 key |-> key, at |-> clock] :
                                text \in decrypt_payload(key, Head(inbox))}
  /\ UNCHANGED <<source, marks, manifest, keys, connected, clock, ghost>>

tick ==
  /\ clock < MaxTime
  /\ clock' = clock + 1
  /\ UNCHANGED <<source, marks, manifest, keys, connected, inbox, received, ghost>>

Next ==
  \/ \E o \in Objects : \/ put(o) \/ delete(o)
                        \/ \E w \in DataOwnership : mark(o, w)
                        \/ \E key \in keys : send_object(o, key)
  \/ \E id \in KeyIds, bytes \in KeyBytes : new_session_key(id, bytes)
  \/ \E i \in DOMAIN inbox : damage(i)
  \/ \E key \in keys : receive(key)
  \/ take_manifest \/ simulate_connect \/ disconnect \/ tick

Spec == Init /\ [][Next]_tvars

-----------------------------------------------------------------------------
TypeOK ==
  /\ manifest \subseteq Objects /\ DOMAIN source \subseteq Objects
  /\ DOMAIN marks \subseteq Objects
  /\ Len(inbox) <= MaxInbox /\ Cardinality(keys) <= MaxKeys

\* Whatever the transport does to a field of a payload, whichever key is tried
\* and whenever keys expire, the receiver ends up only with whole contents that
\* were sent under the same key bytes, and not after the expiry of the key that
\* was tried (the tag covers the bytes and not the id); a key without
\* bytes carries nothing but the empty content.  What is sent is of objects
\* whose owner the policy admitted when a manifest was taken: one that nobody
\* marked never leaves the device.  A later mark is not looked at again.
TransferSound ==
  /\ \A r \in received :
       /\ verify_hash(r.object)
       /\ \E s \in ghost.sent : s[2].key_bytes = r.key.key_bytes /\ s[3] = r.object.text
       /\ r.at <= r.key.expires_at
       /\ r.key.key_bytes = 0 => r.object.text = Plain(0)
  /\ \A s \in ghost.sent : \E w \in DataOwnership : should_include(w) /\ <<s[1], w>> \in ghost.taken
=============================================================================
