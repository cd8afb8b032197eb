-------------------------- MODULE KeyRegistryProofs --------------------------
(***************************************************************************)
(* Proofs about the registry of keys, for any number of threads, keys and   *)
(* batches: however registrations and lookups interleave, a key has one     *)
(* number and a number one key, for good.                                   *)
(***************************************************************************)
EXTENDS KeyRegistry, TLAPS

PCs == {"idle", "shared", "exclusive", "batch", "find", "got"}
Calls == [pc : PCs, key : Keys \cup {NoKey}, id : Nat, result : Keys \cup {Unknown, NoKey},
          known : SUBSET Keys, left : Seq(Keys), ids : SUBSET (Keys \X Nat)]

(* KeysAgree in parts, and what the calls that are under way must keep.      *)
Types ==
    /\ keys \in Seq(Keys) /\ next_key_id \in Nat
    /\ handed \subseteq Keys \X Nat
    /\ kt \in [KeyThreads -> Calls]
    /\ cachedId = [t \in KeyThreads |-> cachedId[t]]
    /\ cachedKey = [t \in KeyThreads |-> cachedKey[t]]

MapsAgree ==
    /\ next_key_id = Len(keys) /\ next_key_id <= MaxStructuredKeys
    /\ DOMAIN id_to_key = 0 .. next_key_id - 1
    /\ DOMAIN key_to_id = {keys[i] : i \in 1 .. Len(keys)}
    /\ \A i \in DOMAIN id_to_key : id_to_key[i] = keys[i + 1] /\ key_to_id[keys[i + 1]] = i

Registered(h) == h[1] \in DOMAIN key_to_id /\ key_to_id[h[1]] = h[2]
HandedRegistered == \A h \in handed : Registered(h)
InternalHanded == \A i \in 1 .. FirstUserKeyId : <<InternalKeys[i], i - 1>> \in handed

CacheAgrees(t) ==
    /\ \A k \in DOMAIN cachedId[t] : <<k, cachedId[t][k]>> \in handed
    /\ \A i \in DOMAIN cachedKey[t] : i \in DOMAIN id_to_key /\ cachedKey[t][i] = id_to_key[i]

(* A registration keeps its key; a batch has found numbers that hold; and    *)
(* who looks for a number that a line held finds the key it stands for.      *)
CallAgrees(t) ==
    /\ kt[t].pc \in {"shared", "exclusive"} => kt[t].key \in Keys
    /\ kt[t].pc = "batch" => \A h \in kt[t].ids : Registered(h)
    /\ kt[t].pc = "find" => \A k \in kt[t].known : <<k, kt[t].id>> \in handed
    /\ kt[t].pc = "got" => \A k \in kt[t].known : kt[t].result = k

Inv ==
    /\ Types /\ MapsAgree /\ HandedRegistered /\ InternalHanded
    /\ \A t \in KeyThreads : CacheAgrees(t) /\ CallAgrees(t)

LEMMA InvIsEnough == Inv => KeysAgree
  BY DEF Inv, Types, Calls, MapsAgree, HandedRegistered, Registered, CacheAgrees, CallAgrees, KeysAgree, KeyAt

-----------------------------------------------------------------------------
(* The numbers of the internal keys are their places in the list.            *)
LEMMA InternalNumbers ==
    ASSUME NEW i \in 1 .. FirstUserKeyId
    PROVE  InternalId(InternalKeys[i]) = i - 1
  BY KeyRegistryAssumption DEF InternalId, FirstUserKeyId

LEMMA InitInv == KeyInit => Inv
<1> SUFFICES ASSUME KeyInit PROVE Inv
  OBVIOUS
<1> USE KeyRegistryAssumption
<1>0. FirstUserKeyId \in Nat /\ FirstUserKeyId = Len(InternalKeys)
  BY DEF FirstUserKeyId
<1>1. Types
  <2>1. NoKeyCall \in Calls
    BY DEF NoKeyCall, Calls, PCs
  <2>2. handed \subseteq Keys \X Nat
    BY <1>0 DEF KeyInit
  <2> QED BY <1>0, <2>1, <2>2 DEF KeyInit, Types
<1>2. MapsAgree
  BY <1>0, InternalNumbers DEF KeyInit, MapsAgree, Internal
<1>3. HandedRegistered
  BY <1>0, InternalNumbers DEF KeyInit, HandedRegistered, Registered, Internal
<1>4. InternalHanded
  BY DEF KeyInit, InternalHanded
<1>5. ASSUME NEW t \in KeyThreads PROVE CacheAgrees(t) /\ CallAgrees(t)
  BY DEF KeyInit, CacheAgrees, CallAgrees, NoKeyCall
<1> QED BY <1>1, <1>2, <1>3, <1>4, <1>5 DEF Inv

-----------------------------------------------------------------------------
(* Nothing that is registered is ever lost or renumbered.                    *)
Grows ==
    /\ \A k \in DOMAIN key_to_id : k \in DOMAIN key_to_id' /\ key_to_id'[k] = key_to_id[k]
    /\ \A i \in DOMAIN id_to_key : i \in DOMAIN id_to_key' /\ id_to_key'[i] = id_to_key[i]

LEMMA AddsKey ==
    ASSUME NEW k \in Keys, Inv, k \notin DOMAIN key_to_id, next_key_id < MaxStructuredKeys, AddKey(k)
    PROVE  /\ Grows /\ MapsAgree'
           /\ keys' \in Seq(Keys) /\ next_key_id' \in Nat
           /\ k \in DOMAIN key_to_id' /\ key_to_id'[k] = next_key_id
<1> USE KeyRegistryAssumption DEF Inv, Types
<1>1. /\ keys' \in Seq(Keys) /\ next_key_id' \in Nat /\ Len(keys') = Len(keys) + 1
      /\ \A i \in 1 .. Len(keys) : keys'[i] = keys[i]
      /\ keys'[Len(keys) + 1] = k
  BY DEF AddKey
<1>2. /\ DOMAIN key_to_id' = DOMAIN key_to_id \cup {k} /\ key_to_id'[k] = next_key_id
      /\ \A l \in DOMAIN key_to_id : key_to_id'[l] = key_to_id[l]
      /\ DOMAIN id_to_key' = DOMAIN id_to_key \cup {next_key_id} /\ id_to_key'[next_key_id] = k
  BY DEF AddKey, PutKey
<1>3. \A i \in DOMAIN id_to_key : id_to_key'[i] = id_to_key[i]
  BY DEF AddKey, PutKey, MapsAgree
<1>4. Grows
  BY <1>2, <1>3 DEF Grows
<1>5. MapsAgree'
  <2>1. next_key_id' = Len(keys') /\ next_key_id' <= MaxStructuredKeys
    BY <1>1 DEF MapsAgree, AddKey
  <2>2. DOMAIN id_to_key' = 0 .. next_key_id' - 1
    BY <1>2 DEF MapsAgree, AddKey
  <2>3. DOMAIN key_to_id' = {keys'[i] : i \in 1 .. Len(keys')}
    <3>1. 1 .. Len(keys') = (1 .. Len(keys)) \cup {Len(keys) + 1}
      BY <1>1
    <3>2. {keys'[i] : i \in 1 .. Len(keys')} = {keys[i] : i \in 1 .. Len(keys)} \cup {k}
      <4>1. \A i \in 1 .. Len(keys') : keys'[i] = IF i = Len(keys) + 1 THEN k ELSE keys[i]
        BY <3>1, <1>1
      <4>2. Len(keys) + 1 \in 1 .. Len(keys') /\ \A i \in 1 .. Len(keys) : i # Len(keys) + 1
        BY <1>1
      <4> HIDE DEF Inv, Types
      <4> QED BY <3>1, <4>1, <4>2
    <3> QED BY <3>2, <1>2 DEF MapsAgree
  <2>4. ASSUME NEW i \in DOMAIN id_to_key'
        PROVE  id_to_key'[i] = keys'[i + 1] /\ key_to_id'[keys'[i + 1]] = i
    <3>1. CASE i = next_key_id
      BY <3>1, <1>1, <1>2 DEF MapsAgree
    <3>2. CASE i \in DOMAIN id_to_key
      <4>1. i + 1 \in 1 .. Len(keys) /\ keys[i + 1] \in DOMAIN key_to_id
        BY <3>2 DEF MapsAgree
      <4>2. id_to_key[i] = keys[i + 1] /\ key_to_id[keys[i + 1]] = i
        BY <3>2 DEF MapsAgree
      <4>3. keys'[i + 1] = keys[i + 1] /\ id_to_key'[i] = id_to_key[i]
        BY <3>2, <4>1, <1>1, <1>3
      <4>4. key_to_id'[keys[i + 1]] = key_to_id[keys[i + 1]]
        BY <4>1, <1>2
      <4> QED BY <4>2, <4>3, <4>4
    <3> QED BY <3>1, <3>2, <1>2
  <2> QED BY <2>1, <2>2, <2>3, <2>4 DEF MapsAgree
<1> QED BY <1>1, <1>2, <1>4, <1>5

(* A step of t that loses nothing keeps the invariant when what it hands out *)
(* is registered, and its own call and caches agree.                         *)
LEMMA StepKeepsInv ==
    ASSUME NEW t \in KeyThreads, Inv, Grows, MapsAgree', keys' \in Seq(Keys), next_key_id' \in Nat,
           kt' = [kt EXCEPT ![t] = kt'[t]], kt'[t] \in Calls, CallAgrees(t)',
           handed \subseteq handed', handed' \subseteq Keys \X Nat,
           \A h \in handed' \ handed : Registered(h)',
           cachedId' = [cachedId EXCEPT ![t] = cachedId'[t]],
           cachedKey' = [cachedKey EXCEPT ![t] = cachedKey'[t]], CacheAgrees(t)'
    PROVE  Inv'
<1>1. Types'
  BY DEF Inv, Types
<1>2. HandedRegistered'
  BY DEF Inv, HandedRegistered, Registered, Grows
<1>3. InternalHanded'
  BY DEF Inv, InternalHanded
<1>4. ASSUME NEW u \in KeyThreads, u # t PROVE CacheAgrees(u)' /\ CallAgrees(u)'
  <2>1. kt'[u] = kt[u] /\ cachedId'[u] = cachedId[u] /\ cachedKey'[u] = cachedKey[u]
    BY <1>4 DEF Inv, Types
  <2>2. CacheAgrees(u)'
    BY <2>1 DEF Inv, CacheAgrees, Grows
  <2>3. CallAgrees(u)'
    BY <2>1 DEF Inv, CallAgrees, Registered, Grows
  <2> QED BY <2>2, <2>3
<1> QED BY <1>1, <1>2, <1>3, <1>4 DEF Inv

(* The caches of a step that leaves them alone, or remembers a pair it       *)
(* hands out, agree.                                                         *)
LEMMA CachesKept ==
    ASSUME NEW t \in KeyThreads, Inv, Grows, handed \subseteq handed', UNCHANGED cachedKey,
           \/ UNCHANGED cachedId
           \/ \E k, i : Remember(t, k, i) /\ <<k, i>> \in handed'
    PROVE  /\ cachedId' = [cachedId EXCEPT ![t] = cachedId'[t]]
           /\ cachedKey' = [cachedKey EXCEPT ![t] = cachedKey'[t]]
           /\ CacheAgrees(t)'
<1>1. CASE UNCHANGED cachedId
  BY <1>1 DEF Inv, Types, CacheAgrees, Grows
<1>2. ASSUME NEW k, NEW i, Remember(t, k, i), <<k, i>> \in handed'
      PROVE  /\ cachedId' = [cachedId EXCEPT ![t] = cachedId'[t]]
             /\ cachedKey' = [cachedKey EXCEPT ![t] = cachedKey'[t]]
             /\ CacheAgrees(t)'
  <2>1. /\ cachedId' = [cachedId EXCEPT ![t] = cachedId'[t]]
        /\ cachedKey' = [cachedKey EXCEPT ![t] = cachedKey'[t]]
        /\ cachedId'[t] = PutKey(cachedId[t], k, i)
    BY <1>2 DEF Inv, Types, Remember
  <2> QED BY <1>2, <2>1 DEF Inv, CacheAgrees, PutKey, Grows
<1> QED BY <1>1, <1>2

(* A call that returns a registered pair.                                    *)
LEMMA HandKeepsInv ==
    ASSUME NEW t \in KeyThreads, NEW k \in Keys, NEW i \in Nat, Inv, Grows, MapsAgree',
           keys' \in Seq(Keys), next_key_id' \in Nat,
           k \in DOMAIN key_to_id', key_to_id'[k] = i, Hand(t, k, i),
           UNCHANGED cachedKey, UNCHANGED cachedId \/ Remember(t, k, i)
    PROVE  Inv'
<1>1. handed' = handed \cup {<<k, i>>} /\ handed' \subseteq Keys \X Nat
  BY DEF Hand, Inv, Types
<1>2. \A h \in handed' \ handed : Registered(h)'
  BY <1>1 DEF Registered
<1>3. kt' = [kt EXCEPT ![t] = kt'[t]] /\ kt'[t] = NoKeyCall
  BY DEF Hand, KeyBecomes, Inv, Types
<1>4. kt'[t] \in Calls /\ CallAgrees(t)'
  BY <1>3, KeyRegistryAssumption DEF NoKeyCall, Calls, PCs, CallAgrees
<1>5. /\ cachedId' = [cachedId EXCEPT ![t] = cachedId'[t]]
      /\ cachedKey' = [cachedKey EXCEPT ![t] = cachedKey'[t]] /\ CacheAgrees(t)'
  BY <1>1, CachesKept
<1> QED BY <1>1, <1>2, <1>3, <1>4, <1>5, StepKeepsInv

(* A step of t's call that hands out nothing.                                *)
LEMMA CallKeepsInv ==
    ASSUME NEW t \in KeyThreads, Inv, Grows, MapsAgree', keys' \in Seq(Keys), next_key_id' \in Nat,
           kt' = [kt EXCEPT ![t] = kt'[t]], kt'[t] \in Calls, CallAgrees(t)',
           UNCHANGED <<cachedId, cachedKey, handed>>
    PROVE  Inv'
<1>1. handed' \subseteq Keys \X Nat /\ \A h \in handed' \ handed : Registered(h)'
  BY DEF Inv, Types
<1>2. /\ cachedId' = [cachedId EXCEPT ![t] = cachedId'[t]]
      /\ cachedKey' = [cachedKey EXCEPT ![t] = cachedKey'[t]] /\ CacheAgrees(t)'
  BY CachesKept
<1> QED BY <1>1, <1>2, StepKeepsInv

LEMMA SameMaps ==
    ASSUME Inv, UNCHANGED maps
    PROVE  Grows /\ MapsAgree' /\ keys' \in Seq(Keys) /\ next_key_id' \in Nat
  BY DEF Inv, Types, MapsAgree, Grows, maps

(* What the shared map says of a key is a number that was handed out, or can *)
(* be.                                                                       *)
LEMMA MapTypes ==
    ASSUME Inv, NEW k \in DOMAIN key_to_id
    PROVE  k \in Keys /\ key_to_id[k] \in DOMAIN id_to_key /\ id_to_key[key_to_id[k]] = k
           /\ key_to_id[k] \in Nat
<1>1. PICK i \in 1 .. Len(keys) : k = keys[i]
  BY DEF Inv, MapsAgree
<1>2. i - 1 \in DOMAIN id_to_key /\ (i - 1) + 1 = i /\ keys[i] \in Keys /\ i - 1 \in Nat
  BY DEF Inv, MapsAgree, Types
<1>3. key_to_id[keys[i]] = i - 1 /\ id_to_key[i - 1] = keys[i]
  BY <1>2 DEF Inv, MapsAgree
<1> QED BY <1>1, <1>2, <1>3

-----------------------------------------------------------------------------
LEMMA GetOrRegisterInv == ASSUME NEW t \in KeyThreads, NEW k \in Keys, Inv, GetOrRegister(t, k)
                          PROVE  Inv'
<1>0. UNCHANGED <<maps, cachedId, cachedKey>>
  BY DEF GetOrRegister
<1>1. Grows /\ MapsAgree' /\ keys' \in Seq(Keys) /\ next_key_id' \in Nat
  BY <1>0, SameMaps
<1>2. CASE k \in Internal
  <2>1. PICK i \in 1 .. FirstUserKeyId : k = InternalKeys[i]
    BY <1>2 DEF Internal
  <2>2. InternalId(k) = i - 1 /\ <<k, i - 1>> \in handed
    BY <2>1, InternalNumbers DEF Inv, InternalHanded
  <2>3. i - 1 \in Nat /\ k \in DOMAIN key_to_id' /\ key_to_id'[k] = i - 1
    BY <2>2, <1>0, KeyRegistryAssumption DEF Inv, HandedRegistered, Registered, maps, FirstUserKeyId
  <2>4. Hand(t, k, i - 1)
    BY <1>2, <2>2 DEF GetOrRegister
  <2> QED BY <1>0, <1>1, <2>3, <2>4, HandKeepsInv
<1>3. CASE k \notin Internal /\ k \in DOMAIN cachedId[t]
  <2>1. <<k, cachedId[t][k]>> \in handed
    BY <1>3 DEF Inv, CacheAgrees
  <2>2. PICK i : i = cachedId[t][k]
    OBVIOUS
  <2>3. i \in Nat /\ k \in DOMAIN key_to_id' /\ key_to_id'[k] = i
    BY <2>1, <2>2, <1>0 DEF Inv, Types, HandedRegistered, Registered, maps
  <2>4. Hand(t, k, i)
    BY <1>3, <2>2 DEF GetOrRegister
  <2> QED BY <1>0, <1>1, <2>3, <2>4, HandKeepsInv
<1>4. CASE k \notin Internal /\ k \notin DOMAIN cachedId[t]
  <2>1. KeyBecomes(t, [NoKeyCall EXCEPT !.pc = "shared", !.key = k]) /\ UNCHANGED handed
    BY <1>4 DEF GetOrRegister
  <2>2. /\ kt' = [kt EXCEPT ![t] = kt'[t]]
        /\ kt'[t] = [NoKeyCall EXCEPT !.pc = "shared", !.key = k]
    BY <2>1 DEF KeyBecomes, Inv, Types
  <2>3. kt'[t] = [pc |-> "shared", key |-> k, id |-> 0, result |-> NoKey, known |-> {},
                  left |-> <<>>, ids |-> {}]
    BY <2>2 DEF NoKeyCall
  <2>4. kt'[t] \in Calls
    BY <2>3 DEF Calls, PCs
  <2>5. CallAgrees(t)'
    BY <2>3 DEF CallAgrees
  <2> QED BY <1>0, <1>1, <2>4, <2>5, <2>1, <2>2, CallKeepsInv
<1> QED BY <1>2, <1>3, <1>4

(* Both looks under a lock hand out what the map says.                       *)
LEMMA FoundInv ==
    ASSUME NEW t \in KeyThreads, Inv, kt[t].key \in DOMAIN key_to_id,
           Remember(t, kt[t].key, key_to_id[kt[t].key]), Hand(t, kt[t].key, key_to_id[kt[t].key]),
           UNCHANGED <<maps, cachedKey>>
    PROVE  Inv'
<1>1. PICK k, i : k = kt[t].key /\ i = key_to_id[k]
  OBVIOUS
<1>2. k \in Keys /\ i \in Nat /\ k \in DOMAIN key_to_id' /\ key_to_id'[k] = i
  BY <1>1, MapTypes DEF maps
<1>3. Remember(t, k, i) /\ Hand(t, k, i)
  BY <1>1
<1> QED BY <1>2, <1>3, SameMaps, HandKeepsInv

LEMMA LookSharedInv == ASSUME NEW t \in KeyThreads, Inv, LookShared(t)
                       PROVE  Inv'
<1>1. CASE kt[t].key \in DOMAIN key_to_id
  BY <1>1, FoundInv DEF LookShared
<1>2. CASE kt[t].key \notin DOMAIN key_to_id
  <2>1. KeyBecomes(t, [kt[t] EXCEPT !.pc = "exclusive"]) /\ UNCHANGED <<maps, cachedId, cachedKey, handed>>
    BY <1>2 DEF LookShared
  <2>2. kt' = [kt EXCEPT ![t] = kt'[t]] /\ kt'[t] = [kt[t] EXCEPT !.pc = "exclusive"] /\ kt[t] \in Calls
    BY <2>1 DEF KeyBecomes, Inv, Types
  <2>3. kt[t].key \in Keys
    BY DEF LookShared, KeyAt, Inv, CallAgrees
  <2>4. kt'[t] \in Calls /\ CallAgrees(t)'
    BY <2>2, <2>3 DEF Calls, PCs, CallAgrees
  <2> QED BY <2>1, <2>2, <2>4, SameMaps, CallKeepsInv
<1> QED BY <1>1, <1>2

LEMMA RegisterKeyInv == ASSUME NEW t \in KeyThreads, Inv, RegisterKey(t)
                        PROVE  Inv'
<1>1. PICK k, i : k = kt[t].key /\ i = next_key_id
  OBVIOUS
<1>2. k \in Keys /\ i \in Nat
  BY <1>1 DEF RegisterKey, KeyAt, Inv, Types, CallAgrees
<1>3. /\ k \notin DOMAIN key_to_id /\ next_key_id < MaxStructuredKeys /\ AddKey(k)
      /\ Remember(t, k, i) /\ Hand(t, k, i) /\ UNCHANGED cachedKey
  BY <1>1 DEF RegisterKey
<1>4. /\ Grows /\ MapsAgree' /\ keys' \in Seq(Keys) /\ next_key_id' \in Nat
      /\ k \in DOMAIN key_to_id' /\ key_to_id'[k] = i
  BY <1>1, <1>2, <1>3, AddsKey
<1> QED BY <1>2, <1>3, <1>4, HandKeepsInv

(* A call that ends, without an answer or with one that was used.            *)
LEMMA EndsInv ==
    ASSUME NEW t \in KeyThreads, Inv, KeyBecomes(t, NoKeyCall), UNCHANGED <<maps, cachedId, cachedKey, handed>>
    PROVE  Inv'
<1>1. kt' = [kt EXCEPT ![t] = kt'[t]] /\ kt'[t] = NoKeyCall
  BY DEF KeyBecomes, Inv, Types
<1>2. kt'[t] \in Calls /\ CallAgrees(t)'
  BY <1>1 DEF NoKeyCall, Calls, PCs, CallAgrees
<1> QED BY <1>1, <1>2, SameMaps, CallKeepsInv

LEMMA BatchRegisterInv == ASSUME NEW t \in KeyThreads, NEW batch \in Batches, Inv, BatchRegister(t, batch)
                          PROVE  Inv'
<1>1. /\ kt' = [kt EXCEPT ![t] = kt'[t]]
      /\ kt'[t] = [NoKeyCall EXCEPT !.pc = "batch", !.left = batch]
  BY DEF BatchRegister, KeyBecomes, Inv, Types
<1>2. batch \in Seq(Keys)
  BY KeyRegistryAssumption
<1>3. kt'[t] = [pc |-> "batch", key |-> NoKey, id |-> 0, result |-> NoKey, known |-> {},
                left |-> batch, ids |-> {}]
  BY <1>1 DEF NoKeyCall
<1>4. kt'[t] \in Calls
  BY <1>2, <1>3 DEF Calls, PCs
<1>5. CallAgrees(t)'
  BY <1>3 DEF CallAgrees
<1> QED BY <1>1, <1>4, <1>5, SameMaps, CallKeepsInv DEF BatchRegister

(* A key of a batch gets the number that the map has for it.                 *)
LEMMA NumberedAgrees ==
    ASSUME NEW t \in KeyThreads, NEW k \in Keys, NEW i \in Nat, Inv, Grows, InBatch(t, k),
           KeyBecomes(t, Numbered(t, i)), k \in DOMAIN key_to_id', key_to_id'[k] = i
    PROVE  kt' = [kt EXCEPT ![t] = kt'[t]] /\ kt'[t] \in Calls /\ CallAgrees(t)'
<1>1. kt' = [kt EXCEPT ![t] = kt'[t]] /\ kt'[t] = Numbered(t, i) /\ kt[t] \in Calls
  BY DEF KeyBecomes, Inv, Types
<1>2. /\ kt[t].pc = "batch" /\ kt[t].left \in Seq(Keys) /\ kt[t].left # <<>> /\ Head(kt[t].left) = k
      /\ kt[t].ids \subseteq Keys \X Nat
  BY <1>1 DEF InBatch, KeyAt, Calls
<1>3. Tail(kt[t].left) \in Seq(Keys)
  BY <1>2
<1>4. /\ kt'[t].pc = "batch" /\ kt'[t].ids = kt[t].ids \cup {<<k, i>>}
      /\ kt'[t] \in Calls
  <2>1. kt'[t] = [kt[t] EXCEPT !.left = Tail(kt[t].left), !.ids = kt[t].ids \cup {<<k, i>>}]
    BY <1>1, <1>2 DEF Numbered
  <2>2. kt[t].ids \cup {<<k, i>>} \in SUBSET (Keys \X Nat)
    BY <1>2
  <2>3. kt'[t].ids = kt[t].ids \cup {<<k, i>>} /\ kt'[t].pc = "batch"
    BY <2>1, <1>1, <1>2 DEF Calls
  <2>4. kt'[t] \in Calls
    BY <2>1, <2>2, <1>1, <1>3 DEF Calls
  <2> QED BY <2>3, <2>4
<1>5. \A h \in kt'[t].ids : Registered(h)'
  <2>1. \A h \in kt[t].ids : Registered(h)
    BY <1>2 DEF Inv, CallAgrees
  <2>2. \A h \in kt[t].ids : Registered(h)'
    BY <2>1 DEF Registered, Grows
  <2>3. Registered(<<k, i>>)'
    BY DEF Registered
  <2> QED BY <1>4, <2>2, <2>3
<1> QED BY <1>1, <1>4, <1>5 DEF CallAgrees

LEMMA BatchStepInv == ASSUME NEW t \in KeyThreads, NEW k \in Keys, Inv,
                             BatchFound(t, k) \/ BatchAdds(t, k) \/ BatchThrows(t, k)
                      PROVE  Inv'
<1>1. CASE BatchFound(t, k)
  <2>1. PICK i : i = key_to_id[k]
    OBVIOUS
  <2>2. i \in Nat /\ k \in DOMAIN key_to_id' /\ key_to_id'[k] = i /\ KeyBecomes(t, Numbered(t, i))
    BY <1>1, <2>1, MapTypes DEF BatchFound, maps
  <2>3. Grows /\ MapsAgree' /\ keys' \in Seq(Keys) /\ next_key_id' \in Nat
    BY <1>1, SameMaps DEF BatchFound
  <2> QED BY <1>1, <2>2, <2>3, NumberedAgrees, CallKeepsInv DEF BatchFound
<1>2. CASE BatchAdds(t, k)
  <2>1. PICK i : i = next_key_id
    OBVIOUS
  <2>2. /\ i \in Nat /\ k \notin DOMAIN key_to_id /\ next_key_id < MaxStructuredKeys /\ AddKey(k)
        /\ KeyBecomes(t, Numbered(t, i))
    BY <1>2, <2>1 DEF BatchAdds, Inv, Types
  <2>3. /\ Grows /\ MapsAgree' /\ keys' \in Seq(Keys) /\ next_key_id' \in Nat
        /\ k \in DOMAIN key_to_id' /\ key_to_id'[k] = i
    BY <2>1, <2>2, AddsKey
  <2> QED BY <1>2, <2>2, <2>3, NumberedAgrees, CallKeepsInv DEF BatchAdds
<1>3. CASE BatchThrows(t, k)
  BY <1>3, EndsInv DEF BatchThrows
<1> QED BY <1>1, <1>2, <1>3

LEMMA BatchReturnsInv == ASSUME NEW t \in KeyThreads, Inv, BatchReturns(t)
                         PROVE  Inv'
<1>1. Grows /\ MapsAgree' /\ keys' \in Seq(Keys) /\ next_key_id' \in Nat
  BY SameMaps DEF BatchReturns
<1>2. kt' = [kt EXCEPT ![t] = kt'[t]] /\ kt'[t] = NoKeyCall /\ kt[t] \in Calls
  BY DEF BatchReturns, KeyBecomes, Inv, Types
<1>3. kt'[t] \in Calls /\ CallAgrees(t)'
  BY <1>2 DEF NoKeyCall, Calls, PCs, CallAgrees
<1>4. /\ handed' = handed \cup kt[t].ids /\ handed' \subseteq Keys \X Nat
      /\ \A h \in handed' \ handed : Registered(h)'
  BY <1>2 DEF BatchReturns, KeyAt, Calls, Inv, Types, CallAgrees, Registered, maps
<1>5. /\ cachedId' = [cachedId EXCEPT ![t] = cachedId'[t]]
      /\ cachedKey' = [cachedKey EXCEPT ![t] = cachedKey'[t]] /\ CacheAgrees(t)'
  BY <1>1, <1>4, CachesKept DEF BatchReturns
<1> QED BY <1>1, <1>2, <1>3, <1>4, <1>5, StepKeepsInv

-----------------------------------------------------------------------------
(* Whoever holds a key's number finds the key under it.                      *)
LEMMA KnownIsFound ==
    ASSUME Inv, NEW k \in Keys, NEW i \in Nat, <<k, i>> \in handed
    PROVE  i \in DOMAIN id_to_key /\ id_to_key[i] = k /\ i < next_key_id
<1>1. k \in DOMAIN key_to_id /\ key_to_id[k] = i
  BY DEF Inv, HandedRegistered, Registered
<1>2. i \in DOMAIN id_to_key /\ id_to_key[i] = k
  BY <1>1, MapTypes
<1> QED BY <1>2 DEF Inv, Types, MapsAgree

Asked(i, pc, result, known) == [pc |-> pc, key |-> NoKey, id |-> i, result |-> result, known |-> known,
                                left |-> <<>>, ids |-> {}]

LEMMA GetKeyInv == ASSUME NEW t \in KeyThreads, NEW i \in 0 .. MaxStructuredKeys, Inv, GetKey(t, i)
                   PROVE  Inv'
<1>0. i \in Nat /\ UNCHANGED <<maps, cachedId, cachedKey, handed>>
  BY KeyRegistryAssumption DEF GetKey
<1>1. Grows /\ MapsAgree' /\ keys' \in Seq(Keys) /\ next_key_id' \in Nat
  BY <1>0, SameMaps
<1>2. PICK known : known = {k \in UserKeys : <<k, i>> \in handed}
  OBVIOUS
<1>3. \A k \in known : k \in Keys /\ <<k, i>> \in handed /\ i \in DOMAIN id_to_key /\ id_to_key[i] = k /\ i < next_key_id
  BY <1>0, <1>2, KnownIsFound DEF UserKeys
<1>4. kt' = [kt EXCEPT ![t] = kt'[t]]
  BY DEF GetKey, KeyBecomes, Inv, Types
<1>5. kt'[t] = IF i >= next_key_id THEN Asked(i, "got", Unknown, known)
               ELSE IF i \in DOMAIN cachedKey[t] THEN Asked(i, "got", cachedKey[t][i], known)
               ELSE Asked(i, "find", NoKey, known)
  <2>1. KeyBecomes(t, IF i >= next_key_id THEN Asked(i, "got", Unknown, known)
                      ELSE IF i \in DOMAIN cachedKey[t] THEN Asked(i, "got", cachedKey[t][i], known)
                      ELSE Asked(i, "find", NoKey, known))
    BY <1>2 DEF GetKey, NoKeyCall, Asked
  <2> QED BY <2>1 DEF KeyBecomes, Inv, Types
<1>6. ASSUME NEW result \in Keys \cup {Unknown, NoKey}, NEW pc \in {"got", "find"}
      PROVE  Asked(i, pc, result, known) \in Calls
  <2>1. known \in SUBSET Keys
    BY <1>3
  <2>2. pc \in PCs /\ i \in Nat
    BY <1>0 DEF PCs
  <2>3. <<>> \in Seq(Keys) /\ {} \in SUBSET (Keys \X Nat)
    OBVIOUS
  <2> QED BY <2>1, <2>2, <2>3 DEF Asked, Calls
<1>7. \A j \in DOMAIN id_to_key : id_to_key[j] \in Keys
  BY DEF Inv, Types, MapsAgree
<1>8. kt'[t] \in Calls /\ CallAgrees(t)'
  <2>1. CASE i >= next_key_id
    <3>1. known = {}
      <4>1. ~(i < next_key_id)
        BY <2>1, <1>0 DEF Inv, Types
      <4> QED BY <4>1, <1>3
    <3>2. kt'[t] = Asked(i, "got", Unknown, known)
      BY <2>1, <1>5
    <3>3. kt'[t] \in Calls
      BY <3>2, <1>6
    <3>4. CallAgrees(t)'
      BY <3>1, <3>2 DEF CallAgrees, Asked
    <3> QED BY <3>3, <3>4
  <2>2. CASE ~(i >= next_key_id) /\ i \in DOMAIN cachedKey[t]
    <3>1. PICK result : result = cachedKey[t][i]
      OBVIOUS
    <3>2. result = id_to_key[i] /\ result \in Keys
      BY <2>2, <3>1, <1>7 DEF Inv, CacheAgrees
    <3>3. kt'[t] = Asked(i, "got", result, known)
      BY <2>2, <3>1, <1>5
    <3>4. kt'[t] \in Calls
      BY <3>2, <3>3, <1>6
    <3>5. CallAgrees(t)'
      <4>1. kt'[t].pc = "got" /\ kt'[t].known = known /\ kt'[t].result = result
        BY <3>3 DEF Asked
      <4> QED BY <4>1, <3>2, <1>3 DEF CallAgrees
    <3> QED BY <3>4, <3>5
  <2>3. CASE ~(i >= next_key_id) /\ i \notin DOMAIN cachedKey[t]
    <3>1. kt'[t] = Asked(i, "find", NoKey, known)
      BY <2>3, <1>5
    <3>2. kt'[t] \in Calls
      BY <3>1, <1>6
    <3>3. CallAgrees(t)'
      BY <3>1, <1>0, <1>3 DEF CallAgrees, Asked
    <3> QED BY <3>2, <3>3
  <2> QED BY <2>1, <2>2, <2>3
<1> QED BY <1>0, <1>1, <1>4, <1>8, CallKeepsInv

LEMMA FindKeyInv == ASSUME NEW t \in KeyThreads, Inv, FindKey(t)
                    PROVE  Inv'
<1>1. PICK i : i = kt[t].id
  OBVIOUS
<1>2. kt[t] \in Calls /\ i \in Nat /\ kt[t].pc = "find"
  BY <1>1 DEF FindKey, KeyAt, Inv, Types, Calls
<1>3. Grows /\ MapsAgree' /\ keys' \in Seq(Keys) /\ next_key_id' \in Nat /\ UNCHANGED <<maps, cachedId, handed>>
  BY SameMaps DEF FindKey
<1>4. \A k \in kt[t].known : i \in DOMAIN id_to_key /\ id_to_key[i] = k
  BY <1>1, <1>2, KnownIsFound DEF Inv, CallAgrees, Calls
<1>5. \A j \in DOMAIN id_to_key : id_to_key[j] \in Keys
  BY DEF Inv, Types, MapsAgree
<1>6. /\ kt' = [kt EXCEPT ![t] = kt'[t]]
      /\ kt'[t] = [kt[t] EXCEPT !.pc = "got", !.result = IF i \in DOMAIN id_to_key THEN id_to_key[i] ELSE Unknown]
  BY <1>1 DEF FindKey, KeyBecomes, Inv, Types
<1>7. kt'[t] \in Calls /\ CallAgrees(t)'
  BY <1>1, <1>2, <1>3, <1>4, <1>5, <1>6 DEF Calls, PCs, CallAgrees
<1>8. /\ cachedId' = [cachedId EXCEPT ![t] = cachedId'[t]]
      /\ cachedKey' = [cachedKey EXCEPT ![t] = cachedKey'[t]] /\ CacheAgrees(t)'
  <2>1. CASE i \in DOMAIN id_to_key
    <3>1. cachedKey' = [cachedKey EXCEPT ![t] = cachedKey'[t]] /\ cachedKey'[t] = PutKey(cachedKey[t], i, id_to_key[i])
      BY <1>1, <2>1 DEF FindKey, Inv, Types
    <3> QED BY <1>3, <2>1, <3>1 DEF Inv, Types, CacheAgrees, PutKey, maps
  <2>2. CASE i \notin DOMAIN id_to_key
    BY <1>1, <1>3, <2>2, CachesKept DEF FindKey
  <2> QED BY <2>1, <2>2
<1>9. handed \subseteq handed' /\ handed' \subseteq Keys \X Nat /\ \A h \in handed' \ handed : Registered(h)'
  BY <1>3 DEF Inv, Types
<1> QED BY <1>3, <1>6, <1>7, <1>8, <1>9, StepKeepsInv

-----------------------------------------------------------------------------
LEMMA NextInv == ASSUME Inv, [KeyNext]_keyVars
                 PROVE  Inv'
<1>1. CASE UNCHANGED keyVars
  <2>1. Grows /\ MapsAgree' /\ keys' \in Seq(Keys) /\ next_key_id' \in Nat
    BY <1>1, SameMaps DEF keyVars, maps
  <2>2. Types' /\ HandedRegistered' /\ InternalHanded'
    BY <1>1 DEF keyVars, Inv, Types, HandedRegistered, Registered, InternalHanded
  <2>3. ASSUME NEW t \in KeyThreads PROVE CacheAgrees(t)' /\ CallAgrees(t)'
    BY <1>1 DEF keyVars, Inv, CacheAgrees, CallAgrees, Registered
  <2> QED BY <2>1, <2>2, <2>3 DEF Inv
<1>2. ASSUME NEW t \in KeyThreads, KeySteps(t) PROVE Inv'
  <2>1. CASE \E k \in Keys : GetOrRegister(t, k)
    BY <2>1, GetOrRegisterInv
  <2>2. CASE LookShared(t)
    BY <2>2, LookSharedInv
  <2>3. CASE FoundAfterAll(t)
    BY <2>3, FoundInv DEF FoundAfterAll
  <2>4. CASE RegisterKey(t)
    BY <2>4, RegisterKeyInv
  <2>5. CASE TooManyKeys(t) \/ UseKey(t)
    BY <2>5, EndsInv DEF TooManyKeys, UseKey
  <2>6. CASE \E batch \in Batches : BatchRegister(t, batch)
    BY <2>6, BatchRegisterInv
  <2>7. CASE \E k \in Keys : BatchFound(t, k) \/ BatchAdds(t, k) \/ BatchThrows(t, k)
    BY <2>7, BatchStepInv
  <2>8. CASE BatchReturns(t)
    BY <2>8, BatchReturnsInv
  <2>9. CASE \E i \in 0 .. MaxStructuredKeys : GetKey(t, i)
    BY <2>9, GetKeyInv
  <2>10. CASE FindKey(t)
    BY <2>10, FindKeyInv
  <2> QED BY <1>2, <2>1, <2>2, <2>3, <2>4, <2>5, <2>6, <2>7, <2>8, <2>9, <2>10 DEF KeySteps
<1> QED BY <1>1, <1>2 DEF KeyNext

(* In every behaviour of the registry the vector, both maps, the caches and  *)
(* every pair that a caller was given agree, and a number that a line holds  *)
(* is shown as its key (get_or_register_key, batch_register, get_key).       *)
THEOREM KeysAlwaysAgree == KeySpec => []KeysAgree
<1>1. KeyInit => Inv
  BY InitInv
<1>2. Inv /\ [KeyNext]_keyVars => Inv'
  BY NextInv
<1> QED BY <1>1, <1>2, InvIsEnough, PTL DEF KeySpec

(* A key that is registered keeps its number for good, and a number its key. *)
THEOREM NothingRenumbered == KeySpec => [][Grows]_keyVars
<1>1. Inv /\ [KeyNext]_keyVars => [Grows]_keyVars
  <2> SUFFICES ASSUME Inv, KeyNext PROVE Grows
    OBVIOUS
  <2>1. PICK t \in KeyThreads : KeySteps(t)
    BY DEF KeyNext
  <2>2. CASE UNCHANGED maps
    BY <2>2, SameMaps
  <2>3. CASE RegisterKey(t)
    <3>1. PICK k : k = kt[t].key
      OBVIOUS
    <3>2. k \in Keys /\ k \notin DOMAIN key_to_id /\ next_key_id < MaxStructuredKeys /\ AddKey(k)
      BY <2>3, <3>1 DEF RegisterKey, KeyAt, Inv, CallAgrees
    <3> QED BY <3>2, AddsKey
  <2>4. CASE \E k \in Keys : BatchAdds(t, k)
    BY <2>4, AddsKey DEF BatchAdds
  <2> QED BY <2>1, <2>2, <2>3, <2>4 DEF KeySteps, GetOrRegister, LookShared, FoundAfterAll, TooManyKeys,
             BatchRegister, BatchFound, BatchThrows, BatchReturns, GetKey, FindKey, UseKey
<1>2. KeyInit => Inv
  BY InitInv
<1>3. Inv /\ [KeyNext]_keyVars => Inv'
  BY NextInv
<1> QED BY <1>1, <1>2, <1>3, PTL DEF KeySpec
=============================================================================
