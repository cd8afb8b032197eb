----------------------------- MODULE KeyRegistry -----------------------------
(* structured_log_key_registry: keys of structured lines and their numbers.  *)
(* A thread looks in its own caches, then in the shared maps under a shared  *)
(* lock, and registers a key under the exclusive lock.  The lines that hold  *)
(* the numbers are read by other threads, which ask for the key again.       *)
EXTENDS Naturals, Sequences

CONSTANTS KeyThreads,
          Keys,
          InternalKeys,     \* those with fixed numbers, in their order
          MaxStructuredKeys, \* MAX_STRUCTURED_KEYS
          Batches,          \* bound: the lists of keys that batch_register() is called with
          Unknown, NoKey

ASSUME KeyRegistryAssumption ==
    /\ InternalKeys \in Seq(Keys)
    /\ \A i, j \in 1 .. Len(InternalKeys) : InternalKeys[i] = InternalKeys[j] => i = j
    /\ Batches \subseteq Seq(Keys)
    /\ MaxStructuredKeys \in Nat /\ MaxStructuredKeys >= Len(InternalKeys)
    /\ Unknown \notin Keys /\ NoKey \notin Keys

VARIABLES keys,       \* keys_: the key of number i is keys[i + 1]
          next_key_id,
          key_to_id, id_to_key,  \* the shared maps
          cachedId, cachedKey,   \* each thread's caches
          kt,         \* each thread's call, and of a batch the keys left and the numbers found
          handed      \* the pairs <<key, number>> that callers were given

keyVars == <<keys, next_key_id, key_to_id, id_to_key, cachedId, cachedKey, kt, handed>>
maps == <<keys, next_key_id, key_to_id, id_to_key>>

FirstUserKeyId == Len(InternalKeys)   \* FIRST_USER_KEY_ID
Internal == {InternalKeys[i] : i \in 1 .. FirstUserKeyId}
UserKeys == Keys \ Internal
InternalId(k) == (CHOOSE i \in 1 .. FirstUserKeyId : InternalKeys[i] = k) - 1

NoKeyCall == [pc |-> "idle", key |-> NoKey, id |-> 0, result |-> NoKey, known |-> {},
              left |-> <<>>, ids |-> {}]

(* Maps are functions from what they hold.                                   *)
PutKey(f, x, y) == [z \in DOMAIN f \cup {x} |-> IF z = x THEN y ELSE f[z]]

KeyInit ==
    /\ keys = InternalKeys /\ next_key_id = FirstUserKeyId
    /\ key_to_id = [k \in Internal |-> InternalId(k)]
    /\ id_to_key = [i \in 0 .. FirstUserKeyId - 1 |-> InternalKeys[i + 1]]
    /\ cachedId = [t \in KeyThreads |-> [k \in {} |-> 0]]
    /\ cachedKey = [t \in KeyThreads |-> [i \in {} |-> NoKey]]
    /\ kt = [t \in KeyThreads |-> NoKeyCall]
    /\ handed = {<<InternalKeys[i], i - 1>> : i \in 1 .. FirstUserKeyId}

KeyAt(t, pc) == kt[t].pc = pc
NoBatch == \A t \in KeyThreads : ~KeyAt(t, "batch")  \* nobody holds the exclusive lock
KeyBecomes(t, call) == kt' = [kt EXCEPT ![t] = call]
Hand(t, k, i) == /\ handed' = handed \cup {<<k, i>>}
                 /\ KeyBecomes(t, NoKeyCall)
Remember(t, k, i) == cachedId' = [cachedId EXCEPT ![t] = PutKey(@, k, i)]

(* get_or_register_key(key): its own number, or that of the thread's cache.  *)
GetOrRegister(t, k) ==
    /\ KeyAt(t, "idle")
    /\ IF k \in Internal THEN Hand(t, k, InternalId(k))
       ELSE IF k \in DOMAIN cachedId[t] THEN Hand(t, k, cachedId[t][k])
       ELSE KeyBecomes(t, [NoKeyCall EXCEPT !.pc = "shared", !.key = k]) /\ UNCHANGED handed
    /\ UNCHANGED <<maps, cachedId, cachedKey>>

LookShared(t) ==
    LET k == kt[t].key IN
    /\ KeyAt(t, "shared") /\ NoBatch
    /\ IF k \in DOMAIN key_to_id
       THEN Remember(t, k, key_to_id[k]) /\ Hand(t, k, key_to_id[k])
       ELSE KeyBecomes(t, [kt[t] EXCEPT !.pc = "exclusive"]) /\ UNCHANGED <<cachedId, handed>>
    /\ UNCHANGED <<maps, cachedKey>>

(* Registering k: the next number, in the vector and both maps.              *)
AddKey(k) ==
    /\ keys' = Append(keys, k)
    /\ next_key_id' = next_key_id + 1
    /\ key_to_id' = PutKey(key_to_id, k, next_key_id)
    /\ id_to_key' = PutKey(id_to_key, next_key_id, k)

(* Under the exclusive lock: look again, then register.                      *)
FoundAfterAll(t) ==
    LET k == kt[t].key IN
    /\ KeyAt(t, "exclusive") /\ NoBatch /\ k \in DOMAIN key_to_id
    /\ Remember(t, k, key_to_id[k]) /\ Hand(t, k, key_to_id[k])
    /\ UNCHANGED <<maps, cachedKey>>

RegisterUnseen(t) ==  \* (mutant) no second look under the exclusive lock
    /\ KeyAt(t, "exclusive") /\ NoBatch /\ next_key_id < MaxStructuredKeys
    /\ AddKey(kt[t].key)
    /\ Remember(t, kt[t].key, next_key_id) /\ Hand(t, kt[t].key, next_key_id)
    /\ UNCHANGED cachedKey

RegisterKey(t) ==
    LET k == kt[t].key IN
    /\ KeyAt(t, "exclusive") /\ NoBatch
    /\ k \notin DOMAIN key_to_id /\ next_key_id < MaxStructuredKeys
    /\ AddKey(k)
    /\ Remember(t, k, next_key_id) /\ Hand(t, k, next_key_id)
    /\ UNCHANGED cachedKey

(* "Too many structured log keys" is thrown.                                 *)
TooManyKeys(t) ==
    /\ KeyAt(t, "exclusive") /\ NoBatch
    /\ kt[t].key \notin DOMAIN key_to_id /\ next_key_id >= MaxStructuredKeys
    /\ KeyBecomes(t, NoKeyCall)
    /\ UNCHANGED <<maps, cachedId, cachedKey, handed>>

(* batch_register(keys) holds the exclusive lock from its first key to its   *)
(* last: only the comparison of get_key() still sees what it does.           *)
BatchRegister(t, batch) ==
    /\ KeyAt(t, "idle") /\ NoBatch
    /\ KeyBecomes(t, [NoKeyCall EXCEPT !.pc = "batch", !.left = batch])
    /\ UNCHANGED <<maps, cachedId, cachedKey, handed>>

Numbered(t, i) == [kt[t] EXCEPT !.left = Tail(@), !.ids = @ \cup {<<Head(kt[t].left), i>>}]
InBatch(t, k) == KeyAt(t, "batch") /\ kt[t].left # <<>> /\ k = Head(kt[t].left)

BatchFound(t, k) ==
    /\ InBatch(t, k) /\ k \in DOMAIN key_to_id
    /\ KeyBecomes(t, Numbered(t, key_to_id[k]))
    /\ UNCHANGED <<maps, cachedId, cachedKey, handed>>

BatchAdds(t, k) ==
    /\ InBatch(t, k) /\ k \notin DOMAIN key_to_id /\ next_key_id < MaxStructuredKeys
    /\ AddKey(k)
    /\ KeyBecomes(t, Numbered(t, next_key_id))
    /\ UNCHANGED <<cachedId, cachedKey, handed>>

BatchThrows(t, k) ==
    /\ InBatch(t, k) /\ k \notin DOMAIN key_to_id /\ next_key_id >= MaxStructuredKeys
    /\ KeyBecomes(t, NoKeyCall)
    /\ UNCHANGED <<maps, cachedId, cachedKey, handed>>

BatchReturns(t) ==
    /\ KeyAt(t, "batch") /\ kt[t].left = <<>>
    /\ handed' = handed \cup kt[t].ids
    /\ KeyBecomes(t, NoKeyCall)
    /\ UNCHANGED <<maps, cachedId, cachedKey>>

-----------------------------------------------------------------------------
(* get_key(id).  `known': the keys that callers held the number for when it  *)
(* began.                                                                    *)
GetKey(t, i) ==
    LET call == [NoKeyCall EXCEPT !.id = i, !.known = {k \in UserKeys : <<k, i>> \in handed}] IN
    /\ KeyAt(t, "idle") /\ i >= FirstUserKeyId
    /\ KeyBecomes(t, IF i >= next_key_id THEN [call EXCEPT !.pc = "got", !.result = Unknown]
                  ELSE IF i \in DOMAIN cachedKey[t] THEN [call EXCEPT !.pc = "got", !.result = cachedKey[t][i]]
                  ELSE [call EXCEPT !.pc = "find"])
    /\ UNCHANGED <<maps, cachedId, cachedKey, handed>>

FindKey(t) ==
    LET i == kt[t].id
        found == i \in DOMAIN id_to_key IN
    /\ KeyAt(t, "find") /\ NoBatch
    /\ cachedKey' = IF found THEN [cachedKey EXCEPT ![t] = PutKey(@, i, id_to_key[i])] ELSE cachedKey
    /\ KeyBecomes(t, [kt[t] EXCEPT !.pc = "got", !.result = IF found THEN id_to_key[i] ELSE Unknown])
    /\ UNCHANGED <<maps, cachedId, handed>>

UseKey(t) ==
    /\ KeyAt(t, "got")
    /\ KeyBecomes(t, NoKeyCall)
    /\ UNCHANGED <<maps, cachedId, cachedKey, handed>>

KeySteps(t) ==
    \/ \E k \in Keys : GetOrRegister(t, k)
    \/ LookShared(t) \/ FoundAfterAll(t) \/ RegisterKey(t) \/ TooManyKeys(t)
    \/ \E batch \in Batches : BatchRegister(t, batch)
    \/ \E k \in Keys : BatchFound(t, k) \/ BatchAdds(t, k) \/ BatchThrows(t, k)
    \/ BatchReturns(t)
    \/ \E i \in 0 .. MaxStructuredKeys : GetKey(t, i)
    \/ FindKey(t) \/ UseKey(t)

KeyNext == \E t \in KeyThreads : KeySteps(t)
KeySpec == KeyInit /\ [][KeyNext]_keyVars

-----------------------------------------------------------------------------
(* A key has one number and a number one key, for good, whichever threads    *)
(* register it at once: the vector, both maps, every thread's cache and all  *)
(* that callers were ever given agree.  A number that a line already holds   *)
(* is never shown as "unknown", however late its reader asks                 *)
(* (get_or_register_key, batch_register, get_key).                           *)
KeysAgree ==
    /\ next_key_id = Len(keys) /\ next_key_id <= MaxStructuredKeys
    /\ DOMAIN id_to_key = 0 .. next_key_id - 1
    /\ DOMAIN key_to_id = {keys[i] : i \in 1 .. Len(keys)}
    /\ \A i \in DOMAIN id_to_key : id_to_key[i] = keys[i + 1] /\ key_to_id[keys[i + 1]] = i
    /\ \A h \in handed : h[1] \in DOMAIN key_to_id /\ key_to_id[h[1]] = h[2]
    /\ \A t \in KeyThreads :
         /\ \A k \in DOMAIN cachedId[t] : <<k, cachedId[t][k]>> \in handed
         /\ \A i \in DOMAIN cachedKey[t] : i \in DOMAIN id_to_key /\ cachedKey[t][i] = id_to_key[i]
         /\ KeyAt(t, "got") => \A k \in kt[t].known : kt[t].result = k
=============================================================================
