------------------------------- MODULE Cache -------------------------------
(***************************************************************************)
(* The Redis wrapper of src/pkg/cache.  A store maps every key to Nil or   *)
(* to its value and whether it carries an expiry; the operators return the *)
(* store after the call.  Expiry itself is Redis's own step: see Expired.  *)
(***************************************************************************)
EXTENDS Integers

CONSTANTS
    Nil,        \* the key does not exist
    RedisFails  \* BOOLEAN: calls may fail, which every caller only logs

ASSUME CacheAssumption ==
    RedisFails \in BOOLEAN /\ Nil \notin [val : Nat, expires : BOOLEAN]

Set(store, k, v, expires) == [store EXCEPT ![k] = [val |-> v, expires |-> expires]]

Get(store, k) == IF store[k] = Nil THEN Nil ELSE store[k].val

Delete(store, ks) == [k \in DOMAIN store |-> IF k \in ks THEN Nil ELSE store[k]]

\* A counter's value; 0 when the key does not exist.
GetInt(store, k) == IF store[k] = Nil THEN 0 ELSE store[k].val

SetInt(store, k, v) == Set(store, k, v, TRUE)

\* Mutant: the script's EXPIRE is missing.
IncrWithExpiry_NoExpiry(store, k) ==
    Set(store, k, GetInt(store, k) + 1, store[k] # Nil /\ store[k].expires)

\* The Lua script: INCR, and EXPIRE when the counter is new, in one step.
IncrWithExpiry(store, k) ==
    LET n == GetInt(store, k) + 1
    IN  Set(store, k, n, n = 1 \/ store[k].expires)

\* The stores a call may leave behind when its failure is only logged.
Tried(store, after) == {after} \cup (IF RedisFails THEN {store} ELSE {})

\* Redis removes a key whose time has come.
Expired(store, k) == Delete(store, {k})

Expirable(store, k) == store[k] # Nil /\ store[k].expires
============================================================================
