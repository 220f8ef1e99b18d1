------------------------------- MODULE AuthCache -------------------------------
(***************************************************************************)
(* internal/auth/auth.go, Authenticator.lookup: concurrent requests look   *)
(* up an API key by its hash, first in a map shared under a mutex, then in *)
(* api_keys; a row that was found is cached for TTL.  Operators create,    *)
(* change and revoke keys in the table behind the cache's back.            *)
(*                                                                         *)
(* The contents of a row (scopes, rate limit, monthly cap) are reduced to  *)
(* a version number: a version is current from the statement that wrote it *)
(* to the one that changed or revoked it.  Version 0 stands for no live    *)
(* row, the answer of a lookup that found none.                            *)
(***************************************************************************)
EXTENDS Clock

CONSTANTS Key,         \* key hashes
          Lookup,      \* requests being authenticated at the same time
          TTL,         \* B2D_AUTH_CACHE_TTL, 0 allowed
          MaxVersions  \* bound: versions of one row

ASSUME AuthAssumption ==
  /\ TTL \in Nat
  /\ MaxVersions \in Nat

VARIABLES
  issued,    \* issued[k]: versions of k's row written so far
  live,      \* live[k]: "yes" when the last one is not revoked
  endedAt,   \* history: when version v of k stopped being current, or Never
  liveSince, \* history: when k last went from no live row to a live one
  cached,    \* keys that have a cache entry
  centry,    \* centry[k]: the version cached for k
  expires,   \* expires[k]: until when that entry may be used
  lookupPc,  \* where each lookup is
  key,       \* the key it looks up
  now,       \* its `now', taken before anything else
  found      \* the version it has found

tableVars == <<issued, live, endedAt, liveSince>>
cacheVars == <<cached, centry, expires>>
authVars == <<clock, tableVars, cacheVars, lookupPc, key, now, found>>

Version == 1..MaxVersions
Never == MaxTime + 1
LookupPc == {"idle", "check", "query", "store", "answered", "failed"}

CacheTypeOK ==
  /\ clock \in 0..MaxTime
  /\ issued \in [Key -> 0..MaxVersions]
  /\ live \in [Key -> {"yes", "no"}]
  /\ endedAt \in [Key -> [Version -> 0..Never]]
  /\ liveSince \in [Key -> Nat]
  /\ cached \in SUBSET Key
  /\ centry \in [Key -> 0..MaxVersions]
  /\ expires \in [Key -> Nat]
  /\ lookupPc \in [Lookup -> LookupPc]
  /\ key \in [Lookup -> Key]
  /\ now \in [Lookup -> Nat]
  /\ found \in [Lookup -> 0..MaxVersions]

CacheInit ==
  /\ clock = 0
  /\ issued = [k \in Key |-> 0]
  /\ live = [k \in Key |-> "no"]
  /\ endedAt = [k \in Key |-> [v \in Version |-> Never]]
  /\ liveSince = [k \in Key |-> 0]
  /\ cached = {}
  /\ centry = [k \in Key |-> 0]
  /\ expires = [k \in Key |-> 0]
  /\ lookupPc = [l \in Lookup |-> "idle"]
  /\ key \in [Lookup -> Key]
  /\ now = [l \in Lookup |-> 0]
  /\ found = [l \in Lookup |-> 0]

TimePasses ==
  /\ Advance
  /\ UNCHANGED <<tableVars, cacheVars, lookupPc, key, now, found>>

--------------------------------------------------------------------------------
(* The operator: b2d-etl apikey inserts a row; changes and revocations are *)
(* SQL statements outside the repository.                                  *)

(* INSERT, or UPDATE of a row's limits, or clearing revoked_at: a new      *)
(* version becomes current, ending the previous one if it still was.       *)
WriteRow(k) ==
  /\ issued[k] < MaxVersions
  /\ issued' = [issued EXCEPT ![k] = @ + 1]
  /\ live' = [live EXCEPT ![k] = "yes"]
  /\ IF live[k] = "yes"
     THEN /\ endedAt' = [endedAt EXCEPT ![k] = [@ EXCEPT ![issued[k]] = clock]]
          /\ UNCHANGED liveSince
     ELSE /\ liveSince' = [liveSince EXCEPT ![k] = clock]
          /\ UNCHANGED endedAt
  /\ UNCHANGED <<clock, cacheVars, lookupPc, key, now, found>>

(* UPDATE api_keys SET revoked_at = now(). *)
Revoke(k) ==
  /\ live[k] = "yes"
  /\ live' = [live EXCEPT ![k] = "no"]
  /\ endedAt' = [endedAt EXCEPT ![k] = [@ EXCEPT ![issued[k]] = clock]]
  /\ UNCHANGED <<clock, issued, liveSince, cacheVars, lookupPc, key, now, found>>

--------------------------------------------------------------------------------
(* lookup *)

(* now := time.Now(), before the lock. *)
Begin(l, k) ==
  /\ lookupPc[l] = "idle"
  /\ lookupPc' = [lookupPc EXCEPT ![l] = "check"]
  /\ key' = [key EXCEPT ![l] = k]
  /\ now' = [now EXCEPT ![l] = clock]
  /\ UNCHANGED <<clock, tableVars, cacheVars, found>>

Fresh_Inclusive(l) == key[l] \in cached /\ expires[key[l]] >= now[l]

(* ent, ok := cache[hash]; ok && ent.expires.After(now) *)
Fresh(l) == key[l] \in cached /\ expires[key[l]] > now[l]

Hit(l) ==
  /\ lookupPc[l] = "check"
  /\ Fresh(l)
  /\ found' = [found EXCEPT ![l] = centry[key[l]]]
  /\ lookupPc' = [lookupPc EXCEPT ![l] = "answered"]
  /\ UNCHANGED <<clock, tableVars, cacheVars, key, now>>

Miss(l) ==
  /\ lookupPc[l] = "check"
  /\ ~Fresh(l)
  /\ lookupPc' = [lookupPc EXCEPT ![l] = "query"]
  /\ UNCHANGED <<clock, tableVars, cacheVars, key, now, found>>

(* What the SELECT ... AND revoked_at IS NULL sees. *)
RowVersion(k) == IF live[k] = "yes" THEN issued[k] ELSE 0

QueryRow_CachesNoRow(l) ==
  /\ lookupPc[l] = "query"
  /\ found' = [found EXCEPT ![l] = RowVersion(key[l])]
  /\ lookupPc' = [lookupPc EXCEPT ![l] = "store"]
  /\ UNCHANGED <<clock, tableVars, cacheVars, key, now>>

(* The row is read; ErrNoRows is answered at once and never cached. *)
QueryRow(l) ==
  /\ lookupPc[l] = "query"
  /\ found' = [found EXCEPT ![l] = RowVersion(key[l])]
  /\ lookupPc' = [lookupPc EXCEPT ![l] = IF live[key[l]] = "yes" THEN "store" ELSE "answered"]
  /\ UNCHANGED <<clock, tableVars, cacheVars, key, now>>

(* The query fails, or the request's context ends first. *)
QueryFails(l) ==
  /\ lookupPc[l] = "query"
  /\ lookupPc' = [lookupPc EXCEPT ![l] = "failed"]
  /\ UNCHANGED <<clock, tableVars, cacheVars, key, now, found>>

(* ent.expires = now.Add(a.ttl), with the `now' of the beginning. *)
ExpiryOf(l) == now[l] + TTL

(* cache[hash] = ent, whatever another lookup has stored meanwhile. *)
Store(l) ==
  /\ lookupPc[l] = "store"
  /\ cached' = cached \cup {key[l]}
  /\ centry' = [centry EXCEPT ![key[l]] = found[l]]
  /\ expires' = [expires EXCEPT ![key[l]] = ExpiryOf(l)]
  /\ lookupPc' = [lookupPc EXCEPT ![l] = "answered"]
  /\ UNCHANGED <<clock, tableVars, key, now, found>>

(* The request goes on with the answer, or with a 500; the locals are gone. *)
Finish(l) ==
  /\ lookupPc[l] \in {"answered", "failed"}
  /\ lookupPc' = [lookupPc EXCEPT ![l] = "idle"]
  /\ now' = [now EXCEPT ![l] = 0]
  /\ found' = [found EXCEPT ![l] = 0]
  /\ UNCHANGED <<clock, tableVars, cacheVars, key>>

Step(l) ==
  \/ \E k \in Key : Begin(l, k)
  \/ Hit(l)
  \/ Miss(l)
  \/ QueryRow(l)
  \/ QueryFails(l)
  \/ Store(l)
  \/ Finish(l)

CacheNext ==
  \/ TimePasses
  \/ \E k \in Key : WriteRow(k) \/ Revoke(k)
  \/ \E l \in Lookup : Step(l)

CacheSpec == CacheInit /\ [][CacheNext]_authVars

--------------------------------------------------------------------------------
(* What must hold. *)

(* No answer is older than the TTL: a lookup that begins TTL or more after *)
(* a key was revoked, or its limits were changed, is not given the old     *)
(* row, however the lookups that fill the cache are delayed.  With TTL = 0 *)
(* a lookup that begins after the change never sees the old row.           *)
AnswerNotStale ==
  \A l \in Lookup :
    (lookupPc[l] = "answered" /\ found[l] # 0) =>
      LET ended == endedAt[key[l]][found[l]]
      IN  now[l] <= ended \/ now[l] < ended + TTL

(* A key that has been issued works for every request that begins later:   *)
(* an earlier "no such key" is not remembered.                             *)
NewKeyUsable ==
  \A l \in Lookup :
    (lookupPc[l] = "answered" /\ found[l] = 0) =>
      ~(live[key[l]] = "yes" /\ liveSince[key[l]] < now[l])

(* The inductive invariant: a row about to be stored was current when or   *)
(* after its lookup began, so what is cached expires at most TTL after it  *)
(* ended.                                                                  *)
StoreIsCurrent ==
  \A l \in Lookup :
    lookupPc[l] = "store" => found[l] # 0 /\ now[l] <= endedAt[key[l]][found[l]]

EntryExpiresInTime ==
  \A k \in cached :
    /\ centry[k] # 0
    /\ expires[k] <= endedAt[k][centry[k]] + TTL

NothingFromTheFuture ==
  /\ \A l \in Lookup : now[l] <= clock
  /\ \A k \in cached : expires[k] <= clock + TTL
  /\ \A k \in Key, v \in Version :
       (v > issued[k] \/ (v = issued[k] /\ live[k] = "yes")) => endedAt[k][v] = Never
  /\ \A k \in Key : live[k] = "yes" => issued[k] # 0

CacheInv ==
  /\ CacheTypeOK
  /\ NothingFromTheFuture
  /\ StoreIsCurrent
  /\ EntryExpiresInTime
  /\ AnswerNotStale
  /\ NewKeyUsable
================================================================================
