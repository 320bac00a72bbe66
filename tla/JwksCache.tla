----------------------------- MODULE JwksCache -----------------------------
(***************************************************************************)
(* The cache of a token issuer's signing keys (crates/authn/src/jwks.rs).   *)
(*                                                                          *)
(* Lookups run concurrently.  get_key reads the time of the last fetch,     *)
(* then the cache, each under its own lock; on a miss it fetches the key    *)
(* set, which other lookups may be doing too, replaces the cache and then   *)
(* the time while it holds the cache's write lock, and reads the cache      *)
(* again.  Local steps take no time; a fetch takes up to MaxFlight.         *)
(***************************************************************************)
EXTENDS Naturals, Sequences, Options

CONSTANTS
    Lookups,      \* concurrent callers of get_key
    Answered,     \* those whose fetches end; the client sets no timeout
    KeySets,      \* the key sets the issuer publishes in turn: sets of [kid, kty, key]
    CacheTtl,     \* cache_ttl
    MaxFlight,    \* the longest a fetch takes
    MaxClock,     \* bound on the clock
    MaxCalls      \* bound on the calls made

VARIABLES
    clock,
    era,          \* the index of the key set the issuer publishes now
    seen,         \* the last time each key was published
    cache,        \* the cached keys, by key id
    lastFetch,    \* last_fetch, or None
    lock,         \* the lookup that holds the cache's write lock, or None
    lookups,      \* what each lookup is doing
    made          \* calls made so far

jwksVars == <<clock, era, seen, cache, lastFetch, lock, lookups, made>>

Resting == [pc |-> "idle"]
Keys == UNION {KeySets[i] : i \in DOMAIN KeySets}

ASSUME JwksAssumption ==
    /\ KeySets \in Seq(SUBSET Keys) /\ KeySets # <<>>
    /\ CacheTtl \in Nat /\ MaxFlight \in Nat
    /\ None \notin Nat \cup Lookups

Kids == {k.kid : k \in Keys} \ {None}
Issuer == KeySets[era]

(* Only RSA keys with a key id are cached; a later duplicate wins, which no *)
(* published set has.                                                       *)
Cacheable(keys) == {k \in keys : k.kty = "RSA" /\ k.kid # None}
AsCache(keys) ==
    [kid \in {k.kid : k \in Cacheable(keys)} |->
        (CHOOSE k \in Cacheable(keys) : k.kid = kid).key]

JwksInit ==
    /\ clock = 0
    /\ era = 1
    /\ seen = [k \in Keys |-> IF k \in KeySets[1] THEN 0 ELSE None]
    /\ cache = [kid \in {} |-> None]
    /\ lastFetch = None
    /\ lock = None
    /\ lookups = [c \in Lookups |-> Resting]
    /\ made = 0

Goto(c, pc) == lookups' = [lookups EXCEPT ![c].pc = pc]

(* The call starts; held says whether the key has been published all along, *)
(* overtaken whether another fetch replaced the cache after this call's did.*)
GetKey(c, kid) ==
    /\ lookups[c].pc = "idle" /\ made < MaxCalls
    /\ made' = made + 1
    /\ lookups' = [lookups EXCEPT ![c] =
         [pc |-> "expiry", kid |-> kid, keys |-> {}, at |-> 0, served |-> None, when |-> 0,
          held |-> kid \in DOMAIN AsCache(Issuer), overtaken |-> FALSE]]
    /\ UNCHANGED <<clock, era, seen, cache, lastFetch, lock>>

(* Mutant: the age is compared with the wrong sense at the first fetch.     *)
NeverExpires == lastFetch = None

(* is_expired.                                                              *)
IsExpired == lastFetch = None \/ clock - lastFetch > CacheTtl

CheckExpiry(c) ==
    /\ lookups[c].pc = "expiry"
    /\ Goto(c, IF IsExpired THEN "fetch" ELSE "read")
    /\ UNCHANGED <<clock, era, seen, cache, lastFetch, lock, made>>

Serve(c, otherwise) ==
    LET kid == lookups[c].kid
    IN  lookups' = [lookups EXCEPT ![c].pc = IF kid \in DOMAIN cache THEN "served" ELSE otherwise,
                                   ![c].served = IF kid \in DOMAIN cache THEN cache[kid] ELSE None,
                                   ![c].when = clock]

ReadCache(c) ==
    /\ lookups[c].pc = "read" /\ lock = None
    /\ Serve(c, "fetch")
    /\ UNCHANGED <<clock, era, seen, cache, lastFetch, lock, made>>

(* Mutant: the cache's lock is taken before the request is sent.            *)
FetchUnderLock(c) ==
    /\ lookups[c].pc = "fetch" /\ lock = None
    /\ lock' = c
    /\ lookups' = [lookups EXCEPT ![c].pc = "flight", ![c].keys = Issuer, ![c].at = clock]
    /\ UNCHANGED <<clock, era, seen, cache, lastFetch, made>>

(* The issuer takes the request and answers with the keys it publishes.     *)
FetchJwks(c) ==
    /\ lookups[c].pc = "fetch"
    /\ lookups' = [lookups EXCEPT ![c].pc = "flight", ![c].keys = Issuer, ![c].at = clock,
                                  ![c].held = lookups[c].kid \in DOMAIN AsCache(Issuer)]
    /\ UNCHANGED <<clock, era, seen, cache, lastFetch, lock, made>>

FetchFails(c) ==
    /\ lookups[c].pc = "flight"
    /\ Goto(c, "failed")
    /\ UNCHANGED <<clock, era, seen, cache, lastFetch, lock, made>>

(* The answer arrives: the cache is cleared and filled under its lock.      *)
Install(c) ==
    /\ lookups[c].pc = "flight" /\ lock = None
    /\ lock' = c
    /\ cache' = AsCache(lookups[c].keys)
    /\ lookups' = [d \in Lookups |->
         IF d = c THEN [lookups[d] EXCEPT !.pc = "stamp"]
         ELSE IF lookups[d].pc = "reread" THEN [lookups[d] EXCEPT !.overtaken = TRUE]
         ELSE lookups[d]]
    /\ UNCHANGED <<clock, era, seen, lastFetch, made>>

(* last_fetch is set, and the cache's lock released.                        *)
Stamp(c) ==
    /\ lookups[c].pc = "stamp"
    /\ lastFetch' = clock
    /\ lock' = None
    /\ Goto(c, "reread")
    /\ UNCHANGED <<clock, era, seen, cache, made>>

Reread(c) ==
    /\ lookups[c].pc = "reread" /\ lock = None
    /\ Serve(c, "missing")
    /\ UNCHANGED <<clock, era, seen, cache, lastFetch, lock, made>>

(* The caller takes the answer.                                             *)
Take(c) ==
    /\ lookups[c].pc \in {"served", "missing", "failed"}
    /\ lookups' = [lookups EXCEPT ![c] = Resting]
    /\ UNCHANGED <<clock, era, seen, cache, lastFetch, lock, made>>

-----------------------------------------------------------------------------
(* The issuer replaces its keys.                                            *)
Rotate ==
    /\ era < Len(KeySets)
    /\ era' = era + 1
    /\ seen' = [k \in DOMAIN seen |-> IF k \in Issuer \cup Issuer' THEN clock ELSE seen[k]]
    /\ lookups' = [c \in Lookups |->
         IF lookups[c].pc = "idle" THEN lookups[c]
         ELSE [lookups[c] EXCEPT !.held = @ /\ lookups[c].kid \in DOMAIN AsCache(Issuer')]]
    /\ UNCHANGED <<clock, cache, lastFetch, lock, made>>

(* Time passes while every lookup rests or waits for its fetch.             *)
Tick ==
    /\ clock < MaxClock
    /\ \A c \in Lookups : \/ lookups[c].pc = "idle"
                          \/ lookups[c].pc = "flight" /\ clock - lookups[c].at < MaxFlight
    /\ clock' = clock + 1
    /\ seen' = [k \in DOMAIN seen |-> IF k \in Issuer THEN clock + 1 ELSE seen[k]]
    /\ UNCHANGED <<era, cache, lastFetch, lock, lookups, made>>

LocalStep(c) == CheckExpiry(c) \/ ReadCache(c) \/ Stamp(c) \/ Reread(c) \/ Take(c)
RemoteStep(c) == FetchJwks(c) \/ FetchFails(c) \/ Install(c)

JwksNext ==
    \/ \E c \in Lookups : \/ LocalStep(c)
                          \/ RemoteStep(c)
                          \/ \E kid \in Kids : GetKey(c, kid)
    \/ Rotate
    \/ Tick

JwksSpec == JwksInit /\ [][JwksNext]_jwksVars

(* The runtime polls every ready future; only some fetches need to end.     *)
JwksFairness ==
    /\ \A c \in Lookups : WF_jwksVars(LocalStep(c))
    /\ \A c \in Answered : WF_jwksVars(RemoteStep(c))

-----------------------------------------------------------------------------
(* A key that is served was published within the cache's lifetime and one   *)
(* flight of a fetch, whichever fetches overlapped and in whichever order   *)
(* their answers were installed.  A call that reports the key missing is    *)
(* right, or lost a race: if the issuer published the key from the call's   *)
(* fetch on, another fetch replaced the cache between this call's refill    *)
(* and its second read (JwksCache::get_key fetches, drops the lock and      *)
(* looks again).                                                            *)
KeyAnswersAreTrue ==
    \A c \in Lookups :
        /\ lookups[c].pc = "served" =>
             \E k \in DOMAIN seen :
                /\ k.kid = lookups[c].kid /\ k.key = lookups[c].served
                /\ seen[k] # None /\ seen[k] + CacheTtl + MaxFlight >= lookups[c].when
        /\ lookups[c].pc = "missing" /\ lookups[c].held => lookups[c].overtaken

(* A lookup whose own fetch ends is answered, even while another's fetch    *)
(* hangs for ever: no lock is held across the request, and the two locks    *)
(* are never each waited for by the holder of the other (fetch_jwks).       *)
LookupsAreIndependent == \A c \in Answered : lookups[c].pc # "idle" ~> lookups[c].pc = "idle"
=============================================================================
