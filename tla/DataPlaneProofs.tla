--------------------------- MODULE DataPlaneProofs ---------------------------
(***************************************************************************)
(* The data plane, for any number of requests and lookups, any             *)
(* configuration and any answers of the services it asks: the key cache    *)
(* answers right, and what reaches the application was decided.            *)
(***************************************************************************)
EXTENDS DataPlane, JwksCache, TLAPS

-----------------------------------------------------------------------------
(* The key cache.                                                          *)

\* The clock and what the issuer has published by it.
TimesInv ==
    /\ clock \in Nat
    /\ era \in 1 .. Len(KeySets)
    /\ DOMAIN seen = Keys
    /\ \A k \in Keys : seen[k] # None => seen[k] \in Nat /\ seen[k] <= clock
    /\ \A k \in Issuer : seen[k] = clock
    /\ lastFetch # None => lastFetch \in Nat /\ lastFetch <= clock
    /\ DOMAIN lookups = Lookups

\* A key was still published at a time.
PublishedAt(k, t) == k \in Keys /\ seen[k] # None /\ seen[k] >= t

\* Every cached key was published one flight before t, or later.
CachedAt(t) ==
    \A kid \in DOMAIN cache : \E k \in Keys :
        /\ k.kid = kid /\ k.key = cache[kid]
        /\ seen[k] # None /\ seen[k] + MaxFlight >= t

\* The fields of a lookup that runs.
LookupFields == {"pc", "kid", "keys", "at", "served", "when", "held", "overtaken"}

\* A fetch brings keys that were published when the issuer took the request.
FlightInv(l) ==
    l.pc = "flight" =>
        /\ l.at \in Nat /\ clock <= l.at + MaxFlight
        /\ \A k \in l.keys : PublishedAt(k, l.at)
        /\ l.held => l.kid \in DOMAIN AsCache(l.keys)

\* What the two reads of the cache may rely on.
ReadInv(l) ==
    /\ l.pc = "read" => lastFetch # None /\ clock <= lastFetch + CacheTtl
    /\ l.pc = "reread" => lastFetch = clock

\* The holder of the lock has just replaced the cache.
StampInv(c, l) ==
    l.pc = "stamp" => lock = c /\ CachedAt(clock)

\* A key that is published since the fetch is in the cache until another fetch
\* replaces it.
HeldInv(l) ==
    l.pc \in {"stamp", "reread"} /\ l.held => l.overtaken \/ l.kid \in DOMAIN cache

\* The answers.
ServedInv(l) ==
    /\ l.pc = "served" => l.when \in Nat
    /\ l.pc = "served" =>
          \E k \in Keys :
             /\ k.kid = l.kid /\ k.key = l.served
             /\ seen[k] # None /\ seen[k] + CacheTtl + MaxFlight >= l.when
    /\ l.pc = "missing" /\ l.held => l.overtaken

LookupInv(c, l) ==
    /\ l.pc # "idle" => DOMAIN l = LookupFields
    /\ FlightInv(l) /\ ReadInv(l) /\ StampInv(c, l) /\ HeldInv(l) /\ ServedInv(l)

JwksInv ==
    /\ TimesInv
    /\ lastFetch # None => CachedAt(lastFetch)
    /\ \A c \in Lookups : LookupInv(c, lookups[c])

\* What the issuer published is not forgotten.
SeenGrows == \A k \in Keys : seen[k] # None => seen'[k] # None /\ seen'[k] >= seen[k]

\* A step without the clock, as seen by a lookup that does not take it.
Beside(c) ==
    /\ TimesInv /\ TimesInv' /\ SeenGrows
    /\ clock' = clock /\ cache' = cache
    /\ lastFetch' = lastFetch \/ lastFetch' = clock
    /\ lock = c => lock' = c

LEMMA IssuerKeys ==
    ASSUME TimesInv
    PROVE  Issuer \subseteq Keys
  BY JwksAssumption DEF TimesInv, Issuer

LEMMA CachedStays ==
    ASSUME TimesInv, TimesInv', SeenGrows, cache' = cache, NEW t \in Nat, CachedAt(t)
    PROVE  CachedAt(t)'
  <1> SUFFICES ASSUME NEW kid \in DOMAIN cache
               PROVE  \E k \in Keys : /\ k.kid = kid /\ k.key = cache[kid]
                                      /\ seen'[k] # None /\ seen'[k] + MaxFlight >= t
    BY Zenon DEF CachedAt
  <1>1. PICK k \in Keys : /\ k.kid = kid /\ k.key = cache[kid]
                          /\ seen[k] # None /\ seen[k] + MaxFlight >= t
    BY Zenon DEF CachedAt
  <1>2. seen[k] \in Nat /\ seen'[k] \in Nat /\ seen'[k] # None /\ seen'[k] >= seen[k]
    BY <1>1, Zenon DEF TimesInv, SeenGrows
  <1>3. seen'[k] + MaxFlight >= t
    BY <1>1, <1>2, JwksAssumption
  <1> QED BY <1>1, <1>2, <1>3, Zenon

LEMMA FlightStays ==
    ASSUME TimesInv, TimesInv', SeenGrows, clock' = clock, NEW l, FlightInv(l)
    PROVE  FlightInv(l)'
  <1> SUFFICES ASSUME l.pc = "flight", NEW k \in l.keys PROVE PublishedAt(k, l.at)'
    BY Zenon DEF FlightInv
  <1>1. k \in Keys /\ seen[k] # None /\ seen[k] >= l.at /\ l.at \in Nat
    BY Zenon DEF FlightInv, PublishedAt
  <1>2. seen[k] \in Nat /\ seen'[k] \in Nat /\ seen'[k] # None /\ seen'[k] >= seen[k]
    BY <1>1, Zenon DEF TimesInv, SeenGrows
  <1>3. seen'[k] >= l.at
    BY <1>1, <1>2
  <1> QED BY <1>1, <1>2, <1>3, Zenon DEF PublishedAt

LEMMA ServedStays ==
    ASSUME TimesInv, TimesInv', SeenGrows, NEW l, ServedInv(l)
    PROVE  ServedInv(l)'
  <1> SUFFICES ASSUME l.pc = "served"
               PROVE  \E k \in Keys :
                         /\ k.kid = l.kid /\ k.key = l.served
                         /\ seen'[k] # None /\ seen'[k] + CacheTtl + MaxFlight >= l.when
    BY Zenon DEF ServedInv
  <1>1. PICK k \in Keys : /\ k.kid = l.kid /\ k.key = l.served
                          /\ seen[k] # None /\ seen[k] + CacheTtl + MaxFlight >= l.when
    BY Zenon DEF ServedInv
  <1>2. /\ seen[k] \in Nat /\ seen'[k] \in Nat /\ seen'[k] # None /\ seen'[k] >= seen[k]
        /\ l.when \in Nat
    BY <1>1, Zenon DEF TimesInv, SeenGrows, ServedInv
  <1>3. seen'[k] + CacheTtl + MaxFlight >= l.when
    BY <1>1, <1>2, JwksAssumption
  <1> QED BY <1>1, <1>2, <1>3, Zenon

LEMMA LookupStays ==
    ASSUME NEW c \in Lookups, Beside(c), NEW l, LookupInv(c, l)
    PROVE  LookupInv(c, l)'
  <1>1. FlightInv(l)' /\ ServedInv(l)' /\ HeldInv(l)'
    BY FlightStays, ServedStays, Zenon DEF Beside, LookupInv, HeldInv
  <1>2. ReadInv(l)'
    BY JwksAssumption DEF Beside, LookupInv, ReadInv, TimesInv
  <1>3. StampInv(c, l)'
    <2> SUFFICES ASSUME l.pc = "stamp" PROVE CachedAt(clock)'
      BY Zenon DEF Beside, LookupInv, StampInv
    <2>1. PICK t \in Nat : t = clock /\ t = clock'
      BY Zenon DEF Beside, TimesInv
    <2>2. CachedAt(t)'
      BY <2>1, CachedStays, Zenon DEF Beside, LookupInv, StampInv
    <2> QED BY <2>1, <2>2 DEF CachedAt
  <1> QED BY <1>1, <1>2, <1>3, Zenon DEF LookupInv

LEMMA LookupNow ==
    ASSUME NEW c, NEW l, l = lookups'[c], LookupInv(c, l)'
    PROVE  LookupInv(c, lookups[c])'
  BY Zenon DEF LookupInv, FlightInv, ReadInv, StampInv, HeldInv, ServedInv, PublishedAt

\* A step of one lookup that leaves everything else alone.
Becomes(c, new) ==
    /\ lookups' = [lookups EXCEPT ![c] = new]
    /\ UNCHANGED <<clock, era, seen, cache, lastFetch, lock>>

LEMMA BecomesKeeps ==
    ASSUME JwksInv, NEW c \in Lookups, NEW new, Becomes(c, new), LookupInv(c, new)
    PROVE  JwksInv'
  <1>1. TimesInv'
    BY Zenon DEF JwksInv, TimesInv, Becomes, Issuer
  <1>2. \A d \in Lookups : Beside(d)
    <2>1. SeenGrows
      BY <1>1 DEF JwksInv, TimesInv, SeenGrows, Becomes
    <2> QED BY <1>1, <2>1, Zenon DEF JwksInv, Beside, Becomes
  <1>3. lastFetch' # None => CachedAt(lastFetch)'
    BY Zenon DEF JwksInv, CachedAt, Becomes
  <1>4. ASSUME NEW d \in Lookups PROVE LookupInv(d, lookups[d])'
    <2>1. PICK l : l = lookups'[d]
      BY Zenon
    <2>2. LookupInv(d, l)
      BY <2>1, Zenon DEF JwksInv, TimesInv, Becomes
    <2>3. LookupInv(d, l)'
      BY <1>2, <2>2, LookupStays, Zenon
    <2> QED BY <2>1, <2>3, LookupNow, Zenon
  <1> QED BY <1>1, <1>3, <1>4, Zenon DEF JwksInv

\* The steps of one lookup.
LEMMA GetKeyKeeps ==
    ASSUME JwksInv, NEW c \in Lookups, NEW kid, GetKey(c, kid)
    PROVE  JwksInv'
  <1>1. PICK new :
            new = [pc |-> "expiry", kid |-> kid, keys |-> {}, at |-> 0, served |-> None, when |-> 0,
                   held |-> kid \in DOMAIN AsCache(Issuer), overtaken |-> FALSE]
    BY Zenon
  <1>2. Becomes(c, new)
    BY <1>1, Zenon DEF GetKey, Becomes
  <1>3. DOMAIN new = LookupFields /\ new.pc = "expiry"
    BY <1>1 DEF LookupFields
  <1>4. LookupInv(c, new)
    BY <1>3, Zenon DEF LookupInv, FlightInv, ReadInv, StampInv, HeldInv, ServedInv
  <1> QED BY <1>2, <1>4, BecomesKeeps, Zenon

\* A lookup goes on at another place with what it knows.
LEMMA GotoIs ==
    ASSUME JwksInv, NEW c \in Lookups, lookups[c].pc # "idle", NEW pc, Goto(c, pc),
           UNCHANGED <<clock, era, seen, cache, lastFetch, lock>>
    PROVE  \E old, new :
              /\ old = lookups[c] /\ LookupInv(c, old) /\ Becomes(c, new)
              /\ DOMAIN new = LookupFields /\ new.pc = pc /\ new.kid = old.kid
              /\ new.held = old.held /\ new.overtaken = old.overtaken
  <1>1. PICK old : old = lookups[c] /\ LookupInv(c, old) /\ DOMAIN old = LookupFields
    BY Zenon DEF JwksInv, LookupInv
  <1>2. PICK new : new = [old EXCEPT !.pc = pc]
    BY Zenon
  <1>3. Becomes(c, new)
    BY <1>1, <1>2, Zenon DEF Goto, Becomes
  <1>4. /\ DOMAIN new = LookupFields /\ new.pc = pc /\ new.kid = old.kid
        /\ new.held = old.held /\ new.overtaken = old.overtaken
    BY <1>1, <1>2, Zenon DEF LookupFields
  <1> QED BY <1>1, <1>3, <1>4, Zenon

LEMMA CheckExpiryKeeps ==
    ASSUME JwksInv, NEW c \in Lookups, CheckExpiry(c)
    PROVE  JwksInv'
  <1>p. PICK pc : pc = IF IsExpired THEN "fetch" ELSE "read"
    OBVIOUS
  <1>1. Goto(c, pc) /\ pc \in {"fetch", "read"} /\ (pc = "read" => ~IsExpired)
    BY <1>p DEF CheckExpiry
  <1>2. PICK new : Becomes(c, new) /\ DOMAIN new = LookupFields /\ new.pc = pc
    <2>1. lookups[c].pc # "idle" /\ UNCHANGED <<clock, era, seen, cache, lastFetch, lock>>
      BY DEF CheckExpiry
    <2>2. \E old, new :
             /\ old = lookups[c] /\ LookupInv(c, old) /\ Becomes(c, new)
             /\ DOMAIN new = LookupFields /\ new.pc = pc /\ new.kid = old.kid
             /\ new.held = old.held /\ new.overtaken = old.overtaken
      BY <1>1, <2>1, GotoIs
    <2> QED BY <2>2, Zenon
  <1>3. ReadInv(new)
    BY <1>1, <1>2, JwksAssumption DEF ReadInv, IsExpired, JwksInv, TimesInv
  <1>4. LookupInv(c, new)
    BY <1>1, <1>2, <1>3, Zenon DEF LookupInv, FlightInv, StampInv, HeldInv, ServedInv
  <1> QED BY <1>2, <1>4, BecomesKeeps, Zenon

\* Reading the cache, at most a time to live after the last fetch.
LEMMA ServeKeeps ==
    ASSUME JwksInv, NEW c \in Lookups, lookups[c].pc # "idle", NEW otherwise,
           otherwise \in {"fetch", "missing"}, Serve(c, otherwise),
           UNCHANGED <<clock, era, seen, cache, lastFetch, lock>>,
           lastFetch # None, clock <= lastFetch + CacheTtl,
           otherwise = "missing" /\ lookups[c].held =>
               lookups[c].overtaken \/ lookups[c].kid \in DOMAIN cache
    PROVE  JwksInv'
  <1>1. PICK old : old = lookups[c] /\ DOMAIN old = LookupFields
    BY Zenon DEF JwksInv, LookupInv
  <1>2. PICK new :
            new = [old EXCEPT !.pc = IF old.kid \in DOMAIN cache THEN "served" ELSE otherwise,
                              !.served = IF old.kid \in DOMAIN cache THEN cache[old.kid] ELSE None,
                              !.when = clock]
    BY Zenon
  <1>3. Becomes(c, new)
    BY <1>1, <1>2, Zenon DEF Serve, Becomes
  <1>4. /\ DOMAIN new = LookupFields /\ new.kid = old.kid /\ new.when = clock
        /\ new.pc = IF old.kid \in DOMAIN cache THEN "served" ELSE otherwise
        /\ old.kid \in DOMAIN cache => new.served = cache[old.kid]
        /\ new.held = old.held /\ new.overtaken = old.overtaken
    BY <1>1, <1>2 DEF LookupFields
  <1>5. ServedInv(new)
    <2>1. clock \in Nat /\ lastFetch \in Nat /\ CachedAt(lastFetch)
      BY Zenon DEF JwksInv, TimesInv
    <2>2. ASSUME old.kid \in DOMAIN cache
          PROVE  \E k \in Keys :
                    /\ k.kid = new.kid /\ k.key = new.served
                    /\ seen[k] # None /\ seen[k] + CacheTtl + MaxFlight >= new.when
      <3>1. PICK k \in Keys : /\ k.kid = old.kid /\ k.key = cache[old.kid]
                              /\ seen[k] # None /\ seen[k] + MaxFlight >= lastFetch
        BY <2>1, <2>2, Zenon DEF CachedAt
      <3>2. seen[k] \in Nat
        BY <3>1, Zenon DEF JwksInv, TimesInv
      <3>3. seen[k] + CacheTtl + MaxFlight >= clock
        BY <2>1, <3>1, <3>2, JwksAssumption
      <3> QED BY <1>4, <2>2, <3>1, <3>3, Zenon
    <2>3. new.pc = "missing" /\ new.held => new.overtaken
      BY <1>1, <1>4, Zenon
    <2>4. new.pc = "served" => old.kid \in DOMAIN cache
      BY <1>4, Zenon
    <2> QED BY <1>4, <2>1, <2>2, <2>3, <2>4, Zenon DEF ServedInv
  <1>6. new.pc \in {"served", "fetch", "missing"}
    BY <1>4, Zenon
  <1>7. LookupInv(c, new)
    BY <1>4, <1>5, <1>6, Zenon DEF LookupInv, FlightInv, ReadInv, StampInv, HeldInv
  <1> QED BY <1>3, <1>7, BecomesKeeps, Zenon

LEMMA ReadsKeep ==
    ASSUME JwksInv, NEW c \in Lookups, ReadCache(c) \/ Reread(c)
    PROVE  JwksInv'
  <1>1. CASE ReadCache(c)
    <2>1. lastFetch # None /\ clock <= lastFetch + CacheTtl
      BY <1>1, Zenon DEF ReadCache, JwksInv, LookupInv, ReadInv
    <2> QED BY <1>1, <2>1, ServeKeeps, Zenon DEF ReadCache
  <1>2. CASE Reread(c)
    <2>1. lastFetch = clock /\ clock \in Nat
      BY <1>2, Zenon DEF Reread, JwksInv, LookupInv, ReadInv, TimesInv
    <2>2. lastFetch # None /\ clock <= lastFetch + CacheTtl
      BY <2>1, JwksAssumption
    <2>3. lookups[c].held => lookups[c].overtaken \/ lookups[c].kid \in DOMAIN cache
      BY <1>2, Zenon DEF Reread, JwksInv, LookupInv, HeldInv
    <2> QED BY <1>2, <2>2, <2>3, ServeKeeps, Zenon DEF Reread
  <1> QED BY <1>1, <1>2

LEMMA FetchKeeps ==
    ASSUME JwksInv, NEW c \in Lookups, FetchJwks(c)
    PROVE  JwksInv'
  <1>1. PICK old : old = lookups[c] /\ DOMAIN old = LookupFields
    BY Zenon DEF JwksInv, LookupInv, FetchJwks
  <1>2. PICK new :
            new = [old EXCEPT !.pc = "flight", !.keys = Issuer, !.at = clock,
                              !.held = old.kid \in DOMAIN AsCache(Issuer)]
    BY Zenon
  <1>3. Becomes(c, new)
    BY <1>1, <1>2, Zenon DEF FetchJwks, Becomes
  <1>4. /\ DOMAIN new = LookupFields /\ new.pc = "flight" /\ new.keys = Issuer
        /\ new.at = clock /\ new.kid = old.kid
        /\ new.held = (old.kid \in DOMAIN AsCache(Issuer))
    BY <1>1, <1>2, Zenon DEF LookupFields
  <1>5. FlightInv(new)
    <2>1. clock \in Nat /\ Issuer \subseteq Keys
      BY IssuerKeys, Zenon DEF JwksInv, TimesInv
    <2>2. clock <= clock + MaxFlight /\ clock >= clock /\ clock # None
      BY <2>1, JwksAssumption
    <2>3. \A k \in Issuer : PublishedAt(k, clock)
      BY <2>1, <2>2, Zenon DEF JwksInv, TimesInv, PublishedAt
    <2> QED BY <1>4, <2>1, <2>2, <2>3, Zenon DEF FlightInv
  <1>6. LookupInv(c, new)
    BY <1>4, <1>5, Zenon DEF LookupInv, ReadInv, StampInv, HeldInv, ServedInv
  <1> QED BY <1>3, <1>6, BecomesKeeps, Zenon

LEMMA FailsKeep ==
    ASSUME JwksInv, NEW c \in Lookups, FetchFails(c)
    PROVE  JwksInv'
  <1>1. PICK new : Becomes(c, new) /\ DOMAIN new = LookupFields /\ new.pc = "failed"
    <2>1. lookups[c].pc # "idle" /\ UNCHANGED <<clock, era, seen, cache, lastFetch, lock>>
      BY DEF FetchFails
    <2>2. \E old, new :
             /\ old = lookups[c] /\ LookupInv(c, old) /\ Becomes(c, new)
             /\ DOMAIN new = LookupFields /\ new.pc = "failed" /\ new.kid = old.kid
             /\ new.held = old.held /\ new.overtaken = old.overtaken
      BY <2>1, GotoIs DEF FetchFails
    <2> QED BY <2>2, Zenon
  <1>2. LookupInv(c, new)
    BY <1>1, Zenon DEF LookupInv, FlightInv, ReadInv, StampInv, HeldInv, ServedInv
  <1> QED BY <1>1, <1>2, BecomesKeeps, Zenon

LEMMA TakeKeeps ==
    ASSUME JwksInv, NEW c \in Lookups, Take(c)
    PROVE  JwksInv'
  <1>r. Resting.pc = "idle"
    BY DEF Resting
  <1>1. PICK new : new = Resting /\ new.pc = "idle"
    BY <1>r, Zenon
  <1>2. Becomes(c, new)
    BY <1>1, Zenon DEF Take, Becomes
  <1>3. LookupInv(c, new)
    BY <1>1, Zenon DEF LookupInv, FlightInv, ReadInv, StampInv, HeldInv, ServedInv
  <1> QED BY <1>2, <1>3, BecomesKeeps, Zenon

\* What a fetch brought was published at most a flight ago.
LEMMA InstallCaches ==
    ASSUME JwksInv, NEW c \in Lookups, Install(c)
    PROVE  CachedAt(clock)'
  <1>1. PICK l : l = lookups[c] /\ FlightInv(l) /\ l.pc = "flight" /\ cache' = AsCache(l.keys)
    BY Zenon DEF JwksInv, LookupInv, Install
  <1>2. clock' = clock /\ seen' = seen
    BY Zenon DEF Install
  <1> SUFFICES ASSUME NEW kid \in DOMAIN AsCache(l.keys)
               PROVE  \E k \in Keys : /\ k.kid = kid /\ k.key = AsCache(l.keys)[kid]
                                      /\ seen[k] # None /\ seen[k] + MaxFlight >= clock
    BY <1>1, <1>2, Zenon DEF CachedAt
  <1>3. PICK k \in Cacheable(l.keys) : k.kid = kid /\ k.key = AsCache(l.keys)[kid]
    <2>1. \E k \in Cacheable(l.keys) : k.kid = kid
      BY Zenon DEF AsCache
    <2>2. AsCache(l.keys)[kid] = (CHOOSE k \in Cacheable(l.keys) : k.kid = kid).key
      BY Zenon DEF AsCache
    <2> QED BY <2>1, <2>2, Zenon
  <1>4. /\ k \in Keys /\ seen[k] # None /\ seen[k] >= l.at /\ l.at \in Nat
        /\ clock <= l.at + MaxFlight
    BY <1>1, <1>3, Zenon DEF FlightInv, PublishedAt, Cacheable
  <1>5. seen[k] \in Nat /\ clock \in Nat
    BY <1>4, Zenon DEF JwksInv, TimesInv
  <1>6. seen[k] + MaxFlight >= clock
    BY <1>4, <1>5, JwksAssumption
  <1> QED BY <1>3, <1>4, <1>6, Zenon

LEMMA InstallKeeps ==
    ASSUME JwksInv, NEW c \in Lookups, Install(c)
    PROVE  JwksInv'
  <1>1. /\ UNCHANGED <<clock, era, seen, lastFetch>> /\ lock = None /\ lock' = c
        /\ lookups[c].pc = "flight" /\ cache' = AsCache(lookups[c].keys)
        /\ DOMAIN lookups = Lookups
    BY Zenon DEF Install, JwksInv, TimesInv
  <1>2. TimesInv'
    <2>1. DOMAIN lookups' = Lookups
      BY Zenon DEF Install
    <2> QED BY <1>1, <2>1, Zenon DEF JwksInv, TimesInv, Issuer
  <1>3. CachedAt(clock)'
    BY InstallCaches
  <1>4. lastFetch' # None => CachedAt(lastFetch)'
    <2> SUFFICES ASSUME lastFetch' # None, NEW kid \in DOMAIN cache'
                 PROVE  \E k \in Keys : /\ k.kid = kid /\ k.key = cache'[kid]
                                        /\ seen'[k] # None /\ seen'[k] + MaxFlight >= lastFetch'
      BY Zenon DEF CachedAt
    <2>1. PICK k \in Keys : /\ k.kid = kid /\ k.key = cache'[kid]
                            /\ seen'[k] # None /\ seen'[k] + MaxFlight >= clock'
      BY <1>3, Zenon DEF CachedAt
    <2>2. seen'[k] \in Nat /\ clock' \in Nat /\ lastFetch' \in Nat /\ lastFetch' <= clock'
      BY <1>2, <2>1, Zenon DEF TimesInv
    <2>3. seen'[k] + MaxFlight >= lastFetch'
      BY <2>1, <2>2, JwksAssumption
    <2> QED BY <2>1, <2>3, Zenon
  <1>5. ASSUME NEW d \in Lookups PROVE LookupInv(d, lookups[d])'
    <2>1. PICK old, new : old = lookups[d] /\ new = lookups'[d] /\ LookupInv(d, old)
      BY Zenon DEF JwksInv
    <2>2. /\ FlightInv(old) => FlightInv(old)'
          /\ ReadInv(old) => ReadInv(old)'
          /\ ServedInv(old) => ServedInv(old)'
      BY <1>1, Zenon DEF FlightInv, ReadInv, ServedInv, PublishedAt
    <2>3. CASE d = c
      <3>1. DOMAIN old = LookupFields /\ new = [old EXCEPT !.pc = "stamp"]
        BY <1>1, <2>1, <2>3, Zenon DEF Install, LookupInv
      <3>2. /\ DOMAIN new = LookupFields /\ new.pc = "stamp" /\ new.kid = old.kid
            /\ new.held = old.held /\ new.overtaken = old.overtaken
        BY <3>1, Zenon DEF LookupFields
      <3>3. HeldInv(new)'
        BY <1>1, <2>1, <2>3, <3>2, Zenon DEF HeldInv, LookupInv, FlightInv
      <3>4. StampInv(d, new)'
        BY <1>1, <1>3, <2>3, Zenon DEF StampInv
      <3>5. FlightInv(new)' /\ ReadInv(new)' /\ ServedInv(new)'
        BY <3>2, Zenon DEF FlightInv, ReadInv, ServedInv
      <3>6. LookupInv(d, new)'
        BY <3>2, <3>3, <3>4, <3>5, Zenon DEF LookupInv
      <3> QED BY <2>1, <3>6, LookupNow, Zenon
    <2>4. CASE d # c /\ old.pc = "reread"
      <3>1. DOMAIN old = LookupFields /\ new = [old EXCEPT !.overtaken = TRUE]
        BY <2>1, <2>4, Zenon DEF Install, LookupInv
      <3>2. DOMAIN new = LookupFields /\ new.pc = "reread" /\ new.overtaken
        BY <2>4, <3>1, Zenon DEF LookupFields
      <3>3. ReadInv(new)'
        BY <1>1, <2>1, <2>4, <3>2, Zenon DEF LookupInv, ReadInv
      <3>4. LookupInv(d, new)'
        BY <3>2, <3>3, Zenon DEF LookupInv, FlightInv, StampInv, HeldInv, ServedInv
      <3> QED BY <2>1, <3>4, LookupNow, Zenon
    <2>5. CASE d # c /\ old.pc # "reread"
      <3>1. new = old
        BY <2>1, <2>5, Zenon DEF Install
      <3>2. old.pc # "stamp"
        BY <1>1, <2>1, JwksAssumption, Zenon DEF LookupInv, StampInv
      <3>3. LookupInv(d, old)'
        BY <2>1, <2>2, <2>5, <3>2, Zenon DEF LookupInv, StampInv, HeldInv
      <3> QED BY <2>1, <3>1, <3>3, LookupNow, Zenon
    <2> QED BY <2>3, <2>4, <2>5, Zenon
  <1> QED BY <1>2, <1>4, <1>5, Zenon DEF JwksInv

LEMMA StampKeeps ==
    ASSUME JwksInv, NEW c \in Lookups, Stamp(c)
    PROVE  JwksInv'
  <1>1. /\ UNCHANGED <<clock, era, seen, cache>> /\ lock = c /\ CachedAt(clock)
        /\ lastFetch' = clock /\ DOMAIN lookups = Lookups /\ clock \in Nat
    BY Zenon DEF Stamp, JwksInv, LookupInv, StampInv, TimesInv
  <1>2. TimesInv'
    <2>1. DOMAIN lookups' = Lookups
      BY <1>1, Zenon DEF Stamp, Goto
    <2>2. clock <= clock
      BY <1>1
    <2> QED BY <1>1, <2>1, <2>2, Zenon DEF JwksInv, TimesInv, Issuer
  <1>3. CachedAt(lastFetch)'
    BY <1>1, Zenon DEF CachedAt
  <1>4. ASSUME NEW d \in Lookups PROVE LookupInv(d, lookups[d])'
    <2>1. PICK old, new : old = lookups[d] /\ new = lookups'[d] /\ LookupInv(d, old)
      BY Zenon DEF JwksInv
    <2>2. CASE d = c
      <3>1. DOMAIN old = LookupFields /\ old.pc = "stamp" /\ new = [old EXCEPT !.pc = "reread"]
        BY <1>1, <2>1, <2>2, Zenon DEF Stamp, Goto, LookupInv
      <3>2. /\ DOMAIN new = LookupFields /\ new.pc = "reread" /\ new.kid = old.kid
            /\ new.held = old.held /\ new.overtaken = old.overtaken
        BY <3>1, Zenon DEF LookupFields
      <3>3. HeldInv(new)' /\ ReadInv(new)'
        BY <1>1, <2>1, <3>1, <3>2, Zenon DEF HeldInv, ReadInv, LookupInv
      <3>4. LookupInv(d, new)'
        BY <3>2, <3>3, Zenon DEF LookupInv, FlightInv, StampInv, ServedInv
      <3> QED BY <2>1, <3>4, LookupNow, Zenon
    <2>3. CASE d # c
      <3>1. new = old
        BY <1>1, <2>1, <2>3, Zenon DEF Stamp, Goto
      <3>2. Beside(d)
        <4>1. SeenGrows
          BY <1>1 DEF JwksInv, TimesInv, SeenGrows
        <4> QED BY <1>1, <1>2, <2>3, <4>1, Zenon DEF Beside, JwksInv
      <3> QED BY <2>1, <3>1, <3>2, LookupStays, LookupNow, Zenon
    <2> QED BY <2>2, <2>3, Zenon
  <1> QED BY <1>2, <1>3, <1>4, Zenon DEF JwksInv

LEMMA RotateKeeps ==
    ASSUME JwksInv, Rotate
    PROVE  JwksInv'
  <1>1. /\ UNCHANGED <<clock, cache, lastFetch, lock>> /\ clock \in Nat /\ DOMAIN seen = Keys
        /\ era \in 1 .. Len(KeySets) /\ era' = era + 1 /\ era < Len(KeySets)
    BY Zenon DEF Rotate, JwksInv, TimesInv
  <1>2. era' \in 1 .. Len(KeySets) /\ Issuer' \subseteq Keys
    <2>1. era' \in 1 .. Len(KeySets)
      BY <1>1, JwksAssumption
    <2> QED BY <2>1, JwksAssumption DEF Issuer
  <1>3. TimesInv'
    <2>1. \A k \in Keys : seen'[k] = IF k \in Issuer \cup Issuer' THEN clock ELSE seen[k]
      BY <1>1, Zenon DEF Rotate
    <2>2. DOMAIN seen' = Keys /\ DOMAIN lookups' = Lookups
      BY <1>1, Zenon DEF Rotate
    <2>3. \A k \in Issuer' : seen'[k] = clock'
      BY <1>1, <1>2, <2>1, Zenon
    <2>4. \A k \in Keys : seen'[k] # None => seen'[k] \in Nat /\ seen'[k] <= clock'
      <3>1. clock <= clock
        BY <1>1
      <3> QED BY <1>1, <2>1, <3>1, Zenon DEF JwksInv, TimesInv
    <2> QED BY <1>1, <1>2, <2>2, <2>3, <2>4, Zenon DEF JwksInv, TimesInv
  <1>4. SeenGrows
    <2> SUFFICES ASSUME NEW k \in Keys, seen[k] # None PROVE seen'[k] # None /\ seen'[k] >= seen[k]
      BY Zenon DEF SeenGrows
    <2>1. seen[k] \in Nat /\ seen[k] <= clock
      BY Zenon DEF JwksInv, TimesInv
    <2>2. seen'[k] = clock \/ seen'[k] = seen[k]
      BY <1>1, Zenon DEF Rotate
    <2> QED BY <1>1, <2>1, <2>2, JwksAssumption
  <1>5. lastFetch' # None => CachedAt(lastFetch)'
    <2> SUFFICES ASSUME lastFetch # None PROVE CachedAt(lastFetch)'
      BY <1>1, Zenon
    <2>1. PICK t \in Nat : t = lastFetch /\ t = lastFetch' /\ CachedAt(t)
      BY <1>1, Zenon DEF JwksInv, TimesInv
    <2>2. CachedAt(t)'
      BY <1>1, <1>3, <1>4, <2>1, CachedStays, Zenon DEF JwksInv
    <2> QED BY <2>1, <2>2 DEF CachedAt
  <1>6. ASSUME NEW d \in Lookups PROVE LookupInv(d, lookups[d])'
    <2>1. PICK old, new : old = lookups[d] /\ new = lookups'[d] /\ LookupInv(d, old)
      BY Zenon DEF JwksInv
    <2>2. LookupInv(d, old)'
      BY <1>1, <1>3, <1>4, <2>1, LookupStays, Zenon DEF Beside, JwksInv
    <2>3. CASE old.pc = "idle"
      <3>1. new = old
        BY <2>1, <2>3, Zenon DEF Rotate
      <3> QED BY <2>1, <2>2, <3>1, LookupNow, Zenon
    <2>4. CASE old.pc # "idle"
      <3>1. /\ DOMAIN old = LookupFields
            /\ \E held : new = [old EXCEPT !.held = held] /\ (held => old.held)
        BY <2>1, <2>4, Zenon DEF Rotate, LookupInv
      <3>2. PICK held : new = [old EXCEPT !.held = held] /\ (held => old.held)
        BY <3>1, Zenon
      <3>3. /\ DOMAIN new = LookupFields /\ new.pc = old.pc /\ new.kid = old.kid
            /\ new.keys = old.keys /\ new.at = old.at /\ new.served = old.served
            /\ new.when = old.when /\ (new.held => old.held) /\ new.overtaken = old.overtaken
        BY <3>1, <3>2, Zenon DEF LookupFields
      <3>4. LookupInv(d, new)'
        BY <2>2, <3>3, Zenon DEF LookupInv, FlightInv, ReadInv, StampInv, HeldInv, ServedInv,
                                 PublishedAt
      <3> QED BY <2>1, <3>4, LookupNow, Zenon
    <2> QED BY <2>3, <2>4, Zenon
  <1> QED BY <1>3, <1>5, <1>6, Zenon DEF JwksInv

LEMMA TickKeeps ==
    ASSUME JwksInv, Tick
    PROVE  JwksInv'
  <1>1. /\ UNCHANGED <<era, cache, lastFetch, lock, lookups>> /\ clock \in Nat
        /\ clock' = clock + 1 /\ DOMAIN seen = Keys
        /\ \A k \in Keys : seen[k] # None => seen[k] \in Nat /\ seen[k] <= clock
        /\ lastFetch # None => lastFetch \in Nat /\ lastFetch <= clock
    BY Zenon DEF Tick, JwksInv, TimesInv
  <1>2. /\ DOMAIN seen' = Keys
        /\ \A k \in Keys : seen'[k] = IF k \in Issuer THEN clock' ELSE seen[k]
    BY <1>1, Zenon DEF Tick
  <1>3. /\ clock' \in Nat
        /\ \A t \in Nat : t <= clock => t <= clock' /\ clock' >= t
        /\ clock' <= clock' /\ \A t \in Nat : t >= t
    BY <1>1
  <1>4. TimesInv'
    <2>1. Issuer' = Issuer /\ Issuer \subseteq Keys
      BY <1>1, IssuerKeys, Zenon DEF JwksInv, Issuer
    <2>2. \A k \in Keys : seen'[k] # None => seen'[k] \in Nat /\ seen'[k] <= clock'
      BY <1>1, <1>2, <1>3, Zenon
    <2>3. \A k \in Issuer' : seen'[k] = clock'
      BY <1>2, <2>1, Zenon
    <2> QED BY <1>1, <1>2, <1>3, <2>2, <2>3, Zenon DEF JwksInv, TimesInv
  <1>5. SeenGrows
    <2>1. clock' # None
      BY <1>3, JwksAssumption
    <2> QED BY <1>1, <1>2, <1>3, <2>1, Zenon DEF SeenGrows
  <1>6. lastFetch' # None => CachedAt(lastFetch)'
    <2> SUFFICES ASSUME lastFetch # None PROVE CachedAt(lastFetch)'
      BY <1>1, Zenon
    <2>1. PICK t \in Nat : t = lastFetch /\ t = lastFetch' /\ CachedAt(t)
      BY <1>1, Zenon DEF JwksInv, TimesInv
    <2>2. CachedAt(t)'
      BY <1>1, <1>4, <1>5, <2>1, CachedStays, Zenon DEF JwksInv
    <2> QED BY <2>1, <2>2 DEF CachedAt
  <1>7. ASSUME NEW d \in Lookups PROVE LookupInv(d, lookups[d])'
    <2>1. PICK l : l = lookups[d] /\ l = lookups'[d] /\ LookupInv(d, l)
      BY <1>1, Zenon DEF JwksInv
    <2>2. l.pc = "idle" \/ (l.pc = "flight" /\ clock - l.at < MaxFlight)
      BY <2>1, Zenon DEF Tick
    <2>3. FlightInv(l)'
      <3> SUFFICES ASSUME l.pc = "flight"
                   PROVE  clock' <= l.at + MaxFlight /\ \A k \in l.keys : PublishedAt(k, l.at)'
        BY <2>1, Zenon DEF LookupInv, FlightInv
      <3>1. l.at \in Nat /\ clock - l.at < MaxFlight /\ \A k \in l.keys : PublishedAt(k, l.at)
        BY <2>1, <2>2, Zenon DEF LookupInv, FlightInv
      <3>2. clock' <= l.at + MaxFlight
        BY <1>1, <3>1, JwksAssumption
      <3>3. ASSUME NEW k \in l.keys PROVE PublishedAt(k, l.at)'
        <4>1. /\ k \in Keys /\ seen[k] # None /\ seen[k] >= l.at
              /\ seen[k] \in Nat /\ seen'[k] \in Nat /\ seen'[k] # None /\ seen'[k] >= seen[k]
          BY <1>4, <1>5, <3>1, <3>3, Zenon DEF PublishedAt, JwksInv, TimesInv, SeenGrows
        <4>2. seen'[k] >= l.at
          BY <3>1, <4>1
        <4> QED BY <4>1, <4>2, Zenon DEF PublishedAt
      <3> QED BY <3>2, <3>3, Zenon
    <2>4. LookupInv(d, l)'
      BY <2>1, <2>2, <2>3, Zenon DEF LookupInv, ReadInv, StampInv, HeldInv, ServedInv
    <2> QED BY <2>1, <2>4, LookupNow, Zenon
  <1> QED BY <1>4, <1>6, <1>7, Zenon DEF JwksInv

LEMMA JwksStarts ==
    ASSUME JwksInit
    PROVE  JwksInv
  <1>1. TimesInv
    <2>1. 1 \in 1 .. Len(KeySets) /\ KeySets[1] \subseteq Keys
      BY JwksAssumption
    <2>2. /\ DOMAIN seen = Keys
          /\ \A k \in Keys : seen[k] = IF k \in KeySets[1] THEN 0 ELSE None
      BY Zenon DEF JwksInit
    <2>3. clock = 0 /\ era = 1 /\ lastFetch = None /\ DOMAIN lookups = Lookups
      BY DEF JwksInit
    <2> QED BY <2>1, <2>2, <2>3, JwksAssumption DEF TimesInv, Issuer
  <1>2. ASSUME NEW c \in Lookups PROVE LookupInv(c, lookups[c])
    <2>1. lookups[c].pc = "idle"
      BY Zenon DEF JwksInit, Resting
    <2> QED BY <2>1, Zenon DEF LookupInv, FlightInv, ReadInv, StampInv, HeldInv, ServedInv
  <1> QED BY <1>1, <1>2, Zenon DEF JwksInv, JwksInit

LEMMA JwksKeeps ==
    ASSUME JwksInv, [JwksNext]_jwksVars
    PROVE  JwksInv'
  <1>1. CASE UNCHANGED jwksVars
    <2>1. UNCHANGED <<clock, era, seen, cache, lastFetch, lock, lookups>>
      BY <1>1, Zenon DEF jwksVars
    <2>2. TimesInv'
      BY <2>1, Zenon DEF JwksInv, TimesInv, Issuer
    <2>3. SeenGrows
      BY <2>1 DEF JwksInv, TimesInv, SeenGrows
    <2>4. \A d \in Lookups : Beside(d)
      BY <2>1, <2>2, <2>3, Zenon DEF JwksInv, Beside
    <2>5. lastFetch' # None => CachedAt(lastFetch)'
      BY <2>1, Zenon DEF JwksInv, CachedAt
    <2>6. ASSUME NEW d \in Lookups PROVE LookupInv(d, lookups[d])'
      <3>1. PICK l : l = lookups'[d] /\ LookupInv(d, l)
        BY <2>1, Zenon DEF JwksInv
      <3>2. LookupInv(d, l)'
        BY <2>4, <3>1, LookupStays, Zenon
      <3> QED BY <3>1, <3>2, LookupNow, Zenon
    <2> QED BY <2>2, <2>5, <2>6, Zenon DEF JwksInv
  <1> QED BY <1>1, GetKeyKeeps, CheckExpiryKeeps, ReadsKeep, FetchKeeps, FailsKeep, TakeKeeps,
             InstallKeeps, StampKeeps, RotateKeeps, TickKeeps, Zenon
          DEF JwksNext, LocalStep, RemoteStep

\* JwksCache::get_key is right for any number of lookups: the key it serves was
\* published within the cache's lifetime and one flight of a fetch, and one it
\* reports missing is, or another fetch replaced the cache in between.
THEOREM KeysAreFresh == JwksSpec => []KeyAnswersAreTrue
  <1>1. JwksInit => JwksInv
    BY JwksStarts
  <1>2. JwksInv /\ [JwksNext]_jwksVars => JwksInv'
    BY JwksKeeps, Zenon
  <1>3. JwksInv => KeyAnswersAreTrue
    BY Zenon DEF JwksInv, TimesInv, LookupInv, ServedInv, KeyAnswersAreTrue
  <1> QED BY <1>1, <1>2, <1>3, PTL DEF JwksSpec
-----------------------------------------------------------------------------
(* The answers of the identity chain.                                      *)

CredentialTypes == {"bearer", "api-key", "signed-request"}

IdentityFields == {"user", "tenant", "groups", "resolver", "extra", "kind"}

\* An identity is the one its credential stands for.
Identifies(cred, id) ==
    /\ DOMAIN id = IdentityFields
    /\ id.user = Subject(cred) /\ id.tenant = OwnTenant(cred) /\ id.groups = OwnGroups(cred)

LEMMA CredentialIs ==
    ASSUME NEW headers, ExtractCredential(headers) # None
    PROVE  ExtractCredential(headers).type \in CredentialTypes
  BY DEF ExtractCredential, CredentialTypes

LEMMA ResolvedNames ==
    ASSUME NEW cred, cred.type \in CredentialTypes, NEW cached,
           NEW answer, answer = ResolveIdentity(config.env, cred, Now, cached), answer.ok
    PROVE  Identifies(cred, answer.value)
  <1>e. \A e : ~Err(e).ok
    BY DEF Err
  <1>o. \A x : Ok(x).ok /\ Ok(x).value = x
    BY DEF Ok
  <1>1. CASE cred.type = "bearer"
    <2>1. answer = VerifyToken(cred.token, config.env.jwt, cached)
      BY <1>1, <1>e DEF ResolveIdentity
    <2>2. answer = MapClaims(cred.token, config.env.jwt)
      BY <1>e, <2>1, Zenon DEF VerifyToken
    <2>3. PICK user : /\ user = ExtractUserId(cred.token, config.env.jwt) /\ user.ok
                      /\ answer = Ok(Identity(user.value, None, {}, "cognito_jwt",
                                              IF DOMAIN cred.token.claims = {} THEN None
                                              ELSE cred.token.claims, "User"))
      BY <2>2, Zenon DEF MapClaims
    <2>4. user.value = Subject(cred)
      <3>1. CASE config.env.jwt.userIdClaim = "sub"
        BY <1>1, <1>e, <1>o, <2>3, <3>1, Zenon DEF ExtractUserId, Subject
      <3>2. CASE config.env.jwt.userIdClaim # "sub"
        BY <1>1, <1>e, <1>o, <2>3, <3>2, Zenon DEF ExtractUserId, Subject
      <3> QED BY <3>1, <3>2, Zenon
    <2>5. OwnTenant(cred) = None /\ OwnGroups(cred) = {}
      BY <1>1, Zenon DEF OwnTenant, OwnGroups
    <2>6. PICK extra : answer.value = Identity(user.value, None, {}, "cognito_jwt", extra, "User")
      BY <1>o, <2>3, Zenon
    <2>7. /\ DOMAIN answer.value = IdentityFields
          /\ answer.value.user = user.value /\ answer.value.tenant = None /\ answer.value.groups = {}
      BY <2>6 DEF Identity, IdentityFields
    <2> QED BY <2>4, <2>5, <2>7, Zenon DEF Identifies
  <1>2. CASE cred.type = "api-key"
    <2>1. answer = ResolveApiKey(cred.key, config.env.apiKeys)
      BY <1>2, <1>e DEF ResolveIdentity
    <2>2. PICK extra, kind, resolver :
             answer = Ok(Identity(config.env.apiKeys[cred.key].user, config.env.apiKeys[cred.key].tenant,
                                  config.env.apiKeys[cred.key].groups, resolver, extra, kind))
      BY <1>e, <2>1, Zenon DEF ResolveApiKey
    <2>3. /\ Subject(cred) = config.env.apiKeys[cred.key].user
          /\ OwnTenant(cred) = config.env.apiKeys[cred.key].tenant
          /\ OwnGroups(cred) = config.env.apiKeys[cred.key].groups
      BY <1>2 DEF Subject, OwnTenant, OwnGroups
    <2>4. answer.value = Identity(config.env.apiKeys[cred.key].user, config.env.apiKeys[cred.key].tenant,
                                  config.env.apiKeys[cred.key].groups, resolver, extra, kind)
      BY <1>o, <2>2, Zenon
    <2>5. /\ DOMAIN answer.value = IdentityFields
          /\ answer.value.user = config.env.apiKeys[cred.key].user
          /\ answer.value.tenant = config.env.apiKeys[cred.key].tenant
          /\ answer.value.groups = config.env.apiKeys[cred.key].groups
      BY <2>4 DEF Identity, IdentityFields
    <2> QED BY <2>3, <2>5, Zenon DEF Identifies
  <1>3. CASE cred.type = "signed-request"
    <2>1. answer = VerifySignedRequest(cred, Now, config.env.keyStore)
      BY <1>3, <1>e DEF ResolveIdentity
    <2>2. answer = Ok(Identity(cred.keyId, FindHeader(cred.headers, "x-fg-org-id"), {}, "ed25519", None,
                               "Machine"))
      BY <1>e, <2>1, Zenon DEF VerifySignedRequest
    <2>3. /\ Subject(cred) = cred.keyId /\ OwnGroups(cred) = {}
          /\ OwnTenant(cred) = FindHeader(cred.headers, "x-fg-org-id")
      BY <1>3 DEF Subject, OwnTenant, OwnGroups
    <2> QED BY <1>o, <2>2, <2>3 DEF Identifies, Identity, IdentityFields
  <1> QED BY <1>1, <1>2, <1>3, Zenon DEF CredentialTypes
-----------------------------------------------------------------------------
(* What is known of a call, at its awaits and at its end.                  *)

CallFields ==
    {"pc", "req", "input", "mode", "public", "cred", "identity", "org", "flags", "route", "query",
     "answer", "joined", "effect", "record", "status", "denied", "body", "corsOrigin", "sent", "reply"}

\* A call of the host's, with the input the host made of the request.
Formed(c) ==
    /\ DOMAIN c = CallFields
    /\ c.req \in Requests(config.host)
    /\ c.mode \in {"Enforce", "Observe"}

\* Neither routed nor decided yet.
Fresh(c) ==
    /\ c.answer = None /\ c.sent = None /\ ~c.denied /\ c.effect = "NotEvaluated"
    /\ c.route = None /\ c.flags = None /\ c.body = None /\ c.status = 0

\* Not a request for the explanation of the flags.
Plain(c) == config.debug => c.input.path # FlagsDebugPath

InputOf(c) == c.input.headers = c.req.headers \/ c.input.headers = <<>>

AtIdentity(c) ==
    /\ Fresh(c) /\ Plain(c) /\ InputOf(c)
    /\ c.identity = None /\ c.joined = None
    /\ c.cred # None /\ c.cred = ExtractCredential(c.req.headers)

AtMember(c) ==
    /\ Fresh(c) /\ Plain(c)
    /\ c.joined = None
    /\ Identifies(c.cred, c.identity)
    /\ None \notin Enriched(c.identity, c.req)
    /\ c.org = FindHeader(c.req.headers, "x-fg-org-id")

\* The identity is the credential's, or the member's of the organisation that
\* the request names.
Caller(c) ==
    /\ c.identity.user = Subject(c.cred)
    /\ IF c.joined = None
       THEN c.identity.tenant = OwnTenant(c.cred) /\ c.identity.groups = OwnGroups(c.cred)
       ELSE /\ c.identity.tenant = FindHeader(c.req.headers, "x-fg-org-id")
            /\ c.identity.groups = c.joined.value

Asked(c) ==
    /\ c.query.user = Subject(c.cred)
    /\ IF c.joined = None
       THEN c.query.tenant = OwnTenant(c.cred) /\ c.query.groups = OwnGroups(c.cred)
       ELSE /\ c.query.tenant = FindHeader(c.req.headers, "x-fg-org-id")
            /\ c.query.groups = c.joined.value
    /\ c.query.action = MatchRequest(config.routes, c.input.method, c.input.path).action

Routed(c) ==
    /\ c.public = "NotPublic" => c.identity # None
    /\ c.route = None => IsPublic(c.public) \/ config.passthrough
    /\ c.route # None /\ c.route.gate # None => FlagEnabled(c.flags, c.route.gate)
    /\ c.identity # None /\ c.route # None => Asked(c)

AtPolicy(c) ==
    /\ Plain(c) /\ Routed(c)
    /\ c.answer = None /\ c.sent = None /\ ~c.denied /\ c.body = None /\ c.status = 0

\* Decided in favour of the request.
Passed(c) ==
    /\ Plain(c) /\ Routed(c)
    /\ c.identity # None /\ c.route # None /\ c.mode = "Enforce" => c.answer.result = "allow"
    /\ c.effect # "Denied"

Explained(c) ==
    /\ c.flags # None =>
         LET why == EvaluateFlagsDetailed(config.flags, c.identity.tenant, c.identity.user,
                                          c.identity.groups)
         IN  \A n \in DOMAIN c.flags : c.flags[n] = why[n].value
    /\ c.input # None /\ config.debug /\ c.input.path = FlagsDebugPath /\ c.body # None =>
         \A n \in DOMAIN c.body :
             c.body[n].value = EvaluateFlags(config.flags, c.query.tenant, c.query.user,
                                             c.query.groups)[n]

\* A decision and its effect.
Effects == {"Allowed", "Denied", "WouldAllow", "WouldDeny"}

Effective(c) ==
    /\ c.record = c.answer.record /\ c.record \in Records \cup {None}
    /\ c.effect = PolicyEffect(c.mode, c.answer.result = "allow") /\ c.effect \in Effects
    /\ c.effect = "Denied" <=> c.status = 403

\* What the pipeline hands to its host, at an await or at its end.
Piped(c) ==
    /\ Formed(c) /\ Explained(c) /\ c.sent = None
    /\ c.pc \in {"identity", "member", "policy", "health", "debug", "reject", "forward", "sent", "done"}
    /\ c.pc = "identity" => AtIdentity(c)
    /\ c.pc = "member" => AtMember(c)
    /\ c.pc = "policy" => AtPolicy(c)
    /\ c.pc = "forward" => Passed(c)
    /\ c.answer = None => ~c.denied /\ (c.pc = "forward" => c.effect = "NotEvaluated")
    /\ c.answer # None =>
          /\ Effective(c)
          /\ (c.pc = "reject" /\ c.denied) \/ c.pc = "forward"

\* What a host keeps of a call.
CallInv(c) ==
    c.pc # "idle" =>
        /\ Formed(c) /\ Explained(c)
        /\ c.pc \in {"identity", "member", "policy", "upstream", "waiting", "handler", "sent", "done",
                     "gone"}
        /\ c.pc = "identity" => AtIdentity(c)
        /\ c.pc = "member" => AtMember(c)
        /\ c.pc = "policy" => AtPolicy(c)
        /\ c.pc \in {"upstream", "waiting", "handler"} \/ c.sent # None => Passed(c)
        /\ c.answer # None => Effective(c) /\ c.pc \notin {"identity", "member", "policy"}

-----------------------------------------------------------------------------
(* The phases of the pipeline.                                             *)

LEMMA FlagsAgree ==
    ASSUME NEW flags, NEW tenant, NEW user, NEW groups
    PROVE  \A n \in DOMAIN flags : EvaluateFlags(flags, tenant, user, groups)[n]
                                     = EvaluateFlagsDetailed(flags, tenant, user, groups)[n].value
  <1>1. ASSUME NEW n, NEW flag
        PROVE  ResolveSingleFlag(n, flag, tenant, user, groups)
                 = ResolveSingleFlagDetailed(n, flag, tenant, user, groups).value
    BY DEF ResolveSingleFlag, ResolveSingleFlagDetailed
  <1> QED BY <1>1 DEF EvaluateFlags, EvaluateFlagsDetailed

LEMMA NoHeaders ==
    /\ \A name : FindHeader(<<>>, name) = None
    /\ ExtractCredential(<<>>) = None
  <1>1. \A name : FindHeader(<<>>, name) = None
    BY SMTT(20) DEF FindHeader
  <1> QED BY <1>1 DEF ExtractCredential, ProtocolHeaders

\* What no phase before the policy changes.
Shares(n, c) ==
    /\ DOMAIN n = CallFields
    /\ n.req = c.req /\ n.input = c.input /\ n.mode = c.mode /\ n.joined = c.joined
    /\ n.answer = c.answer /\ n.sent = c.sent /\ n.denied = c.denied /\ n.body = c.body
    /\ n.effect = c.effect

LEMMA RejectPiped ==
    ASSUME NEW c, Formed(c), Fresh(c), NEW status
    PROVE  Piped(Reject(c, status))
  <1>1. PICK n : n = Reject(c, status)
    OBVIOUS
  <1>2. Shares(n, c) /\ n.pc = "reject" /\ n.flags = c.flags
    BY <1>1 DEF Reject, Formed, CallFields, Shares
  <1> QED BY <1>1, <1>2 DEF Shares, Formed, Fresh, Piped, Explained

\* Ready for the route.
Ready(c) ==
    /\ Formed(c) /\ Fresh(c) /\ Plain(c)
    /\ c.public = "NotPublic" => c.identity # None
    /\ c.identity # None => Caller(c)

\* The identity, the flags and the route that phases 6 to 8 leave in a call.
Matched(n, c) ==
    /\ Shares(n, c) /\ n.public = c.public /\ n.cred = c.cred /\ n.identity = c.identity
    /\ n.flags = IF c.identity = None THEN None
                 ELSE EvaluateFlags(config.flags, c.identity.tenant, c.identity.user,
                                    c.identity.groups)
    /\ n.route = MatchRequest(config.routes, c.input.method, c.input.path)

LEMMA MatchedExplained ==
    ASSUME NEW c, Ready(c), NEW n, Matched(n, c)
    PROVE  Formed(n) /\ Explained(n) /\ Plain(n)
  <1>1. Formed(n) /\ Plain(n) /\ n.body = None
    BY Zenon DEF Ready, Matched, Shares, Formed, Plain, Fresh
  <1>2. ASSUME n.flags # None
        PROVE  LET why == EvaluateFlagsDetailed(config.flags, n.identity.tenant, n.identity.user,
                                                n.identity.groups)
               IN  \A f \in DOMAIN n.flags : n.flags[f] = why[f].value
    <2>1. n.flags = EvaluateFlags(config.flags, n.identity.tenant, n.identity.user, n.identity.groups)
      BY <1>2, Zenon DEF Matched
    <2>2. DOMAIN n.flags = DOMAIN config.flags
      BY <2>1, Zenon DEF EvaluateFlags
    <2>3. \A f \in DOMAIN config.flags :
             EvaluateFlags(config.flags, n.identity.tenant, n.identity.user, n.identity.groups)[f]
               = EvaluateFlagsDetailed(config.flags, n.identity.tenant, n.identity.user,
                                       n.identity.groups)[f].value
      BY FlagsAgree
    <2> QED BY <2>1, <2>2, <2>3, Zenon
  <1> QED BY <1>1, <1>2, Zenon DEF Explained

LEMMA MatchPiped ==
    ASSUME NEW c, Ready(c)
    PROVE  Piped(MatchRoute(config, c))
  <1> DEFINE flags == IF c.identity = None THEN None
                      ELSE EvaluateFlags(config.flags, c.identity.tenant, c.identity.user,
                                         c.identity.groups)
             route == MatchRequest(config.routes, c.input.method, c.input.path)
             next  == [c EXCEPT !.flags = flags, !.route = route]
             asks  == [next EXCEPT !.pc = "policy", !.query = BuildQuery(c.identity, route, c.input.ip)]
  <1>1. PICK n : n = MatchRoute(config, c)
    BY Zenon
  <1>2. n = IF route # None
            THEN IF GateCloses(route, flags) THEN Reject(next, 404)
                 ELSE IF c.identity = None THEN [next EXCEPT !.pc = "forward"] ELSE asks
            ELSE IF IsPublic(c.public) \/ config.passthrough THEN [next EXCEPT !.pc = "forward"]
            ELSE Reject(next, 403)
    BY <1>1, Zenon DEF MatchRoute
  <1>3. /\ DOMAIN next = CallFields /\ Matched(next, c)
        /\ next.status = c.status
    BY DEF Ready, Formed, CallFields, Matched, Shares
  <1>d. /\ flags = IF c.identity = None THEN None
                   ELSE EvaluateFlags(config.flags, c.identity.tenant, c.identity.user,
                                      c.identity.groups)
        /\ route = MatchRequest(config.routes, c.input.method, c.input.path)
        /\ asks = [next EXCEPT !.pc = "policy", !.query = BuildQuery(c.identity, route, c.input.ip)]
    BY Zenon
  <1> HIDE DEF flags, route, next, asks
  <1>f. c.answer = None /\ c.sent = None /\ ~c.denied /\ c.effect = "NotEvaluated" /\ c.body = None
        /\ c.status = 0
    BY Zenon DEF Ready, Fresh
  <1>4. CASE \E status : n = Reject(next, status)
    <2>r. PICK status : n = Reject(next, status)
      BY <1>4, Zenon
    <2>1. n.pc = "reject" /\ Matched(n, c)
      BY <1>3, <2>r DEF Reject, CallFields, Matched, Shares
    <2> QED BY <1>1, <1>f, <2>1, MatchedExplained, Zenon DEF Piped, Matched, Shares
  <1>5. CASE /\ n = [next EXCEPT !.pc = "forward"]
             /\ route = None \/ (~GateCloses(route, flags) /\ c.identity = None)
             /\ route = None => IsPublic(c.public) \/ config.passthrough
    <2>1. n.pc = "forward" /\ Matched(n, c)
      BY <1>3, <1>5 DEF CallFields, Matched, Shares
    <2>2. Routed(n)
      BY <1>d, <1>5, <2>1, Zenon DEF Matched, Routed, GateCloses, Ready
    <2>3. n.identity = None \/ n.route = None
      BY <1>d, <1>5, <2>1, Zenon DEF Matched
    <2>4. Passed(n)
      BY <1>f, <2>1, <2>2, <2>3, MatchedExplained, Zenon DEF Passed, Matched, Shares
    <2> QED BY <1>1, <1>f, <2>1, <2>4, MatchedExplained, Zenon DEF Piped, Matched, Shares
  <1>6. CASE /\ n = asks
             /\ ~GateCloses(route, flags) /\ route # None /\ c.identity # None
    <2>1. /\ n.pc = "policy" /\ Matched(n, c) /\ n.status = next.status
          /\ n.query = BuildQuery(c.identity, route, c.input.ip)
      BY <1>3, <1>6, <1>d DEF CallFields, Matched, Shares
    <2>2. /\ n.query.user = c.identity.user /\ n.query.tenant = c.identity.tenant
          /\ n.query.groups = c.identity.groups /\ n.query.action = route.action
      BY <2>1 DEF BuildQuery
    <2>3. Asked(n)
      <3>1. Caller(c)
        BY <1>6, Zenon DEF Ready
      <3> QED BY <1>d, <2>1, <2>2, <3>1, Zenon DEF Asked, Caller, Matched, Shares
    <2>4. Routed(n)
      BY <1>d, <1>6, <2>1, <2>3, Zenon DEF Matched, Routed, GateCloses
    <2>5. AtPolicy(n)
      BY <1>3, <1>f, <2>1, <2>4, MatchedExplained, Zenon DEF AtPolicy, Matched, Shares
    <2> QED BY <1>1, <1>f, <2>1, <2>5, MatchedExplained, Zenon DEF Piped, Matched, Shares
  <1> QED BY <1>2, <1>4, <1>5, <1>6, ZenonT(30)

\* Ready for the membership of phase 5b.
Enterable(c) ==
    /\ Formed(c) /\ Fresh(c) /\ Plain(c) /\ InputOf(c)
    /\ c.joined = None
    /\ c.public = "NotPublic" => c.identity # None
    /\ c.identity # None => Identifies(c.cred, c.identity) /\ None \notin Enriched(c.identity, c.req)

LEMMA EnrichPiped ==
    ASSUME NEW c, Enterable(c)
    PROVE  Piped(Enrich(config, c))
  <1>1. Ready(c)
    BY Zenon DEF Enterable, Ready, Caller, Identifies
  <1>2. PICK n, org : n = Enrich(config, c) /\ org = FindHeader(c.input.headers, "x-fg-org-id")
    OBVIOUS
  <1>3. CASE n = MatchRoute(config, c)
    BY <1>1, <1>2, <1>3, MatchPiped, Zenon
  <1>4. CASE n = Reject(c, 400)
    BY <1>2, <1>4, RejectPiped DEF Enterable
  <1>5. CASE c.identity # None /\ org # None /\ n = [c EXCEPT !.pc = "member", !.org = org]
    <2>1. /\ Shares(n, c) /\ n.pc = "member" /\ n.org = org /\ n.cred = c.cred
          /\ n.identity = c.identity /\ n.flags = c.flags /\ n.route = c.route /\ n.status = c.status
      BY <1>5 DEF Enterable, Formed, CallFields, Shares
    <2>2. org = FindHeader(c.req.headers, "x-fg-org-id")
      BY <1>2, <1>5, NoHeaders, Zenon DEF Enterable, InputOf
    <2>3. Formed(n) /\ Fresh(n) /\ Plain(n)
      BY <2>1, Zenon DEF Enterable, Shares, Formed, Fresh, Plain
    <2>4. AtMember(n)
      BY <1>5, <2>1, <2>2, <2>3, Zenon DEF AtMember, Enterable, Shares
    <2> QED BY <1>2, <2>1, <2>3, <2>4, Zenon DEF Piped, Fresh, Explained
  <1> QED BY <1>2, <1>3, <1>4, <1>5, ZenonT(30) DEF Enrich

LEMMA IdentifiedPiped ==
    ASSUME running \in DOMAIN Configs,
           NEW c, Formed(c), AtIdentity(c), NEW cached \in CacheAnswers(c.cred),
           NEW answer, answer = ResolveIdentity(config.env, c.cred, Now, cached)
    PROVE  Piped(Identified(config, c, answer))
  <1>1. CASE answer.ok
    <2>1. PICK k : k = [c EXCEPT !.identity = answer.value]
      BY Zenon
    <2>2. /\ Shares(k, c) /\ k.identity = answer.value /\ k.cred = c.cred /\ k.public = c.public
          /\ k.flags = c.flags /\ k.route = c.route /\ k.status = c.status
      BY <2>1 DEF Formed, CallFields, Shares
    <2>3. Formed(k) /\ Fresh(k) /\ Plain(k) /\ InputOf(k) /\ k.joined = None
      BY <2>2, Zenon DEF AtIdentity, Shares, Formed, Fresh, Plain, InputOf
    <2>4. Identifies(c.cred, answer.value)
      BY <1>1, CredentialIs, ResolvedNames, Zenon DEF AtIdentity
    <2>5. None \notin Enriched(answer.value, c.req)
      <3>1. config \in {Configs[name] : name \in DOMAIN Configs}
        BY Zenon DEF config
      <3> QED BY <1>1, <3>1, HostsAssumption, Zenon DEF AtIdentity, Formed
    <2>6. answer.value # None
      BY <2>5, Zenon DEF Enriched
    <2>7. Enterable(k)
      BY <2>2, <2>3, <2>4, <2>5, <2>6, Zenon DEF Enterable, Shares
    <2> QED BY <1>1, <2>1, <2>7, EnrichPiped, Zenon DEF Identified
  <1>2. CASE ~answer.ok /\ c.public = "NotPublic"
    BY <1>2, RejectPiped DEF Identified, AtIdentity
  <1>3. CASE ~answer.ok /\ c.public # "NotPublic"
    <2>1. Enterable(c)
      BY <1>3, Zenon DEF AtIdentity, Enterable
    <2> QED BY <1>3, <2>1, EnrichPiped, Zenon DEF Identified
  <1> QED BY <1>1, <1>2, <1>3, Zenon

LEMMA JoinedPiped ==
    ASSUME NEW c, Formed(c), AtMember(c), NEW answer \in Memberships
    PROVE  Piped(Joined(config, [c EXCEPT !.joined = answer], answer))
  <1>1. PICK k : k = [c EXCEPT !.joined = answer]
    BY Zenon
  <1>2. /\ DOMAIN k = CallFields /\ k.req = c.req /\ k.input = c.input /\ k.mode = c.mode
        /\ k.joined = answer /\ k.org = c.org /\ k.identity = c.identity /\ k.cred = c.cred
        /\ k.answer = c.answer /\ k.sent = c.sent /\ k.denied = c.denied /\ k.effect = c.effect
        /\ k.route = c.route /\ k.flags = c.flags /\ k.body = c.body /\ k.status = c.status
        /\ k.public = c.public
    BY <1>1 DEF Formed, CallFields
  <1>3. Formed(k) /\ Fresh(k) /\ Plain(k)
    BY <1>2, Zenon DEF Formed, Fresh, Plain, AtMember
  <1>4. CASE ~answer.ok \/ answer.value = None
    BY <1>1, <1>3, <1>4, RejectPiped DEF Joined
  <1>5. CASE answer.ok /\ answer.value # None
    <2>1. PICK m : m = [k EXCEPT !.identity.tenant = k.org, !.identity.groups = answer.value]
      OBVIOUS
    <2>2. PICK id : id = [c.identity EXCEPT !.tenant = c.org, !.groups = answer.value]
      OBVIOUS
    <2>3. Shares(m, k) /\ m.identity = id /\ m.cred = k.cred /\ m.public = k.public /\ m.flags = k.flags
          /\ m.route = k.route /\ m.status = k.status
      BY <1>2, <2>1, <2>2 DEF CallFields, Shares, AtMember, Identifies, IdentityFields
    <2>4. id.tenant = c.org /\ id.groups = answer.value /\ id.user = c.identity.user
      BY <2>2 DEF AtMember, Identifies, IdentityFields
    <2>5. id # None
      <3>1. id \in Enriched(c.identity, c.req)
        BY <1>5, <2>2, Zenon DEF Enriched, AtMember
      <3> QED BY <3>1, Zenon DEF AtMember
    <2>6. Formed(m) /\ Fresh(m) /\ Plain(m)
      BY <1>3, <2>3, Zenon DEF Formed, Fresh, Plain, Shares
    <2>7. Caller(m)
      <3>1. m.joined = answer /\ m.req = c.req /\ m.cred = c.cred
        BY <1>2, <2>3, Zenon DEF Shares
      <3>2. answer # None
        BY HostsAssumption, Zenon
      <3> QED BY <2>3, <2>4, <3>1, <3>2, Zenon DEF Caller, AtMember, Identifies
    <2>8. Ready(m)
      BY <2>3, <2>5, <2>6, <2>7, Zenon DEF Ready
    <2> QED BY <1>1, <1>5, <2>1, <2>8, MatchPiped, Zenon DEF Joined
  <1> QED BY <1>4, <1>5, Zenon

LEMMA DecidedPiped ==
    ASSUME NEW c, Formed(c), Explained(c), AtPolicy(c), NEW answer \in EngineResults
    PROVE  Piped(Decided(c, answer))
  <1>1. PICK n, effect : n = Decided(c, answer) /\ effect = PolicyEffect(c.mode, answer.result = "allow")
    OBVIOUS
  <1>2. /\ effect \in Effects /\ answer.record \in Records \cup {None}
        /\ effect # "Denied" /\ c.mode = "Enforce" => answer.result = "allow"
    BY <1>1 DEF PolicyEffect, Effects, Formed, EngineResults
  <1>3. answer # None
    BY HostsAssumption, Zenon
  <1>4. /\ DOMAIN n = CallFields /\ n.req = c.req /\ n.input = c.input /\ n.mode = c.mode
        /\ n.joined = c.joined /\ n.answer = answer /\ n.sent = c.sent /\ n.body = c.body
        /\ n.effect = effect /\ n.record = answer.record /\ n.public = c.public /\ n.cred = c.cred
        /\ n.identity = c.identity /\ n.flags = c.flags /\ n.route = c.route /\ n.query = c.query
        /\ IF effect = "Denied" THEN n.pc = "reject" /\ n.denied /\ n.status = 403
           ELSE n.pc = "forward" /\ n.status = c.status
    BY <1>1 DEF Decided, Reject, Formed, CallFields
  <1>5. Formed(n) /\ Explained(n) /\ Plain(n) /\ n.sent = None
    BY <1>4, Zenon DEF Formed, Explained, Plain, AtPolicy
  <1>6. Effective(n)
    BY <1>1, <1>2, <1>4 DEF Effective, AtPolicy
  <1>7. Routed(n)
    BY <1>4, Zenon DEF Routed, Asked, AtPolicy
  <1>8. n.pc = "forward" => Passed(n)
    BY <1>2, <1>4, <1>5, <1>7, Zenon DEF Passed
  <1> QED BY <1>1, <1>3, <1>4, <1>5, <1>6, <1>8, Zenon DEF Piped

LEMMA DebugPiped ==
    ASSUME NEW c, Formed(c), Fresh(c)
    PROVE  Piped(DebugResponse(config, c))
  <1>1. PICK query : query = ParseDebugQuery(c.input.query)
    OBVIOUS
  <1>2. CASE query = None
    BY <1>1, <1>2, RejectPiped DEF DebugResponse
  <1>3. CASE query # None
    <2>1. PICK n : n = DebugResponse(config, c)
      OBVIOUS
    <2>2. /\ DOMAIN n = CallFields /\ n.pc = "debug" /\ n.req = c.req /\ n.mode = c.mode
          /\ n.sent = c.sent /\ n.flags = c.flags /\ n.answer = c.answer /\ n.denied = c.denied
          /\ n.query = query /\ n.body = EvaluateDebug(config.flags, query)
      BY <1>1, <1>3, <2>1 DEF DebugResponse, Formed, CallFields
    <2>3. \A f \in DOMAIN n.body :
             n.body[f].value = EvaluateFlags(config.flags, n.query.tenant, n.query.user,
                                             n.query.groups)[f]
      <3>1. DOMAIN n.body = DOMAIN config.flags
        BY <2>2, Zenon DEF EvaluateDebug, EvaluateFlagsDetailed
      <3>2. \A f \in DOMAIN config.flags :
               EvaluateFlags(config.flags, query.tenant, query.user, query.groups)[f]
                 = EvaluateFlagsDetailed(config.flags, query.tenant, query.user, query.groups)[f].value
        BY FlagsAgree
      <3>3. n.body = EvaluateFlagsDetailed(config.flags, query.tenant, query.user, query.groups)
        BY <2>2, Zenon DEF EvaluateDebug
      <3> QED BY <2>2, <3>1, <3>2, <3>3, ZenonT(30)
    <2> QED BY <2>1, <2>2, <2>3, Zenon DEF Piped, Formed, Fresh, Explained
  <1> QED BY <1>2, <1>3, Zenon

\* A call the host has just made.
New(c) ==
    /\ Formed(c) /\ Fresh(c) /\ InputOf(c)
    /\ c.identity = None /\ c.joined = None /\ c.cred = None

LEMMA BeginPiped ==
    ASSUME NEW c, New(c)
    PROVE  Piped(Begin(config, c))
  <1>1. PICK n, next, public, cred :
           /\ n = Begin(config, c)
           /\ public = PublicCheck(config.publics, c.input.method, c.input.path)
           /\ next = [c EXCEPT !.public = public]
           /\ cred = IF public = "Anonymous" THEN None ELSE ExtractCredential(c.input.headers)
    BY Zenon
  <1>2. CASE n = [c EXCEPT !.pc = "health", !.status = 200]
    <2>1. Shares(n, c) /\ n.pc = "health" /\ n.flags = c.flags
      BY <1>2 DEF New, Formed, CallFields, Shares
    <2> QED BY <1>1, <2>1, Zenon DEF New, Formed, Fresh, Shares, Piped, Explained
  <1>3. CASE n = DebugResponse(config, c)
    BY <1>1, <1>3, DebugPiped, Zenon DEF New
  <1>4. /\ Shares(next, c) /\ next.public = public /\ next.identity = c.identity /\ next.cred = c.cred
        /\ next.flags = c.flags /\ next.route = c.route /\ next.status = c.status
    BY <1>1 DEF New, Formed, CallFields, Shares
  <1>5. Formed(next) /\ Fresh(next) /\ InputOf(next) /\ next.joined = None /\ next.identity = None
    BY <1>4, Zenon DEF New, Shares, Formed, Fresh, InputOf
  <1>6. CASE /\ n = [next EXCEPT !.pc = "identity", !.cred = cred]
             /\ cred # None /\ ~(config.debug /\ c.input.path = FlagsDebugPath)
    <2>1. /\ Shares(n, next) /\ n.pc = "identity" /\ n.cred = cred /\ n.identity = next.identity
          /\ n.flags = next.flags /\ n.route = next.route /\ n.status = next.status
      BY <1>5, <1>6 DEF Formed, CallFields, Shares
    <2>2. Formed(n) /\ Fresh(n) /\ InputOf(n) /\ n.joined = None /\ n.identity = None
      BY <1>5, <2>1, Zenon DEF Shares, Formed, Fresh, InputOf
    <2>c. cred = ExtractCredential(c.input.headers) /\ c.input.headers # <<>>
      BY <1>1, <1>6, NoHeaders, Zenon
    <2>i. n.input = c.input /\ n.req = c.req
      BY <1>4, <2>1, Zenon DEF Shares
    <2>3. Plain(n) /\ n.cred = ExtractCredential(n.req.headers)
      BY <1>6, <2>1, <2>c, <2>i, Zenon DEF Plain, New, InputOf
    <2>4. AtIdentity(n)
      BY <1>6, <2>1, <2>2, <2>3, Zenon DEF AtIdentity
    <2> QED BY <1>1, <2>1, <2>2, <2>4, Zenon DEF Piped, Fresh, Explained
  <1>7. CASE n = Reject(next, 401)
    BY <1>1, <1>5, <1>7, RejectPiped
  <1>8. CASE /\ n = Enrich(config, next) /\ public # "NotPublic"
             /\ ~(config.debug /\ c.input.path = FlagsDebugPath)
    <2>1. Plain(next)
      BY <1>4, <1>8, Zenon DEF Plain, Shares
    <2>2. Enterable(next)
      BY <1>4, <1>5, <1>8, <2>1, Zenon DEF Enterable
    <2> QED BY <1>1, <1>8, <2>2, EnrichPiped, Zenon
  <1> QED BY <1>1, <1>2, <1>3, <1>6, <1>7, <1>8, ZenonT(30) DEF Begin

-----------------------------------------------------------------------------
(* The hosts.                                                              *)

Entries == [slot : Slots, record : Records \cup {None}, mode : {"Enforce", "Observe"}, effect : Effects]

EntriesOf(log, s) == {i \in DOMAIN log : log[i].slot = s}

\* The sink holds one entry for a decided call and none for another.
Reported(s, c) ==
    IF c.pc = "idle" \/ c.answer = None THEN EntriesOf(sink, s) = {}
    ELSE \E i \in EntriesOf(sink, s) :
           /\ EntriesOf(sink, s) = {i}
           /\ sink[i].record = c.record /\ sink[i].mode = c.mode /\ sink[i].effect = c.effect

DataPlaneInv ==
    /\ running \in DOMAIN Configs
    /\ DOMAIN calls = Slots
    /\ sink \in Seq(Entries)
    /\ \A s \in Slots : \A c : c = calls[s] => CallInv(c)
    /\ config.host = "axum" => \A s \in Slots : \A c : c = calls[s] => Reported(s, c)

LEMMA CallStays ==
    ASSUME UNCHANGED running
    PROVE  \A c : CallInv(c) <=> CallInv(c)'
  <1>1. config' = config
    BY Zenon DEF config
  <1>2. \A c : (Formed(c) <=> Formed(c)') /\ (Plain(c) <=> Plain(c)')
    BY <1>1, Zenon DEF Formed, Plain
  <1>3. \A cred : /\ Subject(cred)' = Subject(cred) /\ OwnTenant(cred)' = OwnTenant(cred)
                  /\ OwnGroups(cred)' = OwnGroups(cred)
    BY <1>1, Zenon DEF Subject, OwnTenant, OwnGroups
  <1>4. \A c : Asked(c) <=> Asked(c)'
    BY <1>1, <1>3, Zenon DEF Asked
  <1>5. \A c : Routed(c) <=> Routed(c)'
    BY <1>1, <1>4, Zenon DEF Routed
  <1>6. \A c : (Passed(c) <=> Passed(c)') /\ (AtPolicy(c) <=> AtPolicy(c)')
    BY <1>2, <1>5, Zenon DEF Passed, AtPolicy
  <1>7. \A cred, id : Identifies(cred, id) <=> Identifies(cred, id)'
    BY <1>3, Zenon DEF Identifies
  <1>8. \A c : (AtMember(c) <=> AtMember(c)') /\ (AtIdentity(c) <=> AtIdentity(c)')
    BY <1>2, <1>7, Zenon DEF AtMember, AtIdentity
  <1>9. \A c : Explained(c) <=> Explained(c)'
    BY <1>1, Zenon DEF Explained
  <1> QED BY <1>2, <1>6, <1>8, <1>9, Zenon DEF CallInv

\* What a host does to a call after the pipeline: it may answer it, and send
\* its request on.
Handles(n, c) ==
    /\ DOMAIN n = CallFields
    /\ n.req = c.req /\ n.input = c.input /\ n.mode = c.mode /\ n.joined = c.joined
    /\ n.answer = c.answer /\ n.effect = c.effect /\ n.record = c.record
    /\ n.public = c.public /\ n.cred = c.cred /\ n.identity = c.identity /\ n.flags = c.flags
    /\ n.route = c.route /\ n.query = c.query

LEMMA HandlesPassed ==
    ASSUME NEW c, NEW n, Handles(n, c)
    PROVE  /\ Formed(c) => Formed(n)
           /\ Passed(c) => Passed(n)
           /\ Explained(c) /\ (n.body = c.body \/ Plain(c)) => Explained(n)
           /\ Effective(c) /\ (n.status = c.status \/ (c.effect # "Denied" /\ n.status # 403))
                => Effective(n)
  <1>1. Formed(c) => Formed(n)
    BY Zenon DEF Handles, Formed
  <1>2. Passed(c) => Passed(n)
    BY Zenon DEF Handles, Passed, Plain, Routed, Asked
  <1>3. Explained(c) /\ (n.body = c.body \/ Plain(c)) => Explained(n)
    <2>1. n.flags = c.flags /\ n.identity = c.identity /\ n.input = c.input /\ n.query = c.query
      BY Zenon DEF Handles
    <2> QED BY <2>1 DEF Explained, Plain
  <1>4. Effective(c) /\ (n.status = c.status \/ (c.effect # "Denied" /\ n.status # 403))
          => Effective(n)
    BY DEF Handles, Effective
  <1> QED BY <1>1, <1>2, <1>3, <1>4, Zenon

\* A call that has ended, or whose request is on its way to the application.
Beyond(n, c) ==
    /\ Handles(n, c)
    /\ n.pc \in {"upstream", "waiting", "handler", "sent", "done", "gone"}

LEMMA BeyondInv ==
    ASSUME NEW c, NEW n, Beyond(n, c), Formed(c), Explained(c), n.body = c.body \/ Plain(c),
           c.answer # None => Effective(c),
           c.answer # None => (n.status = c.status \/ (c.effect # "Denied" /\ n.status # 403)),
           n.pc \in {"upstream", "waiting", "handler"} \/ n.sent # None => Passed(c)
    PROVE  CallInv(n)
  <1>1. Formed(n) /\ Explained(n)
    BY HandlesPassed, ZenonT(30) DEF Beyond
  <1>2. n.pc \in {"upstream", "waiting", "handler"} \/ n.sent # None => Passed(n)
    BY HandlesPassed, Zenon DEF Beyond
  <1>3. n.answer # None => Effective(n)
    BY HandlesPassed, ZenonT(30) DEF Beyond, Handles
  <1>4. n.pc \notin {"idle", "identity", "member", "policy"}
    BY DEF Beyond
  <1> QED BY <1>1, <1>2, <1>3, <1>4, Zenon DEF CallInv, Beyond

LEMMA PipedWaits ==
    ASSUME NEW c, Piped(c), c.pc \in {"identity", "member", "policy", "sent", "done"}
    PROVE  CallInv(c)
  <1>1. c.pc \notin {"upstream", "waiting", "handler", "reject", "forward"}
    OBVIOUS
  <1> QED BY <1>1, Zenon DEF Piped, CallInv

LEMMA ProxyKeeps ==
    ASSUME NEW c, Piped(c)
    PROVE  CallInv(ProxyTranslate(c))
  <1>1. PICK n : n = ProxyTranslate(c)
    OBVIOUS
  <1>2. CASE c.pc \in {"health", "debug", "reject"}
    <2>1. PICK status : /\ n = Answer(c, status)
                        /\ c.pc = "reject" => status = c.status
      BY <1>1, <1>2 DEF ProxyTranslate
    <2>2. /\ Handles(n, c) /\ n.pc = "sent" /\ n.body = c.body /\ n.sent = c.sent
          /\ c.pc = "reject" => n.status = c.status
      BY <2>1 DEF Answer, Piped, Formed, CallFields, Handles
    <2>3. Beyond(n, c)
      BY <2>2, Zenon DEF Beyond
    <2>4. n.pc \notin {"upstream", "waiting", "handler"} /\ n.sent = None
      BY <2>2, Zenon DEF Piped
    <2>5. c.answer # None => c.pc = "reject" \/ c.pc = "forward"
      BY Zenon DEF Piped
    <2>6. c.pc # "forward"
      BY <1>2
    <2> QED BY <1>1, <2>2, <2>3, <2>4, <2>5, <2>6, BeyondInv, Zenon DEF Piped
  <1>3. CASE c.pc = "forward"
    <2>1. /\ Handles(n, c) /\ n.pc = "upstream" /\ n.body = c.body /\ n.sent = c.sent
          /\ n.status = c.status
      BY <1>1, <1>3 DEF ProxyTranslate, Piped, Formed, CallFields, Handles
    <2>2. Beyond(n, c)
      BY <2>1, Zenon DEF Beyond
    <2> QED BY <1>1, <1>3, <2>1, <2>2, BeyondInv, Zenon DEF Piped
  <1>4. CASE c.pc \in {"identity", "member", "policy", "sent", "done"}
    <2>1. n = c
      BY <1>1, <1>4 DEF ProxyTranslate
    <2> QED BY <1>1, <1>4, <2>1, PipedWaits, Zenon
  <1> QED BY <1>2, <1>3, <1>4, Zenon DEF Piped

LEMMA AxumKeeps ==
    ASSUME NEW c, Piped(c), NEW s
    PROVE  LET n == AxumTranslate(s, c)
           IN  /\ CallInv(n)
               /\ n.pc # "idle" /\ n.answer = c.answer /\ n.record = c.record /\ n.mode = c.mode
               /\ n.effect = c.effect
  <1>1. PICK n : n = AxumTranslate(s, c)
    OBVIOUS
  <1>2. CASE c.pc \in {"health", "debug", "reject"}
    <2>1. /\ Handles(n, c) /\ n.pc = "done" /\ n.body = c.body /\ n.sent = c.sent
          /\ n.status = c.status
      BY <1>1, <1>2 DEF AxumTranslate, Piped, Formed, CallFields, Handles
    <2>2. Beyond(n, c) /\ n.pc # "idle"
      BY <2>1, Zenon DEF Beyond
    <2>3. n.pc \notin {"upstream", "waiting", "handler"} /\ n.sent = None
      BY <2>1, Zenon DEF Piped
    <2> QED BY <1>1, <2>1, <2>2, <2>3, BeyondInv, Zenon DEF Piped, Handles
  <1>3. CASE c.pc = "forward"
    <2>1. /\ Handles(n, c) /\ n.pc = "handler" /\ n.body = c.body /\ n.status = c.status
      <3>1. PICK h : n = [c EXCEPT !.pc = "handler", !.sent = h]
        <4>1. c.pc \notin {"health", "debug", "reject"}
          BY <1>3
        <4> QED BY <1>1, <1>3, <4>1, Zenon DEF AxumTranslate
      <3>2. DOMAIN c = CallFields
        BY Zenon DEF Piped, Formed
      <3> QED BY <3>1, <3>2 DEF CallFields, Handles
    <2>2. Beyond(n, c) /\ n.pc # "idle"
      BY <2>1, Zenon DEF Beyond
    <2> QED BY <1>1, <1>3, <2>1, <2>2, BeyondInv, Zenon DEF Piped, Handles
  <1>4. CASE c.pc \in {"identity", "member", "policy", "sent", "done"}
    <2>1. n = c /\ c.pc # "idle"
      BY <1>1, <1>4 DEF AxumTranslate
    <2> QED BY <1>1, <1>4, <2>1, PipedWaits, Zenon
  <1> QED BY <1>2, <1>3, <1>4, Zenon DEF Piped

LEMMA SinkGrows ==
    ASSUME sink \in Seq(Entries), NEW e \in Entries, sink' = Append(sink, e)
    PROVE  /\ sink' \in Seq(Entries)
           /\ \A s : s # e.slot => EntriesOf(sink', s) = EntriesOf(sink, s)
           /\ \A i \in DOMAIN sink : sink'[i] = sink[i]
           /\ \E i \in DOMAIN sink' : sink'[i] = e /\ EntriesOf(sink', e.slot) = EntriesOf(sink, e.slot) \cup {i}
  <1>1. PICK n \in Nat : /\ n = Len(sink) /\ DOMAIN sink = 1 .. n /\ DOMAIN sink' = 1 .. n + 1
                         /\ \A i \in 1 .. n : sink'[i] = sink[i]
                         /\ sink'[n + 1] = e
    OBVIOUS
  <1>2. DOMAIN sink' = DOMAIN sink \cup {n + 1} /\ n + 1 \notin DOMAIN sink
    BY <1>1
  <1>3. sink' \in Seq(Entries)
    OBVIOUS
  <1>4. \A i \in DOMAIN sink : sink'[i] = sink[i]
    BY <1>1, Zenon
  <1>5. PICK k : k = n + 1
    OBVIOUS
  <1>6. DOMAIN sink' = DOMAIN sink \cup {k} /\ sink'[k] = e
    BY <1>1, <1>2, <1>5
  <1>7. \A s : s # e.slot => EntriesOf(sink', s) = EntriesOf(sink, s)
    BY <1>4, <1>6, Zenon DEF EntriesOf
  <1>8. EntriesOf(sink', e.slot) = EntriesOf(sink, e.slot) \cup {k}
    BY <1>4, <1>6, Zenon DEF EntriesOf
  <1> QED BY <1>3, <1>4, <1>6, <1>7, <1>8, Zenon

\* One call changes.
OneCall(s, m) ==
    /\ UNCHANGED running /\ DOMAIN calls' = Slots
    /\ calls'[s] = m
    /\ \A t \in Slots : t # s => calls'[t] = calls[t]

LEMMA CallsKeep ==
    ASSUME DataPlaneInv, NEW s \in Slots, NEW m, OneCall(s, m), CallInv(m)
    PROVE  /\ running' \in DOMAIN Configs
           /\ DOMAIN calls' = Slots
           /\ \A t \in Slots : \A c : c = calls'[t] => CallInv(c)'
  <1>1. UNCHANGED running
    BY Zenon DEF OneCall
  <1>2. ASSUME NEW t \in Slots, NEW c, c = calls'[t] PROVE CallInv(c)'
    <2>1. CallInv(c)
      BY <1>2, Zenon DEF OneCall, DataPlaneInv
    <2> QED BY <1>1, <2>1, CallStays, Zenon
  <1> QED BY <1>1, <1>2, Zenon DEF OneCall, DataPlaneInv

LEMMA ReportStays ==
    ASSUME NEW s, NEW c, NEW m, Reported(s, c), EntriesOf(sink', s) = EntriesOf(sink, s),
           \A i \in DOMAIN sink : sink'[i] = sink[i],
           (c.pc = "idle" \/ c.answer = None) = (m.pc = "idle" \/ m.answer = None),
           m.record = c.record, m.mode = c.mode, m.effect = c.effect
    PROVE  Reported(s, m)'
  <1>1. CASE c.pc = "idle" \/ c.answer = None
    BY <1>1, Zenon DEF Reported
  <1>2. CASE ~(c.pc = "idle" \/ c.answer = None)
    <2>1. PICK i \in EntriesOf(sink, s) :
             /\ EntriesOf(sink, s) = {i}
             /\ sink[i].record = c.record /\ sink[i].mode = c.mode /\ sink[i].effect = c.effect
      BY <1>2, Zenon DEF Reported
    <2>2. sink'[i] = sink[i]
      BY <2>1, Zenon DEF EntriesOf
    <2> QED BY <1>2, <2>1, <2>2, Zenon DEF Reported
  <1> QED BY <1>1, <1>2, Zenon

LEMMA ReportSame ==
    ASSUME NEW s, NEW c, Reported(s, c), EntriesOf(sink', s) = EntriesOf(sink, s),
           \A i \in DOMAIN sink : sink'[i] = sink[i]
    PROVE  Reported(s, c)'
  BY ReportStays, Zenon

LEMMA ProceedKeeps ==
    ASSUME DataPlaneInv, NEW s \in Slots, NEW n, Piped(n), Proceed(s, n),
           calls[s].pc = "idle" \/ calls[s].answer = None
    PROVE  DataPlaneInv'
  <1>1. CASE config.host = "proxy"
    <2>1. PICK m : m = ProxyTranslate(n) /\ calls' = [calls EXCEPT ![s] = m]
      BY <1>1, Zenon DEF Proceed
    <2>2. OneCall(s, m)
      BY <2>1 DEF OneCall, DataPlaneInv, Proceed
    <2>3. CallInv(m)
      BY <2>1, ProxyKeeps, Zenon
    <2>4. sink' = sink /\ config' = config
      BY <1>1, Zenon DEF Proceed, config
    <2>5. config.host # "axum"
      BY <1>1
    <2> QED BY <2>2, <2>3, <2>4, <2>5, CallsKeep, Zenon DEF DataPlaneInv
  <1>2. CASE config.host # "proxy"
    <2>1. PICK m : m = AxumTranslate(s, n) /\ calls' = [calls EXCEPT ![s] = m]
      BY <1>2, Zenon DEF Proceed
    <2>2. OneCall(s, m) /\ config' = config /\ sink' = SinkRecord(s, n)
      BY <1>2, <2>1 DEF OneCall, DataPlaneInv, Proceed, config
    <2>3. /\ CallInv(m) /\ m.pc # "idle" /\ m.answer = n.answer /\ m.record = n.record
          /\ m.mode = n.mode /\ m.effect = n.effect
      BY <2>1, AxumKeeps, Zenon
    <2>4. CASE n.answer = None
      <3>1. sink' = sink
        BY <2>2, <2>4, Zenon DEF SinkRecord, Piped
      <3>2. ASSUME config.host = "axum", NEW t \in Slots, NEW c, c = calls'[t] PROVE Reported(t, c)'
        <4>1. CASE t = s
          <5>1. EntriesOf(sink, s) = {}
            BY <3>2, Zenon DEF DataPlaneInv, Reported
          <5>2. c = m
            BY <2>2, <3>2, <4>1, Zenon DEF OneCall
          <5> QED BY <2>3, <2>4, <3>1, <4>1, <5>1, <5>2, Zenon DEF Reported
        <4>2. CASE t # s
          <5>1. Reported(t, c)
            BY <2>2, <3>2, <4>2, Zenon DEF OneCall, DataPlaneInv
          <5> QED BY <3>1, <5>1, ReportSame, Zenon
        <4> QED BY <4>1, <4>2, Zenon
      <3> QED BY <2>2, <2>3, <3>1, <3>2, CallsKeep, Zenon DEF DataPlaneInv
    <2>5. CASE n.answer # None
      <3>e. PICK e : e = [slot |-> s, record |-> n.record, mode |-> n.mode, effect |-> n.effect]
        BY Zenon
      <3>1. e.slot = s /\ e.record = n.record /\ e.mode = n.mode /\ e.effect = n.effect
        BY <3>e
      <3>2. e \in Entries
        <4>1. n.record \in Records \cup {None} /\ n.mode \in {"Enforce", "Observe"} /\ n.effect \in Effects
          BY <2>5, Zenon DEF Piped, Effective, Formed
        <4> QED BY <3>e, <4>1 DEF Entries
      <3>3. n.denied \/ (n.pc = "forward" /\ n.effect # "NotEvaluated")
        <4>1. n.effect \in Effects /\ (n.denied \/ n.pc = "forward")
          BY <2>5, Zenon DEF Piped, Effective
        <4>2. n.effect # "NotEvaluated"
          BY <4>1 DEF Effects
        <4> QED BY <4>1, <4>2, Zenon
      <3>4. sink' = Append(sink, e)
        BY <2>2, <3>e, <3>3, Zenon DEF SinkRecord
      <3>5. PICK i \in DOMAIN sink' :
               /\ sink'[i] = e /\ EntriesOf(sink', s) = EntriesOf(sink, s) \cup {i}
               /\ sink' \in Seq(Entries)
               /\ \A t : t # s => EntriesOf(sink', t) = EntriesOf(sink, t)
               /\ \A j \in DOMAIN sink : sink'[j] = sink[j]
        <4>1. sink \in Seq(Entries)
          BY Zenon DEF DataPlaneInv
        <4>2. PICK i \in DOMAIN sink' :
                 /\ sink'[i] = e /\ EntriesOf(sink', e.slot) = EntriesOf(sink, e.slot) \cup {i}
                 /\ sink' \in Seq(Entries)
                 /\ \A t : t # e.slot => EntriesOf(sink', t) = EntriesOf(sink, t)
                 /\ \A j \in DOMAIN sink : sink'[j] = sink[j]
          BY <3>2, <3>4, <4>1, SinkGrows, Zenon
        <4> QED BY <3>1, <4>2, Zenon
      <3>6. ASSUME config.host = "axum", NEW t \in Slots, NEW c, c = calls'[t] PROVE Reported(t, c)'
        <4>1. CASE t = s
          <5>1. EntriesOf(sink, s) = {}
            BY <3>6, Zenon DEF DataPlaneInv, Reported
          <5>2. EntriesOf(sink', s) = {i}
            BY <3>5, <5>1, Zenon
          <5>3. c = m
            BY <2>2, <3>6, <4>1, Zenon DEF OneCall
          <5> QED BY <2>3, <2>5, <3>1, <3>5, <4>1, <5>2, <5>3, Zenon DEF Reported
        <4>2. CASE t # s
          <5>1. Reported(t, c)
            BY <2>2, <3>6, <4>2, Zenon DEF OneCall, DataPlaneInv
          <5> QED BY <3>5, <4>2, <5>1, ReportSame, Zenon
        <4> QED BY <4>1, <4>2, Zenon
      <3> QED BY <2>2, <2>3, <3>5, <3>6, CallsKeep, Zenon DEF DataPlaneInv
    <2> QED BY <2>4, <2>5, Zenon
  <1> QED BY <1>1, <1>2, Zenon

-----------------------------------------------------------------------------
(* The steps.                                                              *)

LEMMA HostKeeps ==
    ASSUME DataPlaneInv, NEW s \in Slots, NEW c, c = calls[s], c.pc # "idle",
           NEW m, OneCall(s, m), UNCHANGED sink, CallInv(m), m.pc # "idle", Handles(m, c)
    PROVE  DataPlaneInv'
  <1>1. config' = config
    BY Zenon DEF OneCall, config
  <1>2. ASSUME config.host = "axum", NEW t \in Slots, NEW k, k = calls'[t] PROVE Reported(t, k)'
    <2>1. CASE t = s
      <3>1. Reported(s, c) /\ k = m
        BY <1>2, <2>1, Zenon DEF DataPlaneInv, OneCall
      <3>2. /\ (c.pc = "idle" \/ c.answer = None) = (m.pc = "idle" \/ m.answer = None)
            /\ m.record = c.record /\ m.mode = c.mode /\ m.effect = c.effect
        BY Zenon DEF Handles
      <3> QED BY <2>1, <3>1, <3>2, ReportStays, Zenon
    <2>2. CASE t # s
      <3>1. Reported(t, k)
        BY <1>2, <2>2, ZenonT(30) DEF DataPlaneInv, OneCall
      <3> QED BY <3>1, ReportSame, Zenon
    <2> QED BY <2>1, <2>2, Zenon
  <1> QED BY <1>1, <1>2, CallsKeep, Zenon DEF DataPlaneInv

LEMMA NewIs ==
    ASSUME NEW req \in Requests(config.host), NEW input, NEW mode \in {"Enforce", "Observe"}
    PROVE  LET c == NewCall(req, input, mode)
           IN  /\ Formed(c) /\ Fresh(c) /\ c.identity = None /\ c.joined = None /\ c.cred = None
               /\ c.input = input /\ c.req = req
  BY DEF NewCall, Formed, Fresh, CallFields

LEMMA FilterPiped ==
    ASSUME DataPlaneInv, NEW req \in Requests(config.host)
    PROVE  Piped(ProxyRequestFilter(req))
  <1>1. PICK input : input = RequestInputFromSession(req)
    OBVIOUS
  <1>2. input.headers = req.headers \/ input.headers = <<>>
    <2>1. PICK r : r = [req EXCEPT !.ip = ExtractClientIp(config.ipSource, req)]
      BY Zenon
    <2>2. "headers" \in DOMAIN req
      BY HostsAssumption, Zenon DEF DataPlaneInv, config
    <2>3. r.headers = req.headers
      BY <2>1, <2>2
    <2> QED BY <1>1, <2>1, <2>3 DEF RequestInputFromSession, RequestInput
  <1>3. PICK c : c = NewCall(req, input, "Enforce")
    OBVIOUS
  <1>4. /\ Formed(c) /\ Fresh(c) /\ c.identity = None /\ c.joined = None /\ c.cred = None
        /\ c.input = input /\ c.req = req
    BY <1>3, NewIs
  <1>5. ASSUME NEW origin PROVE Piped(Begin(config, [c EXCEPT !.corsOrigin = origin]))
    <2>1. PICK k : k = [c EXCEPT !.corsOrigin = origin]
      BY Zenon
    <2>2. /\ Shares(k, c) /\ k.identity = c.identity /\ k.cred = c.cred /\ k.flags = c.flags
          /\ k.route = c.route /\ k.status = c.status
      BY <1>4, <2>1 DEF Formed, CallFields, Shares
    <2>3. New(k)
      BY <1>2, <1>4, <2>2, Zenon DEF New, Shares, Formed, Fresh, InputOf
    <2> QED BY <2>1, <2>3, BeginPiped, Zenon
  <1>6. ASSUME NEW reply PROVE Piped([c EXCEPT !.pc = "sent", !.status = 204, !.reply = reply])
    <2>1. PICK k : k = [c EXCEPT !.pc = "sent", !.status = 204, !.reply = reply]
      OBVIOUS
    <2>2. Shares(k, c) /\ k.pc = "sent" /\ k.flags = c.flags
      BY <1>4, <2>1 DEF Formed, CallFields, Shares
    <2> QED BY <1>4, <2>1, <2>2, ZenonT(30) DEF Piped, Shares, Formed, Fresh, Explained
  <1> QED BY <1>1, <1>3, <1>5, <1>6, Zenon DEF ProxyRequestFilter

LEMMA AxumPiped ==
    ASSUME DataPlaneInv, config.host = "axum",
           NEW req \in Requests(config.host), NEW stamp \in {None, "Observe"}
    PROVE  Piped(AxumRequest(req, stamp))
  <1>1. PICK input, mode, c : /\ input = RequestInput(req)
                              /\ mode = IF stamp = None THEN config.defaultMode ELSE stamp
                              /\ c = NewCall(req, input, mode)
    OBVIOUS
  <1>2. mode \in {"Enforce", "Observe"}
    <2>1. config \in {Configs[name] : name \in DOMAIN Configs}
      BY Zenon DEF config, DataPlaneInv
    <2>2. config.defaultMode \in {"Enforce", "Observe"}
      BY <2>1, HostsAssumption, Zenon
    <2> QED BY <1>1, <2>2, Zenon
  <1>3. /\ Formed(c) /\ Fresh(c) /\ c.identity = None /\ c.joined = None /\ c.cred = None
        /\ c.input = input /\ c.req = req
    BY <1>1, <1>2, NewIs
  <1>4. CASE input = None
    <2>1. PICK k : k = [c EXCEPT !.pc = "done", !.status = 400]
      OBVIOUS
    <2>2. Shares(k, c) /\ k.pc = "done" /\ k.flags = c.flags
      BY <1>3, <2>1 DEF Formed, CallFields, Shares
    <2>3. Piped(k)
      BY <1>3, <2>2, Zenon DEF Piped, Shares, Formed, Fresh, Explained
    <2> QED BY <1>1, <1>4, <2>1, <2>3, ZenonT(30) DEF AxumRequest
  <1>5. CASE input # None
    <2>1. input.headers = req.headers
      BY <1>1, <1>5 DEF RequestInput
    <2>2. New(c)
      BY <1>3, <2>1, Zenon DEF New, InputOf
    <2> QED BY <1>1, <1>5, <2>2, BeginPiped, Zenon DEF AxumRequest
  <1> QED BY <1>4, <1>5, Zenon

LEMMA ArriveKeeps ==
    ASSUME DataPlaneInv, NEW s \in Slots, NEW req \in Requests(config.host), Arrive(s, req)
    PROVE  DataPlaneInv'
  <1>1. config.host = "proxy" \/ config.host = "axum"
    BY HostsAssumption, Zenon DEF DataPlaneInv, config
  <1>2. PICK n : Proceed(s, n) /\ Piped(n)
    BY <1>1, FilterPiped, AxumPiped, Zenon DEF Arrive
  <1> QED BY <1>2, ProceedKeeps, Zenon DEF Arrive

LEMMA Awaiting ==
    ASSUME DataPlaneInv, NEW s \in Slots, NEW pc \in {"identity", "member", "policy"}, calls[s].pc = pc
    PROVE  /\ Formed(calls[s]) /\ Explained(calls[s]) /\ calls[s].answer = None
           /\ pc = "identity" => AtIdentity(calls[s])
           /\ pc = "member" => AtMember(calls[s])
           /\ pc = "policy" => AtPolicy(calls[s])
  <1>1. calls[s].pc # "idle"
    OBVIOUS
  <1> QED BY <1>1, Zenon DEF DataPlaneInv, CallInv

LEMMA AnswersKeep ==
    ASSUME DataPlaneInv, NEW s \in Slots,
           ChainAnswers(s) \/ MembershipAnswers(s) \/ EngineAnswers(s)
    PROVE  DataPlaneInv'
  <1>1. CASE ChainAnswers(s)
    <2>1. PICK cached \in CacheAnswers(calls[s].cred) :
             Proceed(s, Identified(config, calls[s],
                                   ResolveIdentity(config.env, calls[s].cred, Now, cached)))
      BY <1>1, ZenonT(30) DEF ChainAnswers
    <2>2. Formed(calls[s]) /\ AtIdentity(calls[s]) /\ calls[s].answer = None
      BY <1>1, Awaiting DEF ChainAnswers
    <2>3. Piped(Identified(config, calls[s], ResolveIdentity(config.env, calls[s].cred, Now, cached)))
      BY <2>2, IdentifiedPiped, Zenon DEF DataPlaneInv
    <2> QED BY <2>1, <2>2, <2>3, ProceedKeeps, Zenon
  <1>2. CASE MembershipAnswers(s)
    <2>1. PICK answer \in Memberships :
             Proceed(s, Joined(config, [calls[s] EXCEPT !.joined = answer], answer))
      BY <1>2, Zenon DEF MembershipAnswers
    <2>2. Formed(calls[s]) /\ AtMember(calls[s]) /\ calls[s].answer = None
      BY <1>2, Awaiting DEF MembershipAnswers
    <2>3. Piped(Joined(config, [calls[s] EXCEPT !.joined = answer], answer))
      BY <2>2, JoinedPiped, Zenon
    <2> QED BY <2>1, <2>2, <2>3, ProceedKeeps, Zenon
  <1>3. CASE EngineAnswers(s)
    <2>1. PICK answer \in EngineResults : Proceed(s, Decided(calls[s], answer))
      BY <1>3, Zenon DEF EngineAnswers
    <2>2. Formed(calls[s]) /\ Explained(calls[s]) /\ AtPolicy(calls[s]) /\ calls[s].answer = None
      BY <1>3, Awaiting DEF EngineAnswers
    <2>3. Piped(Decided(calls[s], answer))
      BY <2>2, DecidedPiped, Zenon
    <2> QED BY <2>1, <2>2, <2>3, ProceedKeeps, Zenon
  <1> QED BY <1>1, <1>2, <1>3, Zenon

LEMMA BeyondKeeps ==
    ASSUME DataPlaneInv, NEW s \in Slots, NEW c, c = calls[s], c.pc # "idle",
           NEW m, OneCall(s, m), UNCHANGED sink, Beyond(m, c),
           m.body = c.body \/ Plain(c),
           m.status = c.status \/ (c.effect # "Denied" /\ m.status # 403),
           m.pc \in {"upstream", "waiting", "handler"} \/ m.sent # None => Passed(c)
    PROVE  DataPlaneInv'
  <1>1. Formed(c) /\ Explained(c) /\ (c.answer # None => Effective(c))
    <2>1. CallInv(c)
      BY ZenonT(30) DEF DataPlaneInv
    <2> QED BY <2>1, Zenon DEF CallInv
  <1>2. CallInv(m)
    <2>1. /\ Beyond(m, c) /\ Formed(c) /\ Explained(c) /\ (m.body = c.body \/ Plain(c))
          /\ c.answer # None => Effective(c)
          /\ c.answer # None => (m.status = c.status \/ (c.effect # "Denied" /\ m.status # 403))
          /\ m.pc \in {"upstream", "waiting", "handler"} \/ m.sent # None => Passed(c)
      BY <1>1, Zenon
    <2> QED BY <2>1, BeyondInv, SMTT(20)
  <1>3. m.pc # "idle"
    BY DEF Beyond
  <1> QED BY <1>2, <1>3, HostKeeps, ZenonT(30) DEF Beyond

LEMMA Going ==
    ASSUME DataPlaneInv, NEW s \in Slots, NEW c, c = calls[s], c.pc # "idle"
    PROVE  /\ DOMAIN c = CallFields
           /\ c.pc \in {"upstream", "waiting", "handler"} \/ c.sent # None => Passed(c)
           /\ Passed(c) => Plain(c) /\ c.effect # "Denied"
  BY Zenon DEF DataPlaneInv, CallInv, Formed, Passed

LEMMA ForwardsKeep ==
    ASSUME DataPlaneInv, NEW s \in Slots,
           \/ SendUpstream(s)
           \/ \E reply \in UpstreamReplies : ResponseFilter(s, reply)
           \/ \E source \in {"upstream", "internal", "downstream"} : FailToProxy(s, source)
           \/ HandlerAnswers(s)
    PROVE  DataPlaneInv'
  <1>1. PICK c : c = calls[s] /\ c.pc \in {"upstream", "waiting", "handler"}
    BY DEF SendUpstream, ResponseFilter, FailToProxy, HandlerAnswers
  <1>2. c.pc # "idle"
    BY <1>1
  <1>3. DOMAIN c = CallFields /\ Passed(c) /\ Plain(c) /\ c.effect # "Denied"
    BY <1>1, <1>2, Going, Zenon
  <1>4. PICK m : m = calls'[s]
    OBVIOUS
  <1>5. /\ OneCall(s, m) /\ UNCHANGED sink
        /\ Handles(m, c) /\ m.pc \in {"waiting", "sent", "done"}
        /\ m.status = c.status \/ m.status # 403
    <2>d. DOMAIN calls = Slots
      BY Zenon DEF DataPlaneInv
    <2>1. CASE SendUpstream(s)
      BY <1>1, <1>3, <1>4, <2>d, <2>1 DEF SendUpstream, CallFields, OneCall, Handles
    <2>2. ASSUME NEW reply \in UpstreamReplies, ResponseFilter(s, reply)
          PROVE  /\ OneCall(s, m) /\ UNCHANGED sink
                 /\ Handles(m, c) /\ m.pc = "sent" /\ m.status = 200
      <3>1. PICK all : calls' = [calls EXCEPT ![s].pc = "sent", ![s].status = 200, ![s].reply = all]
        BY <2>2, Zenon DEF ResponseFilter
      <3>2. UNCHANGED <<running, sink>>
        BY <2>2, Zenon DEF ResponseFilter
      <3> QED BY <1>1, <1>3, <1>4, <2>d, <3>1, <3>2 DEF CallFields, OneCall, Handles
    <2>3. ASSUME NEW source \in {"upstream", "internal", "downstream"}, FailToProxy(s, source)
          PROVE  /\ OneCall(s, m) /\ UNCHANGED sink
                 /\ Handles(m, c) /\ m.pc = "sent" /\ (m.status = c.status \/ m.status # 403)
      BY <1>1, <1>3, <1>4, <2>d, <2>3, SMTT(20) DEF FailToProxy, Answer, CallFields, OneCall, Handles
    <2>4. CASE HandlerAnswers(s)
      BY <1>1, <1>3, <1>4, <2>d, <2>4 DEF HandlerAnswers, CallFields, OneCall, Handles
    <2> QED BY <2>1, <2>2, <2>3, <2>4
  <1>6. Beyond(m, c)
    BY <1>5 DEF Beyond
  <1> QED BY <1>1, <1>2, <1>3, <1>5, <1>6, BeyondKeeps, ZenonT(30)

LEMMA EndsKeep ==
    ASSUME DataPlaneInv, NEW s \in Slots, Logging(s) \/ Disconnect(s)
    PROVE  DataPlaneInv'
  <1>1. PICK c : c = calls[s] /\ c.pc # "idle"
    BY DEF Logging, Disconnect
  <1>2. DOMAIN c = CallFields /\ (c.sent # None => Passed(c))
    BY <1>1, Going, Zenon
  <1>3. PICK m : m = calls'[s]
    OBVIOUS
  <1>4. /\ OneCall(s, m) /\ UNCHANGED sink
        /\ Handles(m, c) /\ m.pc \in {"done", "gone"}
        /\ m.status = c.status /\ m.body = c.body /\ m.sent = c.sent
    <2>d. DOMAIN calls = Slots
      BY Zenon DEF DataPlaneInv
    <2> QED BY <1>1, <1>2, <1>3, <2>d DEF Logging, Disconnect, CallFields, OneCall, Handles
  <1>5. Beyond(m, c) /\ m.pc \notin {"upstream", "waiting", "handler"}
    BY <1>4 DEF Beyond
  <1> QED BY <1>1, <1>2, <1>4, <1>5, BeyondKeeps, Zenon

LEMMA DataPlaneStarts ==
    ASSUME DataPlaneInit
    PROVE  DataPlaneInv
  <1>1. sink \in Seq(Entries) /\ \A s : EntriesOf(sink, s) = {}
    BY DEF DataPlaneInit, EntriesOf
  <1>2. ASSUME NEW s \in Slots PROVE calls[s].pc = "idle"
    BY DEF DataPlaneInit, Idle
  <1> QED BY <1>1, <1>2, Zenon DEF DataPlaneInit, DataPlaneInv, CallInv, Reported

LEMMA DataPlaneKeeps ==
    ASSUME DataPlaneInv, [DataPlaneNext]_dpVars
    PROVE  DataPlaneInv'
  <1>1. CASE DataPlaneNext
    BY <1>1, ArriveKeeps, AnswersKeep, ForwardsKeep, EndsKeep, Zenon DEF DataPlaneNext, Step
  <1>2. CASE UNCHANGED dpVars
    <2>1. UNCHANGED running /\ UNCHANGED calls /\ UNCHANGED sink
      BY <1>2, Zenon DEF dpVars
    <2>2. \A s \in Slots : \A c : c = calls'[s] => CallInv(c)'
      BY <2>1, CallStays, Zenon DEF DataPlaneInv
    <2>3. config' = config
      BY <2>1, Zenon DEF config
    <2>4. ASSUME config.host = "axum", NEW s \in Slots, NEW c, c = calls'[s] PROVE Reported(s, c)'
      BY <2>1, <2>4, ReportSame, Zenon DEF DataPlaneInv
    <2> QED BY <2>1, <2>2, <2>3, <2>4, Zenon DEF DataPlaneInv
  <1> QED BY <1>1, <1>2, Zenon

\* evaluate_pipeline under both hosts: whatever the calls in between, a request
\* that reaches the application had the identity, the flag and the decision that
\* its path, its route and its credential ask for.
THEOREM ForwardsStayDecided == DataPlaneSpec => []ForwardsAreDecided
  <1>1. DataPlaneInit => DataPlaneInv
    BY DataPlaneStarts
  <1>2. DataPlaneInv /\ [DataPlaneNext]_dpVars => DataPlaneInv'
    BY DataPlaneKeeps, Zenon
  <1>3. DataPlaneInv => ForwardsAreDecided
    <2>1. ASSUME DataPlaneInv, NEW s \in Slots, ReachedApp(calls[s])
          PROVE  Passed(calls[s])
      BY <2>1, Zenon DEF DataPlaneInv, CallInv, ReachedApp
    <2> QED BY <2>1, ZenonT(30) DEF ForwardsAreDecided, Passed, Routed, Asked
  <1> QED BY <1>1, <1>2, <1>3, PTL DEF DataPlaneSpec

\* forgeguard_layer: every decision of the policy reaches the sink once, with
\* its mode, its record and its effect, and nothing else does.
THEOREM DecisionsStayReported == DataPlaneSpec => []DecisionsAreReportedOnce
  <1>1. DataPlaneInit => DataPlaneInv
    BY DataPlaneStarts
  <1>2. DataPlaneInv /\ [DataPlaneNext]_dpVars => DataPlaneInv'
    BY DataPlaneKeeps, Zenon
  <1>3. DataPlaneInv => DecisionsAreReportedOnce
    <2>1. ASSUME DataPlaneInv, NEW s \in Slots, calls[s].pc # "idle", calls[s].answer # None
          PROVE  Effective(calls[s])
      BY <2>1, Zenon DEF DataPlaneInv, CallInv
    <2>2. ASSUME DataPlaneInv, config.host = "axum", NEW s \in Slots,
                 calls[s].pc # "idle", calls[s].answer # None
          PROVE  \E i \in EntriesOf(sink, s) :
                   /\ EntriesOf(sink, s) = {i}
                   /\ sink[i].record = calls[s].answer.record
                   /\ sink[i].mode = calls[s].mode
                   /\ sink[i].effect = PolicyEffect(calls[s].mode, calls[s].answer.result = "allow")
                   /\ (sink[i].effect = "Denied") = (calls[s].status = 403)
      <3>1. PICK i \in EntriesOf(sink, s) :
               /\ EntriesOf(sink, s) = {i}
               /\ sink[i].record = calls[s].record /\ sink[i].mode = calls[s].mode
               /\ sink[i].effect = calls[s].effect
        BY <2>2, ZenonT(30) DEF DataPlaneInv, Reported
      <3>2. Effective(calls[s])
        BY <2>1, <2>2, Zenon
      <3>3. (sink[i].effect = "Denied") = (calls[s].status = 403)
        BY <3>1, <3>2 DEF Effective
      <3>4. /\ calls[s].record = calls[s].answer.record
            /\ calls[s].effect = PolicyEffect(calls[s].mode, calls[s].answer.result = "allow")
        BY <3>2, Zenon DEF Effective
      <3> QED BY <3>1, <3>3, <3>4
    <2>3. ASSUME DataPlaneInv, config.host = "axum", NEW s \in Slots,
                 calls[s].pc = "idle" \/ calls[s].answer = None
          PROVE  EntriesOf(sink, s) = {}
      BY <2>3, Zenon DEF DataPlaneInv, Reported
    <2> QED BY <2>2, <2>3 DEF DecisionsAreReportedOnce, EntriesOf
  <1> QED BY <1>1, <1>2, <1>3, PTL DEF DataPlaneSpec

\* resolve_single_flag and resolve_single_flag_detailed agree on every flag, so
\* that the debug endpoint explains the values the requests were evaluated with.
THEOREM FlagsStayExplained == DataPlaneSpec => []FlagsAreExplained
  <1>1. DataPlaneInit => DataPlaneInv
    BY DataPlaneStarts
  <1>2. DataPlaneInv /\ [DataPlaneNext]_dpVars => DataPlaneInv'
    BY DataPlaneKeeps, Zenon
  <1>3. DataPlaneInv => FlagsAreExplained
    BY Zenon DEF DataPlaneInv, CallInv, Explained, FlagsAreExplained
  <1> QED BY <1>1, <1>2, <1>3, PTL DEF DataPlaneSpec
=============================================================================
