-------------------------------- MODULE Authn --------------------------------
(***************************************************************************)
(* Authentication: extracting a credential from headers                     *)
(* (crates/http/src/credential.rs), the resolver chain and its resolvers    *)
(* (crates/authn-core, crates/authn), request signing                       *)
(* (crates/authn-core/src/signing.rs) and the X-Fg-* headers a host gives   *)
(* the protected application (crates/http/src/headers.rs,                   *)
(* lib/forgeguard-axum/src/headers.rs).                                     *)
(*                                                                          *)
(* Headers are a sequence of << name, value >>.  A signature is the pair of *)
(* the key that made it and the payload it covers; base64, SHA and the      *)
(* elliptic curve are external.                                             *)
(***************************************************************************)
EXTENDS Integers, Sequences, Options

CONSTANTS
    IsId(_),        \* which texts are valid user, tenant and group ids
    MaxDrift        \* the drift window of the signature resolver

Ok(x)  == [ok |-> TRUE, value |-> x]
Err(e) == [ok |-> FALSE, err |-> e]

FindHeader(headers, name) ==
    LET at == {i \in DOMAIN headers : headers[i][1] = name}
    IN  IF at = {} THEN None
        ELSE headers[CHOOSE i \in at : \A j \in at : i =< j][2]

ProtocolHeaders == {"x-fg-signature", "x-fg-timestamp", "x-fg-key-id", "x-fg-trace-id"}

ProjectionHeaders ==
    {"x-fg-user-id", "x-fg-tenant-id", "x-fg-groups", "x-fg-auth-provider", "x-fg-principal",
     "x-fg-features", "x-fg-client-ip", "x-fg-scope-path", "x-fg-entitlements", "x-fg-revision"}

FgHeaders == ProjectionHeaders \cup ProtocolHeaders \cup {"x-fg-org-id"}

IdentityHeadersOf(headers) ==
    LET IsIdentityHeader(h) == h[1] \in FgHeaders \ ProtocolHeaders
    IN  SelectSeq(headers, IsIdentityHeader)

(* Bearer token, then API key, then a signed request with all four protocol *)
(* headers and a numeric timestamp.                                         *)
ExtractCredential(headers) ==
    LET auth == FindHeader(headers, "authorization")
        key  == FindHeader(headers, "x-api-key")
        ts   == FindHeader(headers, "x-fg-timestamp")
    IN  IF auth # None /\ auth.scheme = "bearer" /\ auth.token # None
        THEN [type |-> "bearer", token |-> auth.token]
        ELSE IF key # None /\ key # ""
        THEN [type |-> "api-key", key |-> key]
        ELSE IF (\A h \in ProtocolHeaders : FindHeader(headers, h) # None) /\ ts.ms # None
        THEN [type      |-> "signed-request",
              keyId     |-> FindHeader(headers, "x-fg-key-id"),
              timestamp |-> ts.ms,
              signature |-> FindHeader(headers, "x-fg-signature"),
              traceId   |-> FindHeader(headers, "x-fg-trace-id"),
              headers   |-> IdentityHeadersOf(headers)]
        ELSE None

-----------------------------------------------------------------------------
(* Signing.  The canonical payload sorts headers by name, keeping the order *)
(* of equal names: it is the function from names to their values in order.  *)
ValuesOf(headers, name) ==
    LET Named(h) == h[1] = name
        sel      == SelectSeq(headers, Named)
    IN  [i \in DOMAIN sel |-> sel[i][2]]

CanonicalPayload(traceId, timestamp, headers) ==
    [trace |-> traceId, at |-> timestamp,
     lines |-> [n \in {headers[i][1] : i \in DOMAIN headers} |-> ValuesOf(headers, n)]]

Sign(key, payload) == [version |-> "v1", by |-> key, over |-> payload]

ParseSignatureHeader(sig) ==
    IF sig.version = "v1" THEN Ok(sig) ELSE Err("InvalidSignature")

Verify(publicKey, payload, sig) == sig.by = publicKey /\ sig.over = payload

(* TimestampValidator::check: the drift either way is within the window.    *)
WithinDrift(timestamp, now) ==
    (IF timestamp > now THEN timestamp - now ELSE now - timestamp) =< MaxDrift

-----------------------------------------------------------------------------
(* The resolvers.                                                           *)
Identity(user, tenant, groups, resolver, extra, kind) ==
    [user |-> user, tenant |-> tenant, groups |-> groups, resolver |-> resolver,
     extra |-> extra, kind |-> kind]

JwtResolverConfig(issuer, audience, userIdClaim) ==
    [issuer |-> issuer, audience |-> audience,
     userIdClaim |-> IF userIdClaim = None THEN "sub" ELSE userIdClaim]

ApiKeyEntry(user, tenant, groups) == [user |-> user, tenant |-> tenant, groups |-> groups]

(* CognitoJwtResolver, given the answer of the key cache for the token's    *)
(* key id: checks are made in the order signature, expiry, issuer, audience *)
(* and the user id comes from the configured claim.                         *)
ExtractUserId(token, config) ==
    LET raw == IF config.userIdClaim = "sub" THEN token.sub
               ELSE IF config.userIdClaim \in DOMAIN token.claims
               THEN token.claims[config.userIdClaim] ELSE None
    IN  IF raw = None THEN Err("MissingClaim")
        ELSE IF ~IsId(raw) THEN Err("MalformedToken") ELSE Ok(raw)

MapClaims(token, config) ==
    LET user == ExtractUserId(token, config)
    IN  IF ~user.ok THEN user
        ELSE Ok(Identity(user.value, None, {}, "cognito_jwt",
                         IF DOMAIN token.claims = {} THEN None ELSE token.claims, "User"))

DecodeToken(token, key, config) ==
    IF token.signedBy # key THEN Err("SignatureInvalid")
    ELSE IF token.expired THEN Err("TokenExpired")
    ELSE IF token.iss # config.issuer THEN Err("InvalidIssuer")
    ELSE IF config.audience # None /\ token.aud # config.audience THEN Err("InvalidAudience")
    ELSE Ok(token)

VerifyToken(token, config, cached) ==
    IF token.kid = None THEN Err("TokenDecode")
    ELSE IF ~cached.ok THEN cached
    ELSE LET claims == DecodeToken(token, cached.value, config)
         IN  IF claims.ok THEN MapClaims(token, config) ELSE claims

(* StaticApiKeyResolver over the configured key map.                        *)
ResolveApiKey(key, keys) ==
    IF key \in DOMAIN keys
    THEN Ok(Identity(keys[key].user, keys[key].tenant, keys[key].groups, "static_api_key", None,
                     "User"))
    ELSE Err("InvalidCredential")

(* Ed25519SignatureResolver: the organisation is read from the signed       *)
(* headers and names the key; the signature is checked before the drift.    *)
VerifySignedRequest(cred, now, keyStore) ==
    LET org     == FindHeader(cred.headers, "x-fg-org-id")
        payload == CanonicalPayload(cred.traceId, cred.timestamp, cred.headers)
        sig     == ParseSignatureHeader(cred.signature)
    IN  IF org = None THEN Err("MissingOrgId")
        ELSE IF <<org, cred.keyId>> \notin DOMAIN keyStore THEN Err("KeyNotFound")
        ELSE IF ~sig.ok THEN sig
        ELSE IF ~Verify(keyStore[<<org, cred.keyId>>], payload, sig.value)
        THEN Err("InvalidSignature")
        ELSE IF ~WithinDrift(cred.timestamp, now) THEN Err("TimestampDrift")
        ELSE IF ~IsId(cred.keyId) \/ ~IsId(org) THEN Err("InvalidCredential")
        ELSE Ok(Identity(cred.keyId, org, {}, "ed25519", None, "Machine"))

(* IdentityChain::resolve: the first resolver that takes the credential's   *)
(* type owns the outcome, its failures included.                            *)
Takes(resolver, cred) ==
    resolver = CASE cred.type = "bearer"         -> "cognito_jwt"
                 [] cred.type = "api-key"        -> "static_api_key"
                 [] cred.type = "signed-request" -> "ed25519"

(* env is [chain, jwt, apiKeys, keyStore] and cached the key cache's answer.*)
ResolveIdentity(env, cred, now, cached) ==
    IF \A i \in DOMAIN env.chain : ~Takes(env.chain[i], cred) THEN Err("NoResolver")
    ELSE CASE cred.type = "bearer"         -> VerifyToken(cred.token, env.jwt, cached)
           [] cred.type = "api-key"        -> ResolveApiKey(cred.key, env.apiKeys)
           [] cred.type = "signed-request" -> VerifySignedRequest(cred, now, env.keyStore)

-----------------------------------------------------------------------------
(* The headers given to the application.                                    *)
Optional(present, name, value) == IF present THEN <<<<name, value>>>> ELSE <<>>

IdentityHeaders(id) ==
    <<<<"x-fg-user-id", id.user>>>>
    \o Optional(id.tenant # None, "x-fg-tenant-id", id.tenant)
    \o Optional(id.groups # {}, "x-fg-groups", id.groups)
    \o <<<<"x-fg-auth-provider", id.resolver>>>>

(* inject_headers of the proxy: the identity, the flags when any resolved,  *)
(* the client address.  No caller supplies a principal name.                *)
InjectHeaders(id, flags, ip) ==
    IdentityHeaders(id)
    \o Optional(flags # None /\ DOMAIN flags # {}, "x-fg-features", flags)
    \o Optional(ip # None, "x-fg-client-ip", ip)

RecordHeaders(record) ==
    <<<<"x-fg-scope-path", record.scope>>>>
    \o Optional(record.entitlements # {}, "x-fg-entitlements", record.entitlements)
    \o <<<<"x-fg-revision", record.revision>>>>

SigningTail(signing, traceId, now, headers) ==
    <<<<"x-fg-trace-id", traceId>>, <<"x-fg-timestamp", [ms |-> now]>>,
      <<"x-fg-key-id", signing.keyId>>,
      <<"x-fg-signature", Sign(signing.key, CanonicalPayload(traceId, now, headers))>>>>

InjectSignedHeaders(id, flags, ip, signing, traceId, now) ==
    LET headers == InjectHeaders(id, flags, ip)
    IN  IF signing = None THEN headers
        ELSE headers \o SigningTail(signing, traceId, now, headers)

(* Mutant: the signature is made before the decision's headers are added.   *)
BuildFgHeadersSignedEarly(id, record, signing, traceId, now) ==
    LET base    == IF id = None THEN <<>> ELSE IdentityHeaders(id)
        headers == base \o (IF record = None THEN <<>> ELSE RecordHeaders(record))
    IN  IF signing = None \/ headers = <<>> THEN headers
        ELSE headers \o SigningTail(signing, traceId, now, base)

(* build_fg_headers of the axum layer: the identity, the decision record,   *)
(* and a signature that covers both; nothing is signed when both are absent.*)
BuildFgHeaders(id, record, signing, traceId, now) ==
    LET headers == (IF id = None THEN <<>> ELSE IdentityHeaders(id))
                   \o (IF record = None THEN <<>> ELSE RecordHeaders(record))
    IN  IF signing = None \/ headers = <<>> THEN headers
        ELSE headers \o SigningTail(signing, traceId, now, headers)

(* HeaderMap::insert replaces every value of the name.                      *)
Without(headers, names) ==
    LET Kept(h) == h[1] \notin names IN SelectSeq(headers, Kept)

InsertAll(headers, new) ==
    Without(headers, {new[i][1] : i \in DOMAIN new}) \o new
=============================================================================
