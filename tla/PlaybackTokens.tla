--------------------------- MODULE PlaybackTokens ---------------------------
(***************************************************************************)
(* The three ways a viewer gets a playback token from the bridge: /v1      *)
(* (session grant, nonce kept by the job's object), /v2 (device            *)
(* certificate, answers cached per isolate) and /v3 (the ticket's device   *)
(* list; the first play marks the ticket watched before a token is         *)
(* signed).  A request reads the chain in several calls and signs what it  *)
(* read a little earlier; meanwhile a ticket is refunded, a publication    *)
(* taken down, a key removed.  A token cannot be called back: it ends when *)
(* its time is over.                                                       *)
(***************************************************************************)
EXTENDS Integers, FiniteSets, FiniteSetsExt

CONSTANTS
    Audiences,      \* who watches: records of the route taken, of how many requests are under way
                    \* at a time and of the rights that may be lost
    TTL,            \* PLAYBACK_V2_TTL_SECONDS
    CertCache,      \* DEVICE_CERTIFICATE_CACHE_MS
    PubCache,       \* PUBLICATION_CACHE_MS
    GoodCache,      \* POSITIVE_ENTITLEMENT_CACHE_MS
    BadCache,       \* NEGATIVE_ENTITLEMENT_CACHE_MS
    Latency,        \* bound: how long one request takes
    NonceLife,      \* how long a signed /v1 request stays valid
    MaxPlayTime     \* bound: ticks of the clock

Kinds == {"certificate", "publication", "entitlement"}
Rights == Kinds \cup {"device", "grant"}

ASSUME PlaybackAssumption ==
    /\ Audiences \subseteq [route : {"v1", "v2", "v3"}, plays : Nat, risks : SUBSET Rights]
    /\ {TTL, CertCache, PubCache, GoodCache, BadCache, NonceLife} \subseteq Nat
    /\ {Latency, MaxPlayTime} \subseteq Nat \ {0}

Never == 2 * MaxPlayTime + 10
Miss == [val |-> "none", until |-> 0, tuple |-> "none"]
NoPlay == [pc |-> "idle", route |-> "none", since |-> 0, avail |-> "none", ticket |-> "none",
           device |-> 0, key |-> FALSE, fresh |-> FALSE]
NoToken == [route |-> "none", until |-> 0, at |-> 0]

VARIABLES
    audience,       \* who watches, fixed
    playTime,
    avail,          \* chain: availability of the publication
    ticket,         \* chain: status of the viewer's ticket, "none" before it is bought
    device,         \* chain: when the device's authorisation ends
    key,            \* chain: the key that authorised the device is on the account
    grant,          \* chain: when the session grant ends
    lostAt,         \* history: when each right was lost, Never while it is held
    boughtAt,       \* history: when the ticket was bought
    cache,          \* isolate memory: playbackAuthorizationCache, for the answers that may grow old
    play,           \* the requests under way
    healthy,        \* job object: the published asset was last found as it should be
    nonceUntil,     \* job object: until when the nonce of the signed /v1 request is kept, 0 if not
    replays,        \* history: /v1 tokens signed for the nonce before it expired
    token,          \* history: the last token signed
    deniedAt        \* history: when a viewer was last refused for lack of a ticket

rights == <<audience, avail, ticket, device, key, grant>>
playVars == <<playTime, rights, lostAt, boughtAt, cache, play, healthy, nonceUntil, replays, token, deniedAt>>

-----------------------------------------------------------------------------
Playable == {"purchased", "watched"}
PlayableAvailability == {"ACTIVE", "SALES_SUSPENDED"}

\* An entry counts until its time; entitlements are kept for one state of the publication only.
playbackCacheGet(kind, tuple) ==
    LET entry == cache[kind]
    IN IF entry.until > playTime /\ (kind = "entitlement" => entry.tuple = tuple) THEN entry ELSE Miss

\* An answer whose time is over at once is not kept.
playbackCachePut(kind, val, tuple, until) ==
    [cache EXCEPT ![kind] = IF until <= playTime THEN @ ELSE [val |-> val, until |-> until, tuple |-> tuple]]

Viewers == 1..audience.plays
at(p, pc) == play[p].pc = pc
refused(p) == play' = [play EXCEPT ![p] = NoPlay]

\* A token lasts for its time or as long as the device, whatever ends first.
signPlayback(p) ==
    IF play[p].device - playTime < 1 THEN refused(p) /\ UNCHANGED token
    ELSE /\ token' = [route |-> play[p].route, at |-> playTime,
                      until |-> playTime + Min({TTL, play[p].device - playTime})]
         /\ refused(p)

-----------------------------------------------------------------------------
(* /v2: each step checks what the last call returned and makes the next one. *)

\* The certificate's answer, from the cache or from the chain.
readCertificate(p) ==
    /\ at(p, "start") /\ play[p].route = "v2"
    /\ LET hit == playbackCacheGet("certificate", "none")
       IN play' = [play EXCEPT ![p] = IF hit.until # 0 THEN [@ EXCEPT !.pc = "pub", !.device = hit.val]
                                      ELSE [@ EXCEPT !.pc = "cert", !.device = device, !.key = key]]
    /\ UNCHANGED <<playTime, rights, lostAt, boughtAt, cache, healthy, nonceUntil, replays, token, deniedAt>>

verifyMarketDeviceProof(p) ==
    /\ at(p, "cert")
    /\ IF ~play[p].key \/ play[p].device <= playTime THEN refused(p) /\ UNCHANGED cache
       ELSE /\ cache' = playbackCachePut("certificate", play[p].device, "none",
                                         Min({playTime + CertCache, play[p].device}))
            /\ play' = [play EXCEPT ![p].pc = "pub"]
    /\ UNCHANGED <<playTime, rights, lostAt, boughtAt, healthy, nonceUntil, replays, token, deniedAt>>

\* The publication's answer; a fresh one fixes the block the entitlement is read at.
readPublication(p) ==
    /\ at(p, "pub")
    /\ LET hit == playbackCacheGet("publication", "none")
       IN play' = [play EXCEPT ![p] =
                     IF hit.until # 0 THEN [@ EXCEPT !.pc = "checked", !.avail = hit.val, !.fresh = FALSE]
                     ELSE [@ EXCEPT !.pc = "checked", !.avail = avail, !.ticket = ticket, !.fresh = TRUE]]
    /\ UNCHANGED <<playTime, rights, lostAt, boughtAt, cache, healthy, nonceUntil, replays, token, deniedAt>>

readEntitlement(p) ==
    /\ at(p, "checked")
    /\ IF play[p].avail \notin PlayableAvailability THEN refused(p) /\ UNCHANGED cache
       ELSE /\ cache' = IF play[p].fresh
                        THEN playbackCachePut("publication", play[p].avail, "none", playTime + PubCache)
                        ELSE cache
            /\ LET hit == playbackCacheGet("entitlement", play[p].avail)
               IN play' = [play EXCEPT ![p] =
                     IF hit.until # 0 THEN [@ EXCEPT !.pc = "entitled", !.ticket = hit.val, !.fresh = FALSE]
                     ELSE [@ EXCEPT !.pc = "entitled", !.fresh = TRUE,
                                    !.ticket = IF play[p].fresh THEN play[p].ticket ELSE ticket]]
    /\ UNCHANGED <<playTime, rights, lostAt, boughtAt, healthy, nonceUntil, replays, token, deniedAt>>

readStatelessPlaybackAuthorization(p) ==
    /\ at(p, "entitled")
    /\ LET good == play[p].ticket \in Playable
       IN /\ cache' = IF play[p].fresh
                      THEN playbackCachePut("entitlement", play[p].ticket, play[p].avail,
                                            playTime + (IF good THEN GoodCache ELSE BadCache))
                      ELSE cache
          /\ deniedAt' = IF good THEN deniedAt ELSE playTime
          /\ IF good THEN play' = [play EXCEPT ![p].pc = "policy"] ELSE refused(p)
    /\ UNCHANGED <<playTime, rights, lostAt, boughtAt, healthy, nonceUntil, replays, token>>

-----------------------------------------------------------------------------
(* /v3: ticket and publication at one block; the first play settles the ticket. *)

getTicket(p) ==
    /\ at(p, "start") /\ play[p].route = "v3"
    /\ play' = [play EXCEPT ![p] = [@ EXCEPT !.pc = "decide", !.ticket = ticket, !.avail = avail,
                                             !.device = device]]
    /\ UNCHANGED <<playTime, rights, lostAt, boughtAt, cache, healthy, nonceUntil, replays, token, deniedAt>>

\* Mutant: a purchased ticket plays like a watched one.
plays_unsettled(status) == "policy"
settlesFirst(status) == IF status = "purchased" THEN "watch" ELSE "policy"

decideTicketPlayback(p) ==
    /\ at(p, "decide")
    /\ IF play[p].ticket \notin Playable \/ play[p].avail \notin PlayableAvailability
          \/ play[p].device <= playTime
       THEN refused(p)
       ELSE play' = [play EXCEPT ![p].pc = settlesFirst(play[p].ticket)]
    /\ UNCHANGED <<playTime, rights, lostAt, boughtAt, cache, healthy, nonceUntil, replays, token, deniedAt>>

\* The operator's outbox answers 200 only when the chain says that the ticket is watched.
forwardMarkWatched(p) ==
    /\ at(p, "watch")
    /\ \/ refused(p) /\ UNCHANGED ticket
       \/ /\ ticket \in Playable /\ avail # "TAKEDOWN"
          /\ ticket' = "watched"
          /\ play' = [play EXCEPT ![p].pc = "policy"]
    /\ UNCHANGED <<audience, playTime, avail, device, key, grant, lostAt, boughtAt, cache, healthy, nonceUntil,
                   replays, token, deniedAt>>

-----------------------------------------------------------------------------
(* /v1: the nonce of the signed request is kept by the job's object. *)

\* The object parses the request again (it has not expired) and reads its job.
parsePlaybackTokenRequest(p) ==
    /\ at(p, "start") /\ play[p].route = "v1"
    /\ IF playTime >= NonceLife \/ ~healthy THEN refused(p)
       ELSE play' = [play EXCEPT ![p].pc = "nonce"]
    /\ UNCHANGED <<playTime, rights, lostAt, boughtAt, cache, healthy, nonceUntil, replays, token, deniedAt>>

issuePlaybackToken(p) ==
    /\ at(p, "nonce")
    /\ IF nonceUntil # 0 THEN refused(p) /\ UNCHANGED <<nonceUntil, replays>>
       ELSE /\ nonceUntil' = NonceLife
            /\ replays' = IF playTime < NonceLife THEN replays + 1 ELSE replays
            /\ play' = [play EXCEPT ![p] = [@ EXCEPT !.pc = "grant", !.ticket = ticket, !.avail = avail,
                                                     !.device = grant]]
    /\ UNCHANGED <<playTime, rights, lostAt, boughtAt, cache, healthy, token, deniedAt>>

purgeExpiredControlNonces ==
    /\ nonceUntil # 0 /\ nonceUntil <= playTime
    /\ nonceUntil' = 0
    /\ UNCHANGED <<playTime, rights, lostAt, boughtAt, cache, play, healthy, replays, token, deniedAt>>

readPlaybackAuthorization(p) ==
    /\ at(p, "grant")
    /\ IF play[p].ticket \notin Playable \/ play[p].avail \notin PlayableAvailability \/ play[p].device <= playTime
       THEN refused(p) ELSE play' = [play EXCEPT ![p].pc = "policy"]
    /\ UNCHANGED <<playTime, rights, lostAt, boughtAt, cache, healthy, nonceUntil, replays, token, deniedAt>>

-----------------------------------------------------------------------------
\* The provider's policy is looked up and the token signed.
verifyStatelessProviderPolicy(p) ==
    /\ at(p, "policy")
    /\ \/ signPlayback(p)
       \/ refused(p) /\ UNCHANGED token
    /\ UNCHANGED <<playTime, rights, lostAt, boughtAt, cache, healthy, nonceUntil, replays, deniedAt>>

Ask(p, route) ==
    /\ at(p, "idle")
    /\ play' = [play EXCEPT ![p] = [NoPlay EXCEPT !.pc = "start", !.route = route, !.since = playTime]]
    /\ UNCHANGED <<playTime, rights, lostAt, boughtAt, cache, healthy, nonceUntil, replays, token, deniedAt>>

\* The isolate is replaced, or the entry is the oldest of a full cache.
Evict(kind) ==
    /\ audience.route = "v2" /\ cache[kind].until # 0
    /\ cache' = [cache EXCEPT ![kind] = Miss]
    /\ UNCHANGED <<playTime, rights, lostAt, boughtAt, play, healthy, nonceUntil, replays, token, deniedAt>>

loses(kind) == kind \in audience.risks /\ lostAt' = [lostAt EXCEPT ![kind] = playTime]

ChainMoves ==
    /\ \/ /\ ticket = "none" /\ ticket' = "purchased" /\ boughtAt' = playTime
          /\ UNCHANGED <<avail, key, grant, lostAt>>
       \/ /\ ticket = "purchased" /\ ticket' = "refunded" /\ loses("entitlement")
          /\ UNCHANGED <<avail, key, grant, boughtAt>>
       \/ /\ avail = "ACTIVE" /\ avail' = "SALES_SUSPENDED" /\ UNCHANGED <<ticket, key, grant, lostAt, boughtAt>>
       \/ /\ avail # "TAKEDOWN" /\ avail' = "TAKEDOWN" /\ loses("publication")
          /\ UNCHANGED <<ticket, key, grant, boughtAt>>
       \/ /\ key /\ key' = FALSE /\ loses("certificate") /\ UNCHANGED <<avail, ticket, grant, boughtAt>>
       \/ /\ grant # 0 /\ grant' = 0 /\ loses("grant") /\ UNCHANGED <<avail, ticket, key, boughtAt>>
    /\ UNCHANGED <<audience, playTime, device, cache, play, healthy, nonceUntil, replays, token, deniedAt>>

\* The ticket's list drops the device for another one.
DeviceReplaced ==
    /\ device # 0 /\ device' = 0 /\ loses("device")
    /\ UNCHANGED <<audience, playTime, avail, ticket, key, grant, boughtAt, cache, play, healthy, nonceUntil,
                   replays, token, deniedAt>>

HealthChanges ==
    /\ audience.route = "v1"
    /\ healthy' = ~healthy
    /\ UNCHANGED <<playTime, rights, lostAt, boughtAt, cache, play, nonceUntil, replays, token, deniedAt>>

\* Entries of the cache whose time is over are as good as gone.
PlayTick ==
    /\ playTime < MaxPlayTime
    /\ \A p \in Viewers : ~at(p, "idle") => playTime - play[p].since < Latency
    /\ playTime' = playTime + 1
    /\ cache' = [k \in Kinds |-> IF cache[k].until <= playTime' THEN Miss ELSE cache[k]]
    /\ UNCHANGED <<rights, lostAt, boughtAt, play, healthy, nonceUntil, replays, token, deniedAt>>

PlaybackInit ==
    /\ audience \in Audiences
    /\ playTime = 0 /\ avail = "ACTIVE" /\ ticket \in {"none", "purchased"}
    /\ device \in {2, MaxPlayTime + 1} /\ key = TRUE /\ grant = device
    /\ lostAt = [k \in Rights |-> Never] /\ boughtAt = 0
    /\ cache = [k \in Kinds |-> Miss] /\ play = [p \in Viewers |-> NoPlay]
    /\ healthy = TRUE /\ nonceUntil = 0 /\ replays = 0 /\ token = NoToken /\ deniedAt = 0

Playback(p) ==
    \/ Ask(p, audience.route)
    \/ readCertificate(p) \/ verifyMarketDeviceProof(p) \/ readPublication(p) \/ readEntitlement(p)
    \/ readStatelessPlaybackAuthorization(p)
    \/ getTicket(p) \/ decideTicketPlayback(p) \/ forwardMarkWatched(p)
    \/ parsePlaybackTokenRequest(p) \/ issuePlaybackToken(p) \/ readPlaybackAuthorization(p)
    \/ verifyStatelessProviderPolicy(p)

PlaybackNext ==
    \/ \E p \in Viewers : Playback(p)
    \/ purgeExpiredControlNonces \/ ChainMoves \/ DeviceReplaced \/ HealthChanges \/ PlayTick
    \/ \E kind \in Kinds : Evict(kind)

-----------------------------------------------------------------------------
PlaybackTypeOK ==
    /\ playTime \in 0..MaxPlayTime /\ ticket \in {"none", "purchased", "watched", "refunded"}
    /\ avail \in {"ACTIVE", "SALES_SUSPENDED", "TAKEDOWN"} /\ key \in BOOLEAN
    /\ {device, grant} \subseteq 0..(MaxPlayTime + 1)
    /\ (\A k \in Kinds : cache[k].until \in Nat) /\ (\A k \in Rights : lostAt[k] \in 0..Never)
    /\ token.route \in {audience.route, "none"} /\ nonceUntil \in {0, NonceLife}

\* What each route looks at, and how long the bridge may go on believing in it: the time of one
\* request; by /v2 of two, the one that stored the answer and the one that found it stored before
\* its time was over.
Checks(route) ==
    {"publication", "entitlement"}
    \cup (CASE route = "v1" -> {"grant"} [] route = "v2" -> {"certificate", "device"} [] OTHER -> {"device"})
StaleFor(good) == good + 2 * Latency - 1
Believed(route, kind) ==
    IF route # "v2" THEN Latency
    ELSE StaleFor(CASE kind = "publication" -> PubCache [] kind = "entitlement" -> GoodCache [] OTHER -> CertCache)

\* A revocation takes hold: once a publication is taken down, a ticket refunded, a device or a
\* grant dropped or the key behind a device removed, no token is good for longer than what a
\* cache may keep, the time of the requests behind it and the life of a token.
RevocationTakesHold ==
    token # NoToken => \A kind \in Checks(token.route) :
                          token.until <= lostAt[kind] + Believed(token.route, kind) + TTL

\* A ticket bought after a refusal plays: nobody is refused for lack of a ticket once the short
\* memory of a refusal and the time of the requests that stored and found it are over.
PurchaseTakesHold ==
    ticket \in Playable /\ boughtAt > 0 => deniedAt <= boughtAt + StaleFor(BadCache)

\* The escrow of a ticket is settled before its first token by /v3: no viewer watches and then
\* takes the refund, however the refund and the play interleave.
SettledBeforeToken ==
    token.route = "v3" => ticket = "watched"

\* While a signed /v1 request is valid it is served once, although the object forgets nonces.
ServedOnce == replays <= 1

\* Tokens follow the rights behind them, in both directions, and each signed request once.
PlaybackSafe ==
    /\ PlaybackTypeOK
    /\ RevocationTakesHold /\ PurchaseTakesHold /\ SettledBeforeToken /\ ServedOnce
=============================================================================
