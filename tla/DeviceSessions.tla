--------------------------- MODULE DeviceSessions ----------------------------
(***************************************************************************)
(* The device session of the web player: a signing key that the tabs of a  *)
(* browser share in IndexedDB, certified by the wallet or registered with  *)
(* the market.  A logout or an account switch in one tab must stop the     *)
(* players of all, and no work begun before it may bring a session back.   *)
(* Tabs learn of it from the stored revision and from a broadcast.         *)
(***************************************************************************)
EXTENDS Integers, FiniteSets, FiniteSetsExt

CONSTANTS
    Screens,        \* tabs
    Browsers,       \* the tabs that prepare a session and that play, the deployment, and a bound:
                    \* logouts and account switches
    MaxKeysMade     \* bound: device keys

ASSUME SessionAssumption == MaxKeysMade \in Nat /\ \A b \in Browsers : b.updates \in Nat

VARIABLES
    browser,    \* one of Browsers; byMarket: devices are registered with the market, not certified
    store,      \* IndexedDB: the revision, the account's session key (0 for none), whether it is valid
    screen,     \* per tab: generation, observed revision, and its preparation, update and player
    news,       \* per tab: revisions broadcast and not yet delivered
    devices,    \* the market: registered keys
    orders,     \* registrations sent and not executed
    made, updates,  \* counters
    born, cleared   \* history: revision each key was prepared at, revision of the last logout

sessionVars == <<browser, store, screen, news, devices, orders, made, updates, born, cleared>>

byMarket == browser.byMarket
Undefined == -1
NoWork == [op |-> "idle", gen |-> 0, rev |-> 0, key |-> 0, listens |-> FALSE]
NoPlayer == [on |-> FALSE, op |-> "off", gen |-> 0, rev |-> 0, key |-> 0, early |-> FALSE]
Cold == [gen |-> 0, observed |-> Undefined, watches |-> FALSE,
         update |-> "none", updated |-> 0, work |-> NoWork, player |-> NoPlayer]

\* The listeners are the tab's player and an activation that waits for its device.
listenersRun(s) == [s EXCEPT !.player = NoPlayer, !.work = IF @.listens THEN NoWork ELSE @]

invalidate(s) == listenersRun([s EXCEPT !.gen = @ + 1])

watchSessionChanges(s) == [s EXCEPT !.watches = TRUE]

\* Whoever reads the store learns its revision; a cold page takes it as it is.
readStored(s) ==
    LET seen == [watchSessionChanges(s) EXCEPT !.observed = Max({@, store.revision})]
    IN IF s.observed # Undefined /\ store.revision > s.observed THEN listenersRun(seen) ELSE seen

-----------------------------------------------------------------------------
(* Logout and account switch. *)

\* First the tab stops its own players and the work it may still forget...
updateDeviceSession(t, clear) ==
    /\ updates < browser.updates /\ updates' = updates + 1
    /\ screen[t].update = "none"
    /\ screen' = [screen EXCEPT ![t] = [invalidate(@) EXCEPT !.update = IF clear THEN "clear" ELSE "suspend"]]
    /\ UNCHANGED <<browser, store, news, devices, orders, made, born, cleared>>

clearDeviceSession(t) == updateDeviceSession(t, TRUE)
suspendDeviceSession(t) == updateDeviceSession(t, FALSE)

\* ... then the store gets a new revision, without the session after a logout...
updateCommits(t) ==
    /\ screen[t].update \in {"clear", "suspend"}
    /\ LET clears == screen[t].update = "clear" IN
       /\ store' = [store EXCEPT !.revision = @ + 1, !.key = IF clears THEN 0 ELSE @,
                                 !.valid = IF clears THEN TRUE ELSE @]
       /\ cleared' = IF clears THEN store.revision + 1 ELSE cleared
    /\ screen' = [screen EXCEPT ![t].update = "posting", ![t].updated = store.revision + 1]
    /\ UNCHANGED <<browser, news, devices, orders, made, updates, born>>

\* ... and the other tabs are told.
postRevision(t) ==
    /\ screen[t].update = "posting"
    /\ screen' = [screen EXCEPT ![t] = [watchSessionChanges(screen[t]) EXCEPT
         !.observed = Max({@, 0, screen[t].updated}), !.update = "none", !.updated = 0]]
    /\ news' = [u \in Screens |-> IF u # t /\ screen[u].watches THEN news[u] \cup {screen[t].updated} ELSE news[u]]
    /\ UNCHANGED <<browser, store, devices, orders, made, updates, born, cleared>>

onmessage(t) ==
    /\ \E data \in news[t] :
         /\ news' = [news EXCEPT ![t] = @ \ {data}]
         /\ screen' = [screen EXCEPT ![t] =
              IF data > Max({@.observed, 0}) THEN invalidate([@ EXCEPT !.observed = data]) ELSE @]
    /\ UNCHANGED <<browser, store, devices, orders, made, updates, born, cleared>>

-----------------------------------------------------------------------------
(* A session is prepared: for a payment or an activation with the market,    *)
(* or with a wallet signature.                                               *)

Works(t, w) == screen' = [screen EXCEPT ![t].work = w]
WorkAt(t, op) == [screen[t].work EXCEPT !.op = op]
reads(t, s) == screen' = [screen EXCEPT ![t] = s]

prepareSession(t, listens) ==
    /\ t \in browser.prepare /\ screen[t].work.op = "idle"
    /\ listens => byMarket
    /\ Works(t, [NoWork EXCEPT !.op = "reading", !.gen = screen[t].gen, !.listens = listens])
    /\ UNCHANGED <<browser, store, news, devices, orders, made, updates, born, cleared>>

\* The stored session is read...
readsSession(t) ==
    /\ screen[t].work.op = "reading"
    /\ reads(t, LET s == readStored(screen[t]) IN
                IF s.work.op = "idle" THEN s
                ELSE [s EXCEPT !.work.op = "checking", !.work.rev = store.revision, !.work.key = store.key])
    /\ UNCHANGED <<browser, store, news, devices, orders, made, updates, born, cleared>>

\* ... and used if it is valid and still the tab's; an invalid one is cleared first.
readValidDeviceSession(t) ==
    /\ screen[t].work.op = "checking" /\ screen[t].update = "none"
    /\ LET w == screen[t].work
           same == w.gen = screen[t].gen
       IN CASE w.key # 0 /\ ~store.valid /\ w.key = store.key /\ same ->
                 /\ updates < browser.updates /\ updates' = updates + 1
                 /\ reads(t, [invalidate(screen[t]) EXCEPT
                      !.update = "clear",
                      !.work = IF w.listens THEN NoWork
                               ELSE [w EXCEPT !.op = "revising", !.gen = screen[t].gen + 1]])
            [] ~same -> Works(t, NoWork) /\ UNCHANGED updates
            [] same /\ w.key # 0 /\ w.rev = screen[t].observed -> Works(t, WorkAt(t, "confirming")) /\ UNCHANGED updates
            [] OTHER -> Works(t, WorkAt(t, "revising")) /\ UNCHANGED updates
    /\ UNCHANGED <<browser, store, news, devices, orders, made, born, cleared>>

\* The revision is read before the key is made, and the wallet asked.
makesKey(t) ==
    /\ screen[t].work.op = "revising" /\ screen[t].update = "none"
    /\ made < MaxKeysMade
    /\ LET s == readStored(screen[t]) IN
       IF s.work.op = "idle"
       THEN reads(t, s) /\ UNCHANGED <<made, born>>
       ELSE /\ made' = made + 1 /\ born' = [born EXCEPT ![made + 1] = store.revision]
            /\ reads(t, [s EXCEPT !.work.op = "saving", !.work.rev = store.revision, !.work.key = made + 1])
    /\ UNCHANGED <<browser, store, news, devices, orders, updates, cleared>>

\* Nothing is saved after the revision or the tab's generation changed.  A market device that
\* another tab saved meanwhile is used instead.
save_always(t) == TRUE
saves(t) ==
    store.revision = screen[t].work.rev /\ screen[t].gen = screen[t].work.gen

saveSession(t) ==
    /\ screen[t].work.op = "saving"
    /\ IF ~saves(t) THEN Works(t, NoWork) /\ UNCHANGED store
       ELSE LET reused == byMarket /\ store.key # 0 IN
            /\ store' = IF reused THEN store ELSE [store EXCEPT !.key = screen[t].work.key, !.valid = TRUE]
            /\ Works(t, [WorkAt(t, "confirming") EXCEPT !.key = IF reused THEN store.key ELSE @])
    /\ UNCHANGED <<browser, news, devices, orders, made, updates, born, cleared>>

\* The caller gets the session if it is still there.
confirmsSession(t) ==
    /\ screen[t].work.op = "confirming"
    /\ LET s == IF byMarket THEN readStored(screen[t]) ELSE screen[t]
           kept == s.work.gen = s.gen /\ (byMarket => store.key = s.work.key)
       IN reads(t, IF s.work.op = "idle" THEN s
                   ELSE IF kept /\ byMarket THEN [s EXCEPT !.work.op = "authorizing"]
                   ELSE [s EXCEPT !.work = NoWork])
    /\ UNCHANGED <<browser, store, news, devices, orders, made, updates, born, cleared>>

\* The payment or the activation carries the key to the market.
activatePlaybackDevice(t) ==
    /\ screen[t].work.op = "authorizing"
    /\ orders' \in {orders, orders \cup {screen[t].work.key}}
    /\ Works(t, NoWork)
    /\ UNCHANGED <<browser, store, news, devices, made, updates, born, cleared>>

activate_playback_device(k) ==
    /\ orders' = orders \ {k} /\ devices' = devices \cup {k}
    /\ UNCHANGED <<browser, store, screen, news, made, updates, born, cleared>>

\* Eight hours later a wallet's certificate is no longer valid.
certificateExpires ==
    /\ ~byMarket /\ store.key # 0 /\ store.valid
    /\ store' = [store EXCEPT !.valid = FALSE]
    /\ UNCHANGED <<browser, screen, news, devices, orders, made, updates, born, cleared>>

-----------------------------------------------------------------------------
(* The player: a token needs the session, first and at every renewal. *)

Plays(t, p) == screen' = [screen EXCEPT ![t].player = p]

startLivepeerPlaybackSession(t) ==
    /\ t \in browser.play /\ screen[t].player.op = "off"
    /\ screen' = [screen EXCEPT ![t] = [watchSessionChanges(@) EXCEPT
         !.player = [NoPlayer EXCEPT !.op = "reading", !.gen = screen[t].gen]]]
    /\ UNCHANGED <<browser, store, news, devices, orders, made, updates, born, cleared>>

refresh(t) ==
    /\ screen[t].player.on /\ screen[t].player.op = "idle"
    /\ Plays(t, [screen[t].player EXCEPT !.op = "reading", !.gen = screen[t].gen])
    /\ UNCHANGED <<browser, store, news, devices, orders, made, updates, born, cleared>>

\* The session as stored: without one the player stops, one that is not valid is cleared.
createStatelessPlaybackRequest(t) ==
    /\ screen[t].player.op = "reading"
    /\ LET s == readStored(screen[t])
           invalid == s.player.op # "off" /\ store.key # 0 /\ ~store.valid
       IN /\ invalid => s.update = "none" /\ updates < browser.updates
          /\ updates' = IF invalid THEN updates + 1 ELSE updates
          /\ reads(t, IF s.player.op = "off" THEN s
                      ELSE IF store.key = 0 THEN [s EXCEPT !.player = NoPlayer]
                      ELSE IF invalid THEN [invalidate(s) EXCEPT !.update = "clear"]
                      ELSE [s EXCEPT !.player.op = "checking", !.player.key = store.key,
                                     !.player.rev = store.revision,
                                     !.player.early = (s.update \in {"clear", "suspend"})])
    /\ UNCHANGED <<browser, store, news, devices, orders, made, born, cleared>>

\* A market device must be registered, and its session still be stored once the chain has answered.
getDeviceSession(t) ==
    /\ screen[t].player.op = "checking"
    /\ LET p == screen[t].player
           s == IF byMarket THEN readStored(screen[t]) ELSE screen[t]
           good == /\ p.gen = screen[t].gen /\ p.rev = screen[t].observed
                   /\ byMarket => p.key \in devices /\ store.key = p.key
       IN reads(t, IF s.player.op = "off" THEN s
                   ELSE IF good THEN [s EXCEPT !.player.op = "asking"]
                   ELSE [s EXCEPT !.player = NoPlayer])
    /\ UNCHANGED <<browser, store, news, devices, orders, made, updates, born, cleared>>

\* The bridge gives a token, or an error: for a while the running player keeps its old one.
requestStatelessPlaybackToken(t) ==
    /\ screen[t].player.op = "asking"
    /\ \/ Plays(t, [screen[t].player EXCEPT !.on = TRUE, !.op = "idle"])
       \/ Plays(t, IF screen[t].player.on THEN [screen[t].player EXCEPT !.op = "idle"] ELSE NoPlayer)
       \/ Plays(t, NoPlayer)
    /\ UNCHANGED <<browser, store, news, devices, orders, made, updates, born, cleared>>

\* The token's own timer, or the viewer leaves.
playerStops(t) ==
    /\ screen[t].player.op # "off"
    /\ Plays(t, NoPlayer)
    /\ UNCHANGED <<browser, store, news, devices, orders, made, updates, born, cleared>>

-----------------------------------------------------------------------------
SessionInit ==
    /\ browser \in Browsers
    /\ store = [revision |-> 0, key |-> 0, valid |-> TRUE]
    /\ screen = [t \in Screens |-> Cold]
    /\ news = [t \in Screens |-> {}]
    /\ devices = {} /\ orders = {}
    /\ made = 0 /\ updates = 0
    /\ born = [k \in 1..MaxKeysMade |-> 0] /\ cleared = 0

Prepares(t) ==
    \/ \E listens \in BOOLEAN : prepareSession(t, listens)
    \/ readsSession(t) \/ readValidDeviceSession(t) \/ makesKey(t) \/ saveSession(t)
    \/ confirmsSession(t) \/ activatePlaybackDevice(t)
Watches(t) ==
    \/ startLivepeerPlaybackSession(t) \/ refresh(t) \/ createStatelessPlaybackRequest(t)
    \/ getDeviceSession(t) \/ requestStatelessPlaybackToken(t) \/ playerStops(t)
SessionNext ==
    \/ \E t \in Screens :
         \/ clearDeviceSession(t) \/ suspendDeviceSession(t)
         \/ updateCommits(t) \/ postRevision(t) \/ onmessage(t)
         \/ Prepares(t) \/ Watches(t)
    \/ \E k \in orders : activate_playback_device(k)
    \/ certificateExpires

-----------------------------------------------------------------------------
SessionTypeOK ==
    /\ store.revision \in 0..browser.updates /\ store.key \in 0..made
    /\ \A t \in Screens : screen[t].observed \in -1..store.revision /\ news[t] \subseteq 1..store.revision
    /\ devices \cup orders \subseteq 1..made

\* A logout is not undone: the stored session was prepared after the last one.
LogoutHolds == store.key # 0 => born[store.key] >= cleared

\* Once the news of a logout or an account switch is through, only players run that read the
\* session after it; the exception is one that the same tab started while its logout was waiting
\* for the store.
PlayersStop ==
    (\A t \in Screens : news[t] = {} /\ screen[t].update = "none")
        => \A t \in Screens : screen[t].player.on /\ screen[t].player.op = "idle" /\ ~screen[t].player.early
              => screen[t].player.rev = store.revision

\* The device that was paid for stays the browser's device until a logout.
DeviceKept == \A k \in devices : byMarket /\ born[k] >= cleared => store.key = k

SessionsSafe == SessionTypeOK /\ LogoutHolds /\ PlayersStop /\ DeviceKept
=============================================================================
