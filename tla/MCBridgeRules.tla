---------------------------- MODULE MCBridgeRules ----------------------------
(* What the services and the browser decide on state they only remember:     *)
(* playback tokens, fee quotes, admission and the refund desk; the upload     *)
(* form, the payment by swap and the device session.  A behaviour moves one   *)
(* of them, its focus; the others keep one initial state.                     *)
EXTENDS PlaybackTokens, FeeQuotes, Admission, RefundInbox, UploadClient, SwapPayments, DeviceSessions

VARIABLE focus
deskVars == <<playVars, quoteVars, admissionVars, inboxVars>>
browserVars == <<clientVars, swapVars, sessionVars>>
rulesVars == <<deskVars, browserVars, focus>>

\* Who watches, by which route, and which rights of theirs may go.
Audience(route, plays, risks) == [route |-> route, plays |-> plays, risks |-> risks]
MCAudiences ==
    {Audience("v1", 2, {"publication"}), Audience("v1", 1, {"grant"}),
     Audience("v1", 1, {"entitlement"}),
     Audience("v2", 1, {"publication"}), Audience("v2", 1, {"entitlement"}),
     Audience("v2", 1, {"certificate"}),
     Audience("v3", 2, {"entitlement"}), Audience("v3", 1, {"publication", "device"})}

\* A private pilot with Stream and one place for two creators, and the public
\* testnet with two places for one creator.
Site(public, streams, places, first, second) ==
    [public |-> public, stream |-> streams, concurrency |-> places,
     creatorOf |-> [u \in Uploads |-> IF u = 1 THEN first ELSE second]]
MCSites == {Site(FALSE, TRUE, 1, 1, 2), Site(TRUE, FALSE, 2, 1, 1)}

\* Two files of the same size.
MCSize == [f \in Files |-> 1]

\* Both tabs prepare a device, or one prepares and one plays.
Browser(onChain, preparers, players, updated) ==
    [byMarket |-> onChain, prepare |-> preparers, play |-> players, updates |-> updated]
MCBrowsers ==
    {Browser(TRUE, {1, 2}, {}, 1), Browser(FALSE, {1, 2}, {}, 1),
     Browser(TRUE, {1}, {2}, 1), Browser(FALSE, {1}, {2}, 1),
     Browser(TRUE, {1}, {1}, 1), Browser(FALSE, {1}, {1}, 1)}

RulesInit ==
    /\ focus \in {"playback", "quotes", "admission", "inbox", "form", "swap", "session"}
    /\ PlaybackInit /\ FeeInit /\ AdmissionInit /\ InboxInit
    /\ ClientInit /\ SwapInit /\ SessionInit
    /\ focus # "playback" =>
         audience = (CHOOSE a \in Audiences : TRUE) /\ ticket = "none" /\ device = 2
    /\ focus # "quotes" => oracle.price = CHOOSE r \in Rates : TRUE
    /\ focus # "admission" => site = CHOOSE s \in Sites : TRUE
    /\ focus # "swap" => registered
    /\ focus # "session" => browser = CHOOSE b \in Browsers : TRUE

RulesNext ==
    /\ UNCHANGED focus
    /\ \/ /\ UNCHANGED browserVars
          /\ \/ /\ focus = "playback" /\ UNCHANGED <<quoteVars, admissionVars, inboxVars>>
                /\ PlaybackNext
             \/ /\ focus = "quotes" /\ UNCHANGED <<playVars, admissionVars, inboxVars>>
                /\ FeeNext
             \/ /\ focus = "admission" /\ UNCHANGED <<playVars, quoteVars, inboxVars>>
                /\ AdmissionNext
             \/ /\ focus = "inbox" /\ UNCHANGED <<playVars, quoteVars, admissionVars>>
                /\ InboxNext
       \/ /\ UNCHANGED deskVars
          /\ \/ focus = "form" /\ UNCHANGED <<swapVars, sessionVars>> /\ ClientNext
             \/ focus = "swap" /\ UNCHANGED <<clientVars, sessionVars>> /\ SwapNext
             \/ focus = "session" /\ UNCHANGED <<clientVars, swapVars>> /\ SessionNext

RulesSpec == RulesInit /\ [][RulesNext]_rulesVars

-----------------------------------------------------------------------------
\* Tokens follow the rights behind them, in both directions, and each signed request once.
TokensFollowRights == focus = "playback" => PlaybackSafe

\* The contract honours the bridge's quotes, and the bridge limits them.
FeesHonoured == focus = "quotes" => QuotesSafe

\* Places, quotas, Stream minutes and incidents hold at once, and no lease is left without alarm.
AdmissionBounded == focus = "admission" => AdmissionSafe

\* The inbox holds one open request and calls refunded only what the chain refunded.
RefundsAreReal == focus = "inbox" => InboxSafe

\* What a browser keeps of an upload, a payment by swap and a device session stays true
\* to the chain whatever its tabs do at the same time.
ClientsSafe ==
    /\ focus = "form" => ClientSafe
    /\ focus = "swap" => SwapSafe
    /\ focus = "session" => SessionsSafe
=============================================================================
