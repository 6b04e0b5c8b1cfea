--------------------------- MODULE MarketSwitches ---------------------------
(***************************************************************************)
(* The emergency switches and the code upgrade of the V2 market contract   *)
(* (contracts/market-v2/src/lib.rs).  The guardian freezes the bridge and  *)
(* pauses purchases at once; the admin reopens them after a delay that     *)
(* starts with a request.  A code upgrade is proposed by hash, executed by *)
(* anyone after its delay, and takes effect in a later receipt: the batch  *)
(* that deploys the code and calls migrate.                                *)
(*                                                                         *)
(* Calls by the wrong account, calls that panic and calls that return      *)
(* early change nothing and are stutters.  Who holds the admin and the     *)
(* guardian account is MarketRoles' subject; the public beta, which also   *)
(* pauses purchases on testnet, is MarketPublications'.                    *)
(***************************************************************************)
EXTENDS MarketGovernance

CONSTANTS
    Code,                          \* SHA-256 hashes of contract code
    FirstCode,                     \* the code first deployed
    Slot,                          \* bound: deploy batches in flight
    MAINNET_REOPEN_DELAY, MAINNET_CODE_UPGRADE_DELAY,
    MaxProposals                   \* bound

ASSUME CodeAssumption == FirstCode \in Code

ASSUME SwitchDelayAssumption ==
    /\ MAINNET_REOPEN_DELAY \in Nat /\ MAINNET_CODE_UPGRADE_DELAY \in Nat
    /\ MaxProposals \in Nat

VARIABLES
    bridge_frozen,
    unfreeze_request,     \* BRIDGE_UNFREEZE_REQUEST_KEY: when, or Never
    paused,               \* NEW_PURCHASES_PAUSED_KEY
    unpause_request,      \* NEW_PURCHASES_UNPAUSE_REQUEST_KEY: when, or Never
    upgrade,              \* CODE_UPGRADE_KEY: PendingCodeUpgrade, or NoUpgrade
    batches,              \* deploy-and-migrate receipts on their way
    code,                 \* the deployed code
    shut,                 \* history: when each switch was last closed or kept so
    proposals, upgrades,  \* history: proposals made and upgrades applied
    announced,            \* history: the code the last code_upgraded event names
    first_proposed        \* history: when each code was first proposed, or Never

switches == <<bridge_frozen, unfreeze_request, paused, unpause_request, shut>>
codes    == <<upgrade, batches, code, proposals, upgrades, announced,
              first_proposed>>
switchesVars     == <<switches, codes, now>>
-----------------------------------------------------------------------------
(* Data. *)

Never == -1
NoUpgrade == [code |-> "none"]
NoBatch == "none"
Upgrade == [code : Code, executable_at : Nat]

reopen_delay == governance_delay_ms(MAINNET_REOPEN_DELAY)
code_upgrade_delay == governance_delay_ms(MAINNET_CODE_UPGRADE_DELAY)

\* assert_reopen_elapsed
assert_reopen_elapsed(requested_at) ==
    requested_at # Never /\ now >= requested_at + reopen_delay

\* History: at time now the switch is closed, or a request to open it is dropped.
Shut(switch) == shut' = [shut EXCEPT ![switch] = now]

\* new opens both switches; new_public_testnet, on testnet, closes both.
SwitchesInit ==
    /\ \/ bridge_frozen = FALSE /\ paused = FALSE
       \/ Network = "testnet" /\ bridge_frozen = TRUE /\ paused = TRUE
    /\ unfreeze_request = Never /\ unpause_request = Never
    /\ upgrade = NoUpgrade
    /\ batches = [s \in Slot |-> NoBatch]
    /\ code = FirstCode
    /\ now = 0
    /\ shut = [bridge |-> 0, purchases |-> 0]
    /\ proposals = 0 /\ upgrades = 0
    /\ announced = FirstCode
    /\ first_proposed = [c \in Code |-> Never]
-----------------------------------------------------------------------------
(* The bridge. *)

freeze_bridge ==
    /\ ~bridge_frozen
    /\ bridge_frozen' = TRUE
    /\ Shut("bridge")
    /\ UNCHANGED <<unfreeze_request, paused, unpause_request, codes, now>>

\* Mutant: a request may be made in advance, while the bridge is not frozen.
unfreeze_requestable_ahead == TRUE
unfreeze_requestable == bridge_frozen

\* A second request keeps the clock of the first.
request_bridge_unfreeze ==
    /\ unfreeze_requestable
    /\ unfreeze_request = Never
    /\ unfreeze_request' = now
    /\ UNCHANGED <<bridge_frozen, paused, unpause_request, shut, codes, now>>

cancel_bridge_unfreeze ==
    /\ unfreeze_request # Never
    /\ unfreeze_request' = Never
    /\ Shut("bridge")
    /\ UNCHANGED <<bridge_frozen, paused, unpause_request, codes, now>>

unfreeze_bridge ==
    /\ bridge_frozen
    /\ assert_reopen_elapsed(unfreeze_request)
    /\ bridge_frozen' = FALSE
    /\ unfreeze_request' = Never
    /\ UNCHANGED <<paused, unpause_request, shut, codes, now>>
-----------------------------------------------------------------------------
(* Purchases. *)

pause_new_purchases ==
    /\ ~paused
    /\ paused' = TRUE
    /\ Shut("purchases")
    /\ UNCHANGED <<bridge_frozen, unfreeze_request, unpause_request, codes, now>>

request_new_purchases_unpause ==
    /\ paused
    /\ unpause_request = Never
    /\ unpause_request' = now
    /\ UNCHANGED <<bridge_frozen, unfreeze_request, paused, shut, codes, now>>

cancel_new_purchases_unpause ==
    /\ unpause_request # Never
    /\ unpause_request' = Never
    /\ Shut("purchases")
    /\ UNCHANGED <<bridge_frozen, unfreeze_request, paused, codes, now>>

unpause_new_purchases ==
    /\ paused
    /\ assert_reopen_elapsed(unpause_request)
    /\ paused' = FALSE
    /\ unpause_request' = Never
    /\ UNCHANGED <<bridge_frozen, unfreeze_request, shut, codes, now>>
-----------------------------------------------------------------------------
(* Code. *)

propose_code_upgrade(c) ==
    /\ upgrade = NoUpgrade
    /\ proposals < MaxProposals
    /\ upgrade' = [code |-> c, executable_at |-> now + code_upgrade_delay]
    /\ proposals' = proposals + 1
    /\ first_proposed' = [first_proposed EXCEPT ![c] = IF @ = Never THEN now
                                                       ELSE @]
    /\ UNCHANGED <<switches, batches, code, upgrades, announced, now>>

cancel_code_upgrade ==
    /\ upgrade # NoUpgrade
    /\ upgrade' = NoUpgrade
    /\ UNCHANGED <<switches, batches, code, proposals, upgrades, announced,
                   first_proposed, now>>

\* Mutant: the delay is not looked at.
upgrade_any_time == TRUE
upgrade_elapsed == now >= upgrade.executable_at

\* Anyone, with the code whose hash is pending.  The record stays until migrate.
execute_code_upgrade(s) ==
    /\ upgrade # NoUpgrade
    /\ upgrade_elapsed
    /\ batches[s] = NoBatch
    /\ batches' = [batches EXCEPT ![s] = upgrade.code]
    /\ UNCHANGED <<switches, upgrade, code, proposals, upgrades, announced,
                   first_proposed, now>>


upgrade_cleared == NoUpgrade

\* The batch deploys the code and calls migrate in it, which wants a pending
\* upgrade, whichever it is, and announces that one.  An upgrade of the same
\* state version is assumed: its migrate is this one.
migrate(s) ==
    /\ batches[s] # NoBatch
    /\ upgrade # NoUpgrade
    /\ code' = batches[s]
    /\ announced' = upgrade.code
    /\ upgrade' = upgrade_cleared
    /\ upgrades' = upgrades + 1
    /\ batches' = [batches EXCEPT ![s] = NoBatch]
    /\ UNCHANGED <<switches, proposals, first_proposed, now>>

\* migrate panics: the batch is one receipt and leaves the code in place.
migrate_fails(s) ==
    /\ batches[s] # NoBatch
    /\ upgrade = NoUpgrade
    /\ batches' = [batches EXCEPT ![s] = NoBatch]
    /\ UNCHANGED <<switches, upgrade, code, proposals, upgrades, announced,
                   first_proposed, now>>

SwitchesTick ==
    /\ now < MaxNow
    /\ now' = now + 1
    /\ UNCHANGED <<switches, codes>>
-----------------------------------------------------------------------------
Bridge ==
    \/ freeze_bridge
    \/ request_bridge_unfreeze
    \/ cancel_bridge_unfreeze
    \/ unfreeze_bridge

Purchases ==
    \/ pause_new_purchases
    \/ request_new_purchases_unpause
    \/ cancel_new_purchases_unpause
    \/ unpause_new_purchases

Upgrades ==
    \/ \E c \in Code : propose_code_upgrade(c)
    \/ cancel_code_upgrade
    \/ \E s \in Slot :
          execute_code_upgrade(s) \/ migrate(s) \/ migrate_fails(s)

SwitchesNext == Bridge \/ Purchases \/ Upgrades \/ SwitchesTick

SwitchesSpec == SwitchesInit /\ [][SwitchesNext]_switchesVars
-----------------------------------------------------------------------------
(* Properties. *)

\* Every variable has the type of the storage key it models.
SwitchesTypeOK ==
    /\ bridge_frozen \in BOOLEAN /\ paused \in BOOLEAN
    /\ unfreeze_request \in Nat \cup {Never}
    /\ unpause_request \in Nat \cup {Never}
    /\ upgrade \in Upgrade \cup {NoUpgrade}
    /\ batches \in [Slot -> Code \cup {NoBatch}]
    /\ code \in Code /\ announced \in Code
    /\ now \in Nat
    /\ shut \in [bridge : Nat, purchases : Nat]
    /\ proposals \in Nat /\ upgrades \in Nat
    /\ first_proposed \in [Code -> Nat \cup {Never}]

\* The guardian's switches hold for the whole delay: the bridge is unfrozen and
\* purchases are unpaused only when the delay has run since the switch was last
\* closed and since the last request was cancelled.
ReopenOnNotice ==
    [][/\ bridge_frozen /\ ~bridge_frozen' => now >= shut.bridge + reopen_delay
       /\ paused /\ ~paused' => now >= shut.purchases + reopen_delay]_switchesVars

\* A proposal is applied at most once, however many batches were started for it
\* before the first migrate ran.
OneUpgradePerProposal ==
    upgrades + (IF upgrade = NoUpgrade THEN 0 ELSE 1) <= proposals

Noticed(c) ==
    first_proposed[c] # Never /\ now >= first_proposed[c] + code_upgrade_delay

\* No code is deployed that was not first proposed a whole delay earlier,
\* whatever was cancelled, proposed and executed in between.
CodeOnNotice == [][code' # code => Noticed(code')]_switchesVars
-----------------------------------------------------------------------------
(* What makes those properties inductive. *)

\* A request exists only while the switch is closed, and is no older than its
\* closing or the last cancellation.
RequestsFresh ==
    /\ shut.bridge <= now /\ shut.purchases <= now
    /\ unfreeze_request # Never =>
          bridge_frozen /\ unfreeze_request >= shut.bridge
    /\ unpause_request # Never =>
          paused /\ unpause_request >= shut.purchases

\* A pending upgrade runs out no earlier than a delay after the first proposal
\* of its code, and a batch on its way was started after that.
UpgradesNoticed ==
    /\ upgrade # NoUpgrade =>
          /\ first_proposed[upgrade.code] # Never
          /\ upgrade.executable_at
                >= first_proposed[upgrade.code] + code_upgrade_delay
    /\ \A s \in Slot : batches[s] # NoBatch => Noticed(batches[s])
    /\ \A c \in Code : first_proposed[c] <= now

SwitchesInv ==
    SwitchesTypeOK /\ RequestsFresh /\ OneUpgradePerProposal /\ UpgradesNoticed
=============================================================================
