----------------------- MODULE MarketGovernanceProofs -----------------------
(***************************************************************************)
(* Proofs about the governance of the market contract: the rotation of its *)
(* roles and its switches.                                                 *)
(*                                                                         *)
(* RolesInv is inductive: the separation of the authorities needs the      *)
(* separation of the pending bridge from the roles, and the veto needs the *)
(* clocks of the pending rotations to start after the last cancellation.   *)
(*                                                                         *)
(* SwitchesInv is inductive: ReopenOnNotice needs a request never to be    *)
(* older than the last closing of its switch; CodeOnNotice needs every     *)
(* pending upgrade and every batch to have waited since the first proposal *)
(* of its code.                                                            *)
(***************************************************************************)
EXTENDS MarketRoles, MarketSwitches, TLAPS

-----------------------------------------------------------------------------
(* Roles. *)

\* The two delays, mainnet's or none on testnet, are natural numbers.
LEMMA RoleDelaysType ==
    role_rotation_delay_ms \in Nat /\ bridge_rotation_delay_ms \in Nat
  BY RoleDelayAssumption DEF role_rotation_delay_ms, bridge_rotation_delay_ms,
     governance_delay_ms

\* Every configuration that new accepts satisfies the invariant.
LEMMA InitRoles == RolesInit => RolesInv
  BY DEF RolesInit, RolesInv, RolesTypeOK, RolesSeparate, RotationsCurrent,
     PendingBridgeSeparate, ClocksRestart, NoVeto, NoRotation, Topic, Role

\* propose_role_rotation, cancel_role_rotation and execute_role_rotation keep
\* the invariant.
LEMMA RoleCallsKeep ==
    ASSUME RolesInv, NEW caller \in Account, RoleCalls(caller)
    PROVE  RolesInv'
<1> USE RoleDelaysType DEF RolesInv
<1>1. PICK role \in Role :
          \/ \E next \in Account : propose_role_rotation(caller, role, next)
          \/ cancel_role_rotation(caller, role)
          \/ execute_role_rotation(caller, role)
  BY DEF RoleCalls
<1>2. ASSUME NEW next \in Account, propose_role_rotation(caller, role, next)
      PROVE  RolesInv'
  <2>1. RolesTypeOK'
    BY <1>2 DEF propose_role_rotation, RolesTypeOK, PendingRole
  <2>2. RolesSeparate' /\ PendingBridgeSeparate'
    BY <1>2 DEF propose_role_rotation, RolesSeparate, PendingBridgeSeparate,
       OperatorSeparate, AuthoritiesSeparate
  <2>3. RotationsCurrent'
    BY <1>2 DEF propose_role_rotation, RotationsCurrent, RolesTypeOK
  <2>4. ClocksRestart'
    BY <1>2 DEF propose_role_rotation, ClocksRestart, RolesTypeOK
  <2>. QED  BY <2>1, <2>2, <2>3, <2>4
<1>3. ASSUME cancel_role_rotation(caller, role) PROVE RolesInv'
  <2> USE <1>3 DEF cancel_role_rotation, role_rotation_removed
  <2>1. RolesTypeOK'
    BY DEF RolesTypeOK, Veto, Topic
  <2>2. RolesSeparate' /\ PendingBridgeSeparate'
    BY DEF RolesSeparate, PendingBridgeSeparate, OperatorSeparate,
       AuthoritiesSeparate
  <2>3. RotationsCurrent'
    BY DEF RotationsCurrent, RolesTypeOK
  <2>4. ClocksRestart'
    BY DEF ClocksRestart, RolesTypeOK, Veto, Role
  <2>. QED  BY <2>1, <2>2, <2>3, <2>4
<1>4. ASSUME execute_role_rotation(caller, role) PROVE RolesInv'
  <2> USE <1>4 DEF execute_role_rotation, role_rotation_removed
  <2>1. /\ pending[role] \in PendingRole
        /\ pending[role].next \in Account
    BY DEF RolesTypeOK, PendingRole
  <2>2. RolesTypeOK'
    BY <2>1 DEF RolesTypeOK
  <2>3. RolesSeparate'
    BY <2>1 DEF RolesSeparate, assert_valid_role_assignment
  <2>4. PendingBridgeSeparate'
    BY <2>1 DEF PendingBridgeSeparate, assert_valid_role_assignment,
       pending_bridge_differs, RolesTypeOK
  <2>5. RotationsCurrent'
    BY <2>1 DEF RotationsCurrent, RolesTypeOK
  <2>6. ClocksRestart'
    BY DEF ClocksRestart, RolesTypeOK
  <2>. QED  BY <2>2, <2>3, <2>4, <2>5, <2>6
<1>. QED  BY <1>1, <1>2, <1>3, <1>4

\* propose_bridge, cancel_bridge_rotation and execute_bridge_rotation keep it.
LEMMA BridgeCallsKeep ==
    ASSUME RolesInv, NEW caller \in Account, BridgeCalls(caller)
    PROVE  RolesInv'
<1> USE RoleDelaysType DEF RolesInv
<1>1. ASSUME NEW next \in Account, propose_bridge(caller, next)
      PROVE  RolesInv'
  <2> USE <1>1 DEF propose_bridge
  <2>1. RolesTypeOK'
    BY DEF RolesTypeOK, PendingBridge
  <2>2. RolesSeparate' /\ RotationsCurrent'
    BY DEF RolesSeparate, RotationsCurrent, OperatorSeparate,
       AuthoritiesSeparate
  <2>3. PendingBridgeSeparate'
    BY DEF PendingBridgeSeparate, assert_valid_bridge_account
  <2>4. ClocksRestart'
    BY DEF ClocksRestart, RolesTypeOK
  <2>. QED  BY <2>1, <2>2, <2>3, <2>4
<1>2. ASSUME cancel_bridge_rotation(caller) PROVE RolesInv'
  <2> USE <1>2 DEF cancel_bridge_rotation
  <2>1. RolesTypeOK'
    BY DEF RolesTypeOK, Veto, Topic
  <2>2. RolesSeparate' /\ RotationsCurrent' /\ PendingBridgeSeparate'
    BY DEF RolesSeparate, RotationsCurrent, PendingBridgeSeparate,
       OperatorSeparate, AuthoritiesSeparate
  <2>3. ClocksRestart'
    BY DEF ClocksRestart, RolesTypeOK, Veto, Role
  <2>. QED  BY <2>1, <2>2, <2>3
<1>3. ASSUME execute_bridge_rotation(caller) PROVE RolesInv'
  <2> USE <1>3 DEF execute_bridge_rotation
  <2>1. pending_bridge \in PendingBridge /\ pending_bridge.next \in Account
    BY DEF RolesTypeOK, PendingBridge
  <2>2. RolesTypeOK'
    BY <2>1 DEF RolesTypeOK
  <2>3. RolesSeparate'
    BY <2>1 DEF RolesSeparate, PendingBridgeSeparate, OperatorSeparate,
       AuthoritiesSeparate, Role
  <2>4. RotationsCurrent' /\ PendingBridgeSeparate'
    BY DEF RotationsCurrent, PendingBridgeSeparate
  <2>5. ClocksRestart'
    BY DEF ClocksRestart, RolesTypeOK
  <2>. QED  BY <2>2, <2>3, <2>4, <2>5
<1>. QED  BY <1>1, <1>2, <1>3 DEF BridgeCalls

\* Every step keeps the invariant.
LEMMA NextRoles == RolesInv /\ [RolesNext]_rolesVars => RolesInv'
<1> SUFFICES ASSUME RolesInv, [RolesNext]_rolesVars PROVE RolesInv'
  OBVIOUS
<1>1. CASE \E caller \in Account : RoleCalls(caller) \/ BridgeCalls(caller)
  BY <1>1, RoleCallsKeep, BridgeCallsKeep
<1>2. CASE RolesTick \/ UNCHANGED rolesVars
  <2> USE <1>2 DEF RolesTick, rolesVars, RolesInv
  <2>1. RolesTypeOK'
    BY DEF RolesTypeOK
  <2>2. RolesSeparate' /\ RotationsCurrent' /\ PendingBridgeSeparate'
    BY DEF RolesSeparate, RotationsCurrent, PendingBridgeSeparate,
       OperatorSeparate, AuthoritiesSeparate
  <2>3. ClocksRestart'
    BY RoleDelaysType DEF ClocksRestart, RolesTypeOK
  <2>. QED  BY <2>1, <2>2, <2>3
<1>. QED  BY <1>1, <1>2 DEF RolesNext

\* The invariant holds in every reachable state of the role half of the market.
THEOREM RolesInvariant == RolesSpec => []RolesInv
  BY InitRoles, NextRoles, PTL DEF RolesSpec

\* The authorities that new keeps apart stay apart, for any number of accounts,
\* any delays and any interleaving of rotations.
THEOREM RolesSeparateCorrect == RolesSpec => []RolesSeparate
  BY RolesInvariant, PTL DEF RolesInv

\* A pending rotation is never stale, so the third check of
\* execute_role_rotation can never be the one that fails.
THEOREM RotationsCurrentCorrect == RolesSpec => []RotationsCurrent
  BY RolesInvariant, PTL DEF RolesInv

\* A step that changes a role or the bridge comes a whole delay after any
\* cancellation of that rotation.
LEMMA StepVeto ==
    ASSUME RolesInv, RolesNext
    PROVE  /\ \A r \in Role :
                holder'[r] # holder[r] => Waited(r, role_rotation_delay_ms)
           /\ active_bridge' # active_bridge
                => Waited("bridge", bridge_rotation_delay_ms)
<1> USE RoleDelaysType DEF RolesInv
<1>1. CASE \E caller \in Account : RoleCalls(caller)
  <2>1. active_bridge' = active_bridge
    BY <1>1 DEF RoleCalls, propose_role_rotation, cancel_role_rotation,
       execute_role_rotation
  <2>2. ASSUME NEW r \in Role, holder'[r] # holder[r]
        PROVE  Waited(r, role_rotation_delay_ms)
    <3>1. PICK caller \in Account, role \in Role :
             execute_role_rotation(caller, role)
      BY <1>1, <2>2 DEF RoleCalls, propose_role_rotation, cancel_role_rotation
    <3>2. role = r
      BY <2>2, <3>1 DEF execute_role_rotation, RolesTypeOK
    <3>3. pending[r] \in PendingRole /\ pending[r].executable_at \in Nat
      BY <3>1, <3>2 DEF execute_role_rotation, RolesTypeOK, PendingRole
    <3>. QED
      BY <3>1, <3>2, <3>3 DEF execute_role_rotation, ClocksRestart, Waited,
         RolesTypeOK
  <2>. QED  BY <2>1, <2>2
<1>2. CASE \E caller \in Account : BridgeCalls(caller)
  <2>1. holder' = holder
    BY <1>2 DEF BridgeCalls, propose_bridge, cancel_bridge_rotation,
       execute_bridge_rotation
  <2>2. ASSUME active_bridge' # active_bridge
        PROVE  Waited("bridge", bridge_rotation_delay_ms)
    <3>1. PICK caller \in Account : execute_bridge_rotation(caller)
      BY <1>2, <2>2 DEF BridgeCalls, propose_bridge, cancel_bridge_rotation
    <3>2. pending_bridge \in PendingBridge /\ pending_bridge.proposed_at \in Nat
      BY <3>1 DEF execute_bridge_rotation, RolesTypeOK, PendingBridge
    <3>. QED
      BY <3>1, <3>2 DEF execute_bridge_rotation, bridge_rotation_elapsed,
         bridge_rotation_executable_at_ms, ClocksRestart, Waited, RolesTypeOK
  <2>. QED  BY <2>1, <2>2
<1>3. CASE RolesTick
  BY <1>3 DEF RolesTick
<1>. QED  BY <1>1, <1>2, <1>3 DEF RolesNext

\* A cancelled rotation costs the whole delay again.
THEOREM VetoHoldsCorrect == RolesSpec => VetoHolds
<1>1. RolesInv /\ [RolesNext]_rolesVars =>
        [/\ \A r \in Role :
              holder'[r] # holder[r] => Waited(r, role_rotation_delay_ms)
         /\ active_bridge' # active_bridge
              => Waited("bridge", bridge_rotation_delay_ms)]_rolesVars
  BY StepVeto
<1>. QED
  BY <1>1, RolesInvariant, PTL DEF RolesSpec, VetoHolds

-----------------------------------------------------------------------------
(* Switches. *)

\* The delays in force are natural numbers.
LEMMA SwitchDelaysType == reopen_delay \in Nat /\ code_upgrade_delay \in Nat
  BY SwitchDelayAssumption DEF reopen_delay, code_upgrade_delay, governance_delay_ms

\* Both initialisers establish the invariant.
LEMMA InitSwitches == SwitchesInit => SwitchesInv
<1> SUFFICES ASSUME SwitchesInit PROVE SwitchesInv
  OBVIOUS
<1> USE DEF SwitchesInit, Never
<1>1. bridge_frozen \in BOOLEAN /\ paused \in BOOLEAN
  OBVIOUS
<1>2. SwitchesTypeOK
  BY <1>1, CodeAssumption DEF SwitchesTypeOK
<1>3. RequestsFresh /\ OneUpgradePerProposal
  BY DEF RequestsFresh, OneUpgradePerProposal
<1>4. UpgradesNoticed
  BY DEF UpgradesNoticed
<1>. QED  BY <1>2, <1>3, <1>4 DEF SwitchesInv

\* A step of a switch leaves the upgrade's part of the invariant alone.
LEMMA CodesUnchanged ==
    ASSUME OneUpgradePerProposal, UpgradesNoticed, UNCHANGED <<codes, now>>
    PROVE  OneUpgradePerProposal' /\ UpgradesNoticed'
  BY DEF codes, OneUpgradePerProposal, UpgradesNoticed, Noticed

\* A step of the upgrade leaves the switches' part of the invariant alone.
LEMMA SwitchesUnchanged ==
    ASSUME RequestsFresh, UNCHANGED <<switches, now>>
    PROVE  RequestsFresh'
  BY DEF switches, RequestsFresh

\* Freezing, requesting, cancelling and reopening the bridge.
LEMMA BridgeKeeps == ASSUME SwitchesInv, Bridge PROVE SwitchesInv'
<1>1. UNCHANGED <<codes, now>>
  BY DEF Bridge, freeze_bridge, request_bridge_unfreeze,
     cancel_bridge_unfreeze, unfreeze_bridge
<1>2. OneUpgradePerProposal' /\ UpgradesNoticed'
  BY <1>1, CodesUnchanged DEF SwitchesInv
<1>3. SwitchesTypeOK'
  BY <1>1 DEF Bridge, freeze_bridge, request_bridge_unfreeze, Shut,
     cancel_bridge_unfreeze, unfreeze_bridge, SwitchesInv, SwitchesTypeOK, codes
<1>4. RequestsFresh'
  BY <1>1 DEF Bridge, freeze_bridge, request_bridge_unfreeze, Shut,
     cancel_bridge_unfreeze, unfreeze_bridge, SwitchesInv, SwitchesTypeOK,
     RequestsFresh, unfreeze_requestable, Never
<1>. QED  BY <1>2, <1>3, <1>4 DEF SwitchesInv

\* Pausing, requesting, cancelling and reopening purchases.
LEMMA PurchasesKeep == ASSUME SwitchesInv, Purchases PROVE SwitchesInv'
<1>1. UNCHANGED <<codes, now>>
  BY DEF Purchases, pause_new_purchases, request_new_purchases_unpause,
     cancel_new_purchases_unpause, unpause_new_purchases
<1>2. OneUpgradePerProposal' /\ UpgradesNoticed'
  BY <1>1, CodesUnchanged DEF SwitchesInv
<1>3. SwitchesTypeOK'
  BY <1>1 DEF Purchases, pause_new_purchases, request_new_purchases_unpause,
     cancel_new_purchases_unpause, unpause_new_purchases, Shut, SwitchesInv,
     SwitchesTypeOK, codes
<1>4. RequestsFresh'
  BY <1>1 DEF Purchases, pause_new_purchases, request_new_purchases_unpause,
     cancel_new_purchases_unpause, unpause_new_purchases, Shut, SwitchesInv,
     SwitchesTypeOK, RequestsFresh, Never
<1>. QED  BY <1>2, <1>3, <1>4 DEF SwitchesInv

\* Proposing, cancelling and executing an upgrade, and its batch.
LEMMA UpgradesKeep == ASSUME SwitchesInv, Upgrades PROVE SwitchesInv'
<1> USE SwitchDelaysType DEF SwitchesInv
<1>1. UNCHANGED <<switches, now>>
  BY DEF Upgrades, propose_code_upgrade, cancel_code_upgrade,
     execute_code_upgrade, migrate, migrate_fails
<1>2. RequestsFresh'
  BY <1>1, SwitchesUnchanged
<1>3. ASSUME NEW c \in Code, propose_code_upgrade(c) PROVE SwitchesInv'
  <2> USE <1>3 DEF propose_code_upgrade
  <2>1. SwitchesTypeOK'
    BY <1>1 DEF SwitchesTypeOK, Upgrade, switches
  <2>2. OneUpgradePerProposal'
    BY DEF OneUpgradePerProposal, SwitchesTypeOK
  <2>3. \A d \in Code : first_proposed'[d] <= now'
    BY DEF UpgradesNoticed, SwitchesTypeOK
  <2>4. upgrade' # NoUpgrade =>
          /\ first_proposed'[upgrade'.code] # Never
          /\ upgrade'.executable_at
                >= first_proposed'[upgrade'.code] + code_upgrade_delay
    BY <2>3 DEF SwitchesTypeOK, Never
  <2>5. \A s \in Slot : batches'[s] # NoBatch => Noticed(batches[s])'
    <3>1. ASSUME NEW s \in Slot, batches[s] # NoBatch
          PROVE  /\ batches[s] \in Code
                 /\ first_proposed'[batches[s]] = first_proposed[batches[s]]
      BY <3>1 DEF SwitchesTypeOK, UpgradesNoticed, Noticed
    <3>. QED  BY <3>1 DEF UpgradesNoticed, Noticed
  <2>6. UpgradesNoticed'
    BY <2>3, <2>4, <2>5 DEF UpgradesNoticed
  <2>. QED  BY <1>2, <2>1, <2>2, <2>6
<1>4. ASSUME cancel_code_upgrade PROVE SwitchesInv'
  <2> USE <1>4 DEF cancel_code_upgrade
  <2>1. SwitchesTypeOK'
    BY <1>1 DEF SwitchesTypeOK, switches
  <2>2. OneUpgradePerProposal'
    BY DEF OneUpgradePerProposal, SwitchesTypeOK
  <2>3. UpgradesNoticed'
    BY DEF UpgradesNoticed, Noticed
  <2>. QED  BY <1>2, <2>1, <2>2, <2>3
<1>5. ASSUME NEW s \in Slot, execute_code_upgrade(s) PROVE SwitchesInv'
  <2> USE <1>5 DEF execute_code_upgrade
  <2>1. upgrade \in Upgrade /\ upgrade.code \in Code
    BY DEF SwitchesTypeOK, Upgrade
  <2>2. SwitchesTypeOK'
    BY <1>1, <2>1 DEF SwitchesTypeOK, switches
  <2>3. OneUpgradePerProposal'
    BY DEF OneUpgradePerProposal
  <2>4. Noticed(upgrade.code)
    BY <2>1 DEF UpgradesNoticed, Noticed, upgrade_elapsed, SwitchesTypeOK, Upgrade, Never
  <2>5. UpgradesNoticed'
    BY <2>4 DEF UpgradesNoticed, Noticed, SwitchesTypeOK
  <2>. QED  BY <1>2, <2>2, <2>3, <2>5
<1>6. ASSUME NEW s \in Slot, migrate(s) PROVE SwitchesInv'
  <2> USE <1>6 DEF migrate, upgrade_cleared
  <2>1. upgrade.code \in Code /\ batches[s] \in Code
    BY DEF SwitchesTypeOK, Upgrade
  <2>2. SwitchesTypeOK'
    BY <1>1, <2>1 DEF SwitchesTypeOK, switches
  <2>3. OneUpgradePerProposal'
    BY DEF OneUpgradePerProposal, SwitchesTypeOK
  <2>4. UpgradesNoticed'
    BY DEF UpgradesNoticed, Noticed, SwitchesTypeOK
  <2>. QED  BY <1>2, <2>2, <2>3, <2>4
<1>7. ASSUME NEW s \in Slot, migrate_fails(s) PROVE SwitchesInv'
  <2> USE <1>7 DEF migrate_fails
  <2>1. SwitchesTypeOK'
    BY <1>1 DEF SwitchesTypeOK, switches
  <2>2. OneUpgradePerProposal'
    BY DEF OneUpgradePerProposal
  <2>3. UpgradesNoticed'
    BY DEF UpgradesNoticed, Noticed, SwitchesTypeOK
  <2>. QED  BY <1>2, <2>1, <2>2, <2>3
<1>. QED  BY <1>3, <1>4, <1>5, <1>6, <1>7 DEF Upgrades

\* Every step keeps the invariant.
LEMMA NextSwitches == SwitchesInv /\ [SwitchesNext]_switchesVars => SwitchesInv'
<1> SUFFICES ASSUME SwitchesInv, [SwitchesNext]_switchesVars PROVE SwitchesInv'
  OBVIOUS
<1>1. CASE SwitchesTick
  <2> USE <1>1, SwitchDelaysType DEF SwitchesTick, SwitchesInv, switches, codes
  <2>1. SwitchesTypeOK'
    BY DEF SwitchesTypeOK
  <2>2. RequestsFresh' /\ OneUpgradePerProposal'
    BY DEF RequestsFresh, OneUpgradePerProposal, SwitchesTypeOK
  <2>3. UpgradesNoticed'
    BY DEF UpgradesNoticed, Noticed, SwitchesTypeOK, Never
  <2>. QED  BY <2>1, <2>2, <2>3
<1>2. CASE UNCHANGED switchesVars
  BY <1>2, CodesUnchanged, SwitchesUnchanged
  DEF switchesVars, SwitchesInv, SwitchesTypeOK, switches, codes
<1>. QED  BY <1>1, <1>2, BridgeKeeps, PurchasesKeep, UpgradesKeep DEF SwitchesNext

\* The invariant holds in every reachable state of the switches.
THEOREM SwitchesInvariant == SwitchesSpec => []SwitchesInv
  BY InitSwitches, NextSwitches, PTL DEF SwitchesSpec

\* However many batches are started, migrate applies a proposal at most once.
THEOREM OneUpgradeCorrect == SwitchesSpec => []OneUpgradePerProposal
  BY SwitchesInvariant, PTL DEF SwitchesInv

\* The guardian's freeze and pause hold for a whole delay on any network.
THEOREM ReopenOnNoticeCorrect == SwitchesSpec => ReopenOnNotice
<1>1. ASSUME SwitchesInv, SwitchesNext
      PROVE  /\ bridge_frozen /\ ~bridge_frozen'
                  => now >= shut.bridge + reopen_delay
             /\ paused /\ ~paused' => now >= shut.purchases + reopen_delay
  <2>1. CASE Bridge
    BY <1>1, <2>1, SwitchDelaysType
    DEF Bridge, freeze_bridge, request_bridge_unfreeze, cancel_bridge_unfreeze,
        unfreeze_bridge, assert_reopen_elapsed, SwitchesInv, RequestsFresh,
        SwitchesTypeOK, Never
  <2>2. CASE Purchases
    BY <1>1, <2>2, SwitchDelaysType
    DEF Purchases, pause_new_purchases, request_new_purchases_unpause,
        cancel_new_purchases_unpause, unpause_new_purchases,
        assert_reopen_elapsed, SwitchesInv, RequestsFresh, SwitchesTypeOK, Never
  <2>3. CASE Upgrades \/ SwitchesTick
    BY <2>3 DEF Upgrades, propose_code_upgrade, cancel_code_upgrade,
       execute_code_upgrade, migrate, migrate_fails, SwitchesTick, switches
  <2>. QED  BY <1>1, <2>1, <2>2, <2>3 DEF SwitchesNext
<1>. QED
  BY <1>1, SwitchesInvariant, PTL DEF SwitchesSpec, ReopenOnNotice

\* No code is deployed that was not first proposed a whole delay earlier.
THEOREM CodeOnNoticeCorrect == SwitchesSpec => CodeOnNotice
<1>1. ASSUME SwitchesInv, SwitchesNext, code' # code PROVE Noticed(code')
  <2>1. PICK s \in Slot : migrate(s)
    BY <1>1 DEF SwitchesNext, Bridge, freeze_bridge, request_bridge_unfreeze,
       cancel_bridge_unfreeze, unfreeze_bridge, Purchases, pause_new_purchases,
       request_new_purchases_unpause, cancel_new_purchases_unpause,
       unpause_new_purchases, Upgrades, propose_code_upgrade,
       cancel_code_upgrade, execute_code_upgrade, migrate_fails, SwitchesTick, codes
  <2>. QED  BY <1>1, <2>1 DEF migrate, SwitchesInv, UpgradesNoticed
<1>. QED
  BY <1>1, SwitchesInvariant, PTL DEF SwitchesSpec, CodeOnNotice
=============================================================================
