---------------------------- MODULE MarketRoles ----------------------------
(***************************************************************************)
(* Who may act on the V2 market contract (contracts/market-v2/src/lib.rs): *)
(* the five rotatable roles, the active bridge, and their time-locked      *)
(* rotations.  Every call is atomic; what races is the calls themselves,   *)
(* since every role and the bridge may have a rotation pending at once and *)
(* the checks of one rotation must hold when another has happened between  *)
(* its proposal and its execution.                                         *)
(*                                                                         *)
(* A call that panics or returns early changes nothing: it is a stutter    *)
(* and has no action.                                                      *)
(***************************************************************************)
EXTENDS MarketGovernance, FiniteSets

CONSTANTS
    Account,
    MAINNET_ROLE_ROTATION_DELAY, MAINNET_BRIDGE_ROTATION_DELAY,
    MaxPending               \* bound: role rotations pending at once

ASSUME RoleDelayAssumption ==
    /\ MAINNET_ROLE_ROTATION_DELAY \in Nat
    /\ MAINNET_BRIDGE_ROTATION_DELAY \in Nat
    /\ MaxPending \in Nat

VARIABLES
    holder,            \* role_account_id: the account of each GovernanceRole
    active_bridge,     \* active_bridge_account_id
    tax_account,       \* tax_account_id, fixed at initialisation
    pending,           \* the PendingRoleRotation of each role, if any
    pending_bridge,    \* pending_bridge_account_id and its proposal time
    veto               \* history: one cancellation, any one of those made

rolesVars == <<holder, active_bridge, tax_account, pending, pending_bridge, now,
          veto>>
-----------------------------------------------------------------------------
(* Data. *)

Role == {"admin", "guardian", "platform", "takedown", "operator"}
Topic == Role \cup {"bridge"}

PendingRole == [current : Account, next : Account, executable_at : Nat]
PendingBridge == [next : Account, proposed_at : Nat]
NoRotation == [next |-> "none"]
NoVeto == [topic |-> "none", at |-> 0]

role_rotation_delay_ms == governance_delay_ms(MAINNET_ROLE_ROTATION_DELAY)
bridge_rotation_delay_ms == governance_delay_ms(MAINNET_BRIDGE_ROTATION_DELAY)

bridge_rotation_executable_at_ms(proposed_at) ==
    proposed_at + bridge_rotation_delay_ms

\* The operator shares its account with nobody.
OperatorSeparate(h, bridge, tax) ==
    /\ h["operator"] \notin {bridge, tax}
    /\ \A r \in Role \ {"operator"} : h["operator"] # h[r]

\* The bridge shares its account with no role; platform and takedown, and
\* admin and guardian, are two accounts.
AuthoritiesSeparate(h, bridge) ==
    /\ \A r \in {"platform", "admin", "guardian", "takedown"} : h[r] # bridge
    /\ h["admin"] # h["guardian"]
    /\ h["takedown"] # h["platform"]

\* Mutant: a role may take the account of the pending bridge.
pending_bridge_ignored(next) == TRUE
pending_bridge_differs(next) ==
    pending_bridge # NoRotation => pending_bridge.next # next

\* assert_valid_role_assignment: the roles as they would be after the rotation.
assert_valid_role_assignment(role, next) ==
    LET h == [holder EXCEPT ![role] = next] IN
    /\ next # holder[role]
    /\ OperatorSeparate(h, active_bridge, tax_account)
    /\ AuthoritiesSeparate(h, active_bridge)
    /\ pending_bridge_differs(next)

\* assert_valid_bridge_account
assert_valid_bridge_account(next) ==
    /\ next # active_bridge
    /\ \A r \in Role : next # holder[r]

Admin(caller) == caller = holder["admin"]
AdminOrGuardian(caller) == caller \in {holder["admin"], holder["guardian"]}

\* History: this cancellation, or an earlier one, is the one remembered.
Veto(x) == veto' \in {veto, [topic |-> x, at |-> now]}
-----------------------------------------------------------------------------
\* new: any configuration its require!s accept, the tax account included.
RolesInit ==
    /\ holder \in [Role -> Account]
    /\ active_bridge \in Account
    /\ tax_account \in Account \ {holder["platform"], active_bridge}
    /\ OperatorSeparate(holder, active_bridge, tax_account)
    /\ AuthoritiesSeparate(holder, active_bridge)
    /\ pending = [r \in Role |-> NoRotation]
    /\ pending_bridge = NoRotation
    /\ now = 0
    /\ veto = NoVeto
-----------------------------------------------------------------------------
\* A second proposal of the same account returns the first and keeps its clock.
propose_role_rotation(caller, role, next) ==
    /\ Admin(caller)
    /\ pending[role] = NoRotation
    /\ assert_valid_role_assignment(role, next)
    /\ Cardinality({r \in Role : pending[r] # NoRotation}) < MaxPending
    /\ pending' = [pending EXCEPT ![role] =
          [current |-> holder[role], next |-> next,
           executable_at |-> now + role_rotation_delay_ms]]
    /\ UNCHANGED <<holder, active_bridge, tax_account, pending_bridge, now,
                   veto>>


role_rotation_removed(role) == [pending EXCEPT ![role] = NoRotation]

cancel_role_rotation(caller, role) ==
    /\ AdminOrGuardian(caller)
    /\ pending[role] # NoRotation
    /\ pending' = role_rotation_removed(role)
    /\ Veto(role)
    /\ UNCHANGED <<holder, active_bridge, tax_account, pending_bridge, now>>

\* Other roles may have rotated meanwhile: separation is checked again.
execute_role_rotation(caller, role) ==
    /\ Admin(caller)
    /\ pending[role] # NoRotation
    /\ now >= pending[role].executable_at
    /\ holder[role] = pending[role].current
    /\ assert_valid_role_assignment(role, pending[role].next)
    /\ pending' = role_rotation_removed(role)
    /\ holder' = [holder EXCEPT ![role] = pending[role].next]
    /\ UNCHANGED <<active_bridge, tax_account, pending_bridge, now, veto>>

propose_bridge(caller, next) ==
    /\ Admin(caller)
    /\ assert_valid_bridge_account(next)
    /\ pending_bridge = NoRotation
    /\ pending_bridge' = [next |-> next, proposed_at |-> now]
    /\ UNCHANGED <<holder, active_bridge, tax_account, pending, now, veto>>

cancel_bridge_rotation(caller) ==
    /\ AdminOrGuardian(caller)
    /\ pending_bridge # NoRotation
    /\ pending_bridge' = NoRotation
    /\ Veto("bridge")
    /\ UNCHANGED <<holder, active_bridge, tax_account, pending, now>>

\* Mutant: the clock is not looked at.
bridge_rotation_any_time == TRUE
bridge_rotation_elapsed ==
    now >= bridge_rotation_executable_at_ms(pending_bridge.proposed_at)

\* Nothing is checked again here: the roles that rotated meanwhile have been
\* kept away from the pending bridge.
execute_bridge_rotation(caller) ==
    /\ Admin(caller)
    /\ pending_bridge # NoRotation
    /\ bridge_rotation_elapsed
    /\ active_bridge' = pending_bridge.next
    /\ pending_bridge' = NoRotation
    /\ UNCHANGED <<holder, tax_account, pending, now, veto>>

RolesTick ==
    /\ now < MaxNow
    /\ now' = now + 1
    /\ UNCHANGED <<holder, active_bridge, tax_account, pending, pending_bridge,
                   veto>>
-----------------------------------------------------------------------------
RoleCalls(caller) ==
    \E role \in Role :
        \/ \E next \in Account : propose_role_rotation(caller, role, next)
        \/ cancel_role_rotation(caller, role)
        \/ execute_role_rotation(caller, role)

BridgeCalls(caller) ==
    \/ \E next \in Account : propose_bridge(caller, next)
    \/ cancel_bridge_rotation(caller)
    \/ execute_bridge_rotation(caller)

RolesNext ==
    \/ \E caller \in Account : RoleCalls(caller) \/ BridgeCalls(caller)
    \/ RolesTick

RolesSpec == RolesInit /\ [][RolesNext]_rolesVars
-----------------------------------------------------------------------------
(* Properties. *)

\* Every variable has the type of the field it models.
RolesTypeOK ==
    /\ holder \in [Role -> Account]
    /\ active_bridge \in Account
    /\ tax_account \in Account
    /\ pending \in [Role -> PendingRole \cup {NoRotation}]
    /\ pending_bridge \in PendingBridge \cup {NoRotation}
    /\ now \in Nat
    /\ veto \in [topic : Topic \cup {"none"}, at : Nat]

\* The authorities that must be separate accounts stay separate whatever the
\* order in which rotations are proposed, cancelled and executed, although
\* execute_bridge_rotation checks nothing and a role and the bridge may be
\* proposed for the same account at once.
RolesSeparate ==
    /\ OperatorSeparate(holder, active_bridge, tax_account)
    /\ AuthoritiesSeparate(holder, active_bridge)

\* A pending rotation always starts from the account that holds the role, so
\* execute_role_rotation never meets "Role changed since rotation was proposed".
RotationsCurrent ==
    \A r \in Role : pending[r] # NoRotation => pending[r].current = holder[r]

Waited(x, delay) == veto.topic = x => now >= veto.at + delay

\* A cancellation costs the whole delay: after the admin or the guardian cancels
\* a rotation, that role (or the bridge) does not change before a new timelock
\* has run from the cancellation.
VetoHolds ==
    [][/\ \A r \in Role :
            holder'[r] # holder[r] => Waited(r, role_rotation_delay_ms)
       /\ active_bridge' # active_bridge
            => Waited("bridge", bridge_rotation_delay_ms)]_rolesVars
-----------------------------------------------------------------------------
(* What makes those properties inductive. *)

\* The bridge that is about to be installed is nobody's account.
PendingBridgeSeparate ==
    pending_bridge # NoRotation =>
        \A r \in Role : pending_bridge.next # holder[r]

\* No pending rotation is older than the last cancellation of it, and none may
\* execute before its delay.
ClocksRestart ==
    /\ veto.at <= now
    /\ \A r \in Role : pending[r] # NoRotation /\ veto.topic = r =>
          pending[r].executable_at >= veto.at + role_rotation_delay_ms
    /\ pending_bridge # NoRotation /\ veto.topic = "bridge" =>
          pending_bridge.proposed_at >= veto.at

RolesInv ==
    /\ RolesTypeOK /\ RolesSeparate /\ RotationsCurrent
    /\ PendingBridgeSeparate /\ ClocksRestart
=============================================================================
