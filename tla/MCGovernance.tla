---------------------------- MODULE MCGovernance ----------------------------
(* The governance of the market contract: its roles and its switches.  They *)
(* share no state but the block time, so a behaviour moves one of the two,  *)
(* its focus; the other keeps one initial state.  Accounts, deploy batches  *)
(* and codes but the first are interchangeable.                             *)
EXTENDS MarketRoles, MarketSwitches, TLC

VARIABLE focus
governanceVars == <<rolesVars, switchesVars, focus>>

GovernanceInit ==
    /\ focus \in {"roles", "switches"}
    /\ RolesInit /\ SwitchesInit
    /\ focus # "roles" =>
         <<holder, active_bridge, tax_account>> =
           CHOOSE s \in [Role -> Account] \X Account \X Account :
             /\ s[3] \notin {s[1]["platform"], s[2]}
             /\ OperatorSeparate(s[1], s[2], s[3])
             /\ AuthoritiesSeparate(s[1], s[2])

GovernanceNext ==
    /\ UNCHANGED focus
    /\ \/ focus = "roles" /\ RolesNext
          /\ UNCHANGED <<switches, codes>>
       \/ focus = "switches" /\ SwitchesNext
          /\ UNCHANGED <<holder, active_bridge, tax_account, pending,
                         pending_bridge, veto>>

GovernanceSpec == GovernanceInit /\ [][GovernanceNext]_governanceVars

Symmetry == Permutations(Account) \cup Permutations(Slot)
              \cup Permutations(Code \ {FirstCode})
=============================================================================
