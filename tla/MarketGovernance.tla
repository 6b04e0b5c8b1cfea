-------------------------- MODULE MarketGovernance --------------------------
(***************************************************************************)
(* What the governance calls of the V2 market contract share: the network  *)
(* that decides whether they are delayed, and the block time.              *)
(***************************************************************************)
EXTENDS Integers

CONSTANTS
    Network,      \* network_id: "testnet" or "mainnet"
    MaxNow        \* bound: block time

ASSUME NetworkAssumption ==
    Network \in {"testnet", "mainnet"} /\ MaxNow \in Nat

VARIABLE now      \* env::block_timestamp_ms

governance_delay_ms(delay) == IF Network = "testnet" THEN 0 ELSE delay
=============================================================================
