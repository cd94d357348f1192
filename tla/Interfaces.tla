----------------------------- MODULE Interfaces -----------------------------
(***************************************************************************)
(* The messages of the eight contracts, from the packaged ABIs under abi/: *)
(* those that read, those that read and answer with a Result, those that   *)
(* change the contract, and among the latter those that take a value.      *)
(***************************************************************************)
EXTENDS TLC

Messages(reads, fallible, writes, payable) ==
  [reads |-> reads, fallible |-> fallible, writes |-> writes, payable |-> payable]

Vault ==
  Messages(
    {"is_approved_netuid", "get_vault", "get_token_address",
     "get_auction_address", "get_oracle_address", "governance",
     "get_vault_hotkey", "get_active_liquidation_count", "treasury",
     "platform", "paused", "get_contract_params", "get_global_params",
     "get_pending_contract_params_update", "get_vault_collateral_balance",
     "get_total_collateral_balance", "get_total_debt",
     "get_liquidation_auction_id", "get_total_vaults_count",
     "get_vaults_count"},
    {"get_vault_collateral_value", "get_max_borrow", "get_vaults",
     "get_all_vaults"},
    {"set_contract_params", "execute_contract_params_update",
     "cancel_contract_params_update", "set_global_params",
     "execute_global_params_update", "cancel_global_params_update",
     "update_governance", "update_treasury", "update_platform",
     "set_token_controller", "update_auction_address",
     "update_oracle_address", "update_token_address", "pause", "unpause",
     "set_approved_netuid", "claim_surplus_tusdt", "claim_excess_alpha",
     "set_vault_hotkey", "transfer_native_to_treasury",
     "add_alpha_collateral", "borrow_token", "repay_token",
     "release_alpha_collateral", "trigger_liquidation_auction",
     "settle_liquidation_auction"},
    {"create_alpha_vault"})

Governance ==
  Messages(
    {"maintainer", "netuid", "election", "council", "is_council",
     "treasury", "vault_address", "auction_address", "oracle_address",
     "pool_address", "vault_get_hotkey", "params", "current_epoch",
     "get_snapshot", "election_snapshot", "quorum", "proposal_count",
     "get_proposal", "has_voted"},
    {},
    {"elect_maintainer", "election_set_netuid", "update_vault_address",
     "update_pool_address", "update_auction_address",
     "update_oracle_address", "update_treasury_address", "set_council",
     "vault_set_contract_params", "vault_cancel_contract_params_update",
     "vault_update_treasury", "vault_update_platform",
     "vault_set_token_controller", "vault_update_auction_address",
     "vault_update_oracle_address", "vault_unpause", "vault_set_hotkey",
     "vault_transfer_native_to_treasury", "vault_claim_excess_alpha",
     "vault_set_approved_netuid", "vault_set_global_params",
     "vault_cancel_global_params_update", "vault_pause",
     "oracle_set_validator", "oracle_set_max_price_deviation",
     "oracle_commit_round", "oracle_set_netuid",
     "oracle_set_min_submitter_stake", "auction_set_admin",
     "pool_set_approved_netuid", "pool_set_alpha_params",
     "pool_cancel_alpha_params_update", "pool_set_market_params",
     "pool_cancel_market_params_update", "pool_set_global_params",
     "pool_cancel_global_params_update", "pool_update_platform",
     "pool_update_treasury", "pool_update_oracle_address",
     "pool_update_ltoken_address", "pool_update_pool_hotkey",
     "pool_claim_surplus_tusdt", "pool_transfer_native_to_treasury",
     "pool_unpause", "pool_update_maintainer", "submit_snapshot",
     "update_params", "submit_proposal", "vote", "finalize", "execute"},
    {})

Token ==
  Messages(
    {"controller", "is_minter", "total_supply", "balance_of", "allowance"},
    {},
    {"set_controller", "add_minter", "remove_minter", "transfer", "mint",
     "burn", "approve", "increase_allowance", "decrease_allowance",
     "transfer_from"},
    {})

Auction ==
  Messages(
    {"get_auction", "get_active_vault_auction", "get_bid",
     "get_auction_bid", "get_total_auctions_count",
     "get_active_auctions_count", "controller", "governance", "admin"},
    {"get_bids", "get_all_auctions", "get_active_auctions"},
    {"create_auction", "set_admin", "update_governance", "set_controller",
     "place_bid", "finalize_auction", "transfer_winning_bid",
     "withdraw_refund"},
    {})

Oracle ==
  Messages(
    {"get_latest_price", "get_round_price", "get_price_history_count",
     "get_price_history", "get_round_submissions",
     "get_current_round_summary", "controller", "governance", "validator",
     "current_round_id", "max_round_submissions", "max_price_deviation",
     "get_netuid", "min_submitter_stake"},
    {},
    {"submit_price", "commit_round", "commit_round_governance",
     "set_netuid", "set_min_submitter_stake", "set_validator",
     "set_max_price_deviation", "update_governance", "set_controller"},
    {})

Treasury ==
  Messages(
    {"governance", "token", "fund_balance_tusdt", "fund_balance_native",
     "pending_tusdt", "pending_native"},
    {},
    {"set_governance", "distribute", "release"},
    {})

Election ==
  Messages(
    {"governance", "min_candidate_stake", "incumbent", "active_netuid",
     "phase", "cycle_id", "next_election_ts", "terms_served",
     "get_candidate", "candidate_list", "approval_weight",
     "total_participating_power", "total_voted_balance", "quorum",
     "leading_candidate", "maintainer_elect", "transition",
     "is_in_transition", "voting_window"},
    {},
    {"schedule_election", "register_candidate", "cast_approval", "finalize",
     "activate", "end_transition", "trigger_emergency_election",
     "cancel_cycle"},
    {})

Lending ==
  Messages(
    {"maintainer", "get_market_state", "get_last_interest_accrual_times",
     "get_position", "get_exchange_rate", "get_borrow_index",
     "get_utilization", "get_market_available_liquidity", "get_tao_staked",
     "get_root_stake_config", "get_borrow_rate", "get_supply_rate",
     "get_underlying_balance", "get_user_debt", "get_user_debt_details",
     "get_alpha_markets", "get_user_alpha_position",
     "get_netuid_total_collateral", "is_approved_netuid",
     "get_active_netuids_count", "get_positions", "get_all_positions",
     "get_user_market_position", "get_user_positions",
     "get_alpha_market_ids", "get_pending_alpha_params_update",
     "get_pending_market_params_update", "get_pending_global_params_update",
     "governance", "treasury", "platform", "paused", "get_oracle_address",
     "get_tusdt_address", "get_ltoken_address", "get_pool_hotkey",
     "get_global_params", "get_market_params", "get_alpha_params"},
    {},
    {"supply_tusdt", "withdraw_tao", "withdraw_tusdt", "borrow_tao",
     "borrow_tusdt", "repay_tusdt", "accrue_market_interest",
     "deposit_alpha", "withdraw_alpha", "claim_alpha_excess",
     "claim_reserve", "set_approved_netuid", "set_alpha_params",
     "execute_alpha_params_update", "cancel_alpha_params_update",
     "set_market_params", "execute_market_params_update",
     "cancel_market_params_update", "set_global_params",
     "execute_global_params_update", "cancel_global_params_update",
     "update_governance", "update_maintainer", "update_treasury",
     "update_platform", "update_oracle_address", "update_ltoken_address",
     "update_pool_hotkey", "pause", "unpause", "claim_surplus_tusdt",
     "transfer_native_to_treasury", "set_root_stake_config", "sweep"},
    {"supply_tao", "repay_tao", "liquidate"})

\* The clock is the Timestamp pallet, not a contract.
Packaged ==
  "vault" :> Vault @@ "governance" :> Governance @@ "token" :> Token
    @@ "auction" :> Auction @@ "oracle" :> Oracle @@ "treasury" :> Treasury
    @@ "election" :> Election @@ "lending" :> Lending
    @@ "chain" :> Messages({"Now"}, {}, {}, {})
=============================================================================
