---------------------------- MODULE ClientMethods ----------------------------
(***************************************************************************)
(* The methods of TUSDTClient, from client.py: which message of which      *)
(* contract each of them calls, and what it makes of the answer.           *)
(*   plain   unwrap_plain      option  unwrap_option                       *)
(*   result  unwrap_result     clock   the chain's own clock, None if the  *)
(*   exec    _exec                     read fails                          *)
(*   pay     _exec with value  merge   a read, then _exec                  *)
(* Arguments are left out.                                                 *)
(***************************************************************************)

EXTENDS TLC

\* The methods `own` have the name of their message, `renamed` are pairs of a
\* method and its message.
Wrap(contract, via, own, renamed) ==
  [m \in own |-> [contract |-> contract, message |-> m, via |-> via]]
  @@ [m \in {p[1] : p \in renamed} |->
        [contract |-> contract, via |-> via,
         message |-> (CHOOSE p \in renamed : p[1] = m)[2]]]

\* Vaults, debts, collateral, liquidations.
VaultPositions ==
  Wrap("vault", "plain",
        {"get_vaults_count", "get_total_debt",
         "get_total_collateral_balance", "get_total_vaults_count",
         "get_contract_params"},
        {})
  @@ Wrap("vault", "option",
        {"get_vault", "get_liquidation_auction_id"},
        {})
  @@ Wrap("vault", "result",
        {"get_max_borrow", "get_all_vaults"},
        {<<"list_vaults", "get_vaults">>,
         <<"get_collateral_value", "get_vault_collateral_value">>})
  @@ Wrap("vault", "exec",
        {"add_alpha_collateral", "release_alpha_collateral"},
        {<<"borrow", "borrow_token">>, <<"repay", "repay_token">>,
         <<"trigger_liquidation", "trigger_liquidation_auction">>,
         <<"settle_liquidation", "settle_liquidation_auction">>})
  @@ Wrap("vault", "pay", {"create_alpha_vault"}, {})

\* The contracts the vault works with, its roles and its pause.
VaultReferences ==
  Wrap("vault", "plain",
        {"get_token_address", "get_auction_address", "get_oracle_address",
         "get_vault_hotkey", "get_active_liquidation_count"},
        {<<"get_governance", "governance">>, <<"get_platform", "platform">>,
         <<"is_paused", "paused">>})
  @@ Wrap("vault", "option",
        {"get_vault_collateral_balance",
         "get_pending_contract_params_update"},
        {})
  @@ Wrap("vault", "exec", {"update_governance"}, {})

\* Roles, pause, parameters of a netuid and of the vault, the hotkey.
VaultParameters ==
  Wrap("vault", "plain",
        {"is_approved_netuid", "get_global_params"},
        {})
  @@ Wrap("vault", "exec",
        {"update_platform", "execute_contract_params_update",
         "cancel_contract_params_update", "set_approved_netuid",
         "claim_excess_alpha", "set_vault_hotkey",
         "transfer_native_to_treasury", "set_global_params",
         "execute_global_params_update", "cancel_global_params_update",
         "claim_surplus_tusdt"},
        {<<"pause_contract", "pause">>, <<"unpause_contract", "unpause">>})
  @@ Wrap("vault", "merge", {"set_contract_params"}, {})

\* Treasury, the drain, addresses.
VaultWiring ==
  Wrap("vault", "plain", {}, {<<"vault_get_treasury", "treasury">>})
  @@ Wrap("vault", "exec",
        {},
        {<<"vault_update_treasury", "update_treasury">>,
         <<"vault_emergency_drain", "emergency_drain">>,
         <<"vault_set_token_controller", "set_token_controller">>,
         <<"vault_update_auction_address", "update_auction_address">>,
         <<"vault_update_oracle_address", "update_oracle_address">>,
         <<"vault_update_token_address", "update_token_address">>})

\* The council, epochs, proposals, votes.
GovernanceViews ==
  Wrap("governance", "plain",
        {"is_council", "has_voted"},
        {<<"get_maintainer", "maintainer">>, <<"get_council", "council">>,
         <<"get_governance_treasury", "treasury">>,
         <<"get_governance_params", "params">>,
         <<"get_current_epoch", "current_epoch">>,
         <<"get_quorum", "quorum">>,
         <<"get_proposal_count", "proposal_count">>})
  @@ Wrap("governance", "option", {"get_snapshot", "get_proposal"}, {})

\* What governance changes in the vault and in the election.
GovernanceOfVault ==
  Wrap("governance", "plain",
        {},
        {<<"gov_get_vault_hotkey", "vault_get_hotkey">>})
  @@ Wrap("governance", "exec",
        {"set_council", "elect_maintainer", "election_set_netuid"},
        {<<"gov_vault_cancel_update", "vault_cancel_contract_params_update">>,
         <<"gov_vault_claim_excess_alpha", "vault_claim_excess_alpha">>,
         <<"gov_set_vault_hotkey", "vault_set_hotkey">>,
         <<"gov_transfer_native_to_treasury", "vault_transfer_native_to_treasury">>,
         <<"gov_vault_set_approved_netuid", "vault_set_approved_netuid">>,
         <<"gov_vault_set_global_params", "vault_set_global_params">>,
         <<"gov_vault_cancel_global_params_update", "vault_cancel_global_params_update">>,
         <<"gov_vault_update_treasury", "vault_update_treasury">>,
         <<"gov_vault_update_platform", "vault_update_platform">>,
         <<"gov_vault_set_token_controller", "vault_set_token_controller">>,
         <<"gov_vault_update_auction_address", "vault_update_auction_address">>,
         <<"gov_vault_update_oracle_address", "vault_update_oracle_address">>})
  @@ Wrap("governance", "merge",
        {},
        {<<"gov_vault_set_contract_params", "vault_set_contract_params">>})

\* The contracts governance works with, the oracle, the auction, its own parameters.
GovernanceOfOthers ==
  Wrap("governance", "plain",
        {},
        {<<"get_vault_address", "vault_address">>,
         <<"get_governance_auction_address", "auction_address">>,
         <<"get_governance_oracle_address", "oracle_address">>,
         <<"gov_get_pool_address", "pool_address">>})
  @@ Wrap("governance", "exec",
        {},
        {<<"gov_update_vault_address", "update_vault_address">>,
         <<"gov_update_auction_address", "update_auction_address">>,
         <<"gov_update_oracle_address", "update_oracle_address">>,
         <<"gov_update_pool_address", "update_pool_address">>,
         <<"gov_update_treasury_address", "update_treasury_address">>,
         <<"gov_vault_unpause", "vault_unpause">>,
         <<"gov_vault_pause", "vault_pause">>,
         <<"gov_oracle_set_validator", "oracle_set_validator">>,
         <<"gov_oracle_set_max_price_deviation", "oracle_set_max_price_deviation">>,
         <<"gov_oracle_commit_round", "oracle_commit_round">>,
         <<"gov_oracle_set_netuid", "oracle_set_netuid">>,
         <<"gov_oracle_set_min_submitter_stake", "oracle_set_min_submitter_stake">>,
         <<"gov_auction_set_admin", "auction_set_admin">>,
         <<"update_governance_params", "update_params">>})

\* Proposals and their snapshots.
GovernanceProposals ==
  Wrap("governance", "plain",
        {},
        {<<"get_netuid", "netuid">>, <<"get_election_address", "election">>})
  @@ Wrap("governance", "option",
        {},
        {<<"get_election_snapshot", "election_snapshot">>})
  @@ Wrap("governance", "exec",
        {"submit_proposal", "vote", "submit_snapshot"},
        {<<"finalize_proposal", "finalize">>,
         <<"execute_proposal", "execute">>})

\* The TUSDT token, an ERC-20 with minters.
TokenCalls ==
  Wrap("token", "plain",
        {"balance_of", "total_supply", "allowance", "is_minter"},
        {<<"token_controller", "controller">>})
  @@ Wrap("token", "exec",
        {"approve", "transfer", "set_controller", "add_minter",
         "remove_minter"},
        {<<"token_mint", "mint">>, <<"token_burn", "burn">>,
         <<"token_increase_allowance", "increase_allowance">>,
         <<"token_decrease_allowance", "decrease_allowance">>,
         <<"token_transfer_from", "transfer_from">>})

\* Auctions and bids.
AuctionCalls ==
  Wrap("auction", "plain",
        {"get_active_auctions_count", "get_total_auctions_count"},
        {<<"get_auction_controller", "controller">>,
         <<"get_auction_governance", "governance">>})
  @@ Wrap("auction", "option",
        {"get_auction", "get_active_vault_auction", "get_bid"},
        {<<"get_my_bid", "get_auction_bid">>,
         <<"get_auction_admin", "admin">>})
  @@ Wrap("auction", "result",
        {},
        {<<"list_active_auctions", "get_active_auctions">>,
         <<"list_all_auctions", "get_all_auctions">>,
         <<"list_bids", "get_bids">>})
  @@ Wrap("auction", "exec",
        {"place_bid", "finalize_auction", "withdraw_refund",
         "create_auction"},
        {<<"auction_set_controller", "set_controller">>})

\* The auction's admin and governance, the collateral of a winning bid.
AuctionRoles ==
  Wrap("auction", "exec",
        {},
        {<<"auction_set_admin", "set_admin">>,
         <<"auction_update_governance", "update_governance">>,
         <<"auction_transfer_winning_bid", "transfer_winning_bid">>})

\* Rounds, prices, submissions, roles.
OracleCalls ==
  Wrap("oracle", "plain",
        {"get_price_history", "get_price_history_count",
         "get_round_submissions", "get_current_round_summary"},
        {<<"get_current_round", "current_round_id">>,
         <<"get_oracle_controller", "controller">>,
         <<"get_oracle_governance", "governance">>,
         <<"get_max_price_deviation", "max_price_deviation">>,
         <<"get_max_round_submissions", "max_round_submissions">>,
         <<"oracle_get_netuid", "get_netuid">>,
         <<"oracle_get_min_submitter_stake", "min_submitter_stake">>})
  @@ Wrap("oracle", "option",
        {"get_latest_price", "get_round_price"},
        {<<"get_oracle_validator", "validator">>})
  @@ Wrap("oracle", "exec",
        {"submit_price", "commit_round", "commit_round_governance",
         "set_validator", "set_max_price_deviation"},
        {<<"oracle_set_netuid", "set_netuid">>,
         <<"oracle_set_min_submitter_stake", "set_min_submitter_stake">>,
         <<"oracle_update_governance", "update_governance">>,
         <<"oracle_set_controller", "set_controller">>})

\* Funds.
TreasuryCalls ==
  Wrap("treasury", "plain",
        {},
        {<<"treasury_get_governance", "governance">>,
         <<"treasury_get_token", "token">>,
         <<"treasury_fund_balance_tusdt", "fund_balance_tusdt">>,
         <<"treasury_fund_balance_native", "fund_balance_native">>,
         <<"treasury_pending_tusdt", "pending_tusdt">>,
         <<"treasury_pending_native", "pending_native">>})
  @@ Wrap("treasury", "exec",
        {},
        {<<"treasury_set_governance", "set_governance">>,
         <<"treasury_distribute", "distribute">>,
         <<"treasury_release", "release">>})

\* The election's state, candidates, approvals.
ElectionCalls ==
  Wrap("election", "plain",
        {"is_in_transition"},
        {<<"get_election_governance", "governance">>,
         <<"get_min_candidate_stake", "min_candidate_stake">>,
         <<"get_incumbent", "incumbent">>,
         <<"get_active_netuid", "active_netuid">>, <<"get_phase", "phase">>,
         <<"get_cycle_id", "cycle_id">>,
         <<"get_next_election_ts", "next_election_ts">>,
         <<"get_terms_served", "terms_served">>,
         <<"get_candidate_list", "candidate_list">>,
         <<"get_approval_weight", "approval_weight">>,
         <<"get_total_participating_power", "total_participating_power">>,
         <<"get_total_voted_balance", "total_voted_balance">>,
         <<"get_quorum_election", "quorum">>,
         <<"get_voting_window", "voting_window">>})
  @@ Wrap("election", "option",
        {"get_candidate"},
        {<<"get_leading_candidate", "leading_candidate">>,
         <<"get_maintainer_elect", "maintainer_elect">>,
         <<"get_transition", "transition">>})
  @@ Wrap("election", "exec",
        {"schedule_election", "register_candidate", "cast_approval"},
        {<<"finalize_election", "finalize">>})

\* The end of a cycle.
ElectionSteps ==
  Wrap("election", "exec",
        {"end_transition", "trigger_emergency_election", "cancel_cycle"},
        {<<"activate_election", "activate">>})

\* Supply, borrow, repay, alpha collateral, liquidation.
LendingMarkets ==
  Wrap("lending", "exec",
        {},
        {<<"lending_supply_tusdt", "supply_tusdt">>,
         <<"lending_withdraw_tao", "withdraw_tao">>,
         <<"lending_withdraw_tusdt", "withdraw_tusdt">>,
         <<"lending_borrow_tao", "borrow_tao">>,
         <<"lending_borrow_tusdt", "borrow_tusdt">>,
         <<"lending_repay_tusdt", "repay_tusdt">>,
         <<"lending_accrue_market_interest", "accrue_market_interest">>,
         <<"lending_deposit_alpha", "deposit_alpha">>,
         <<"lending_withdraw_alpha", "withdraw_alpha">>})
  @@ Wrap("lending", "pay",
        {},
        {<<"lending_supply_tao", "supply_tao">>,
         <<"lending_repay_tao", "repay_tao">>,
         <<"lending_liquidate", "liquidate">>})

\* Claims, parameters of netuids, of markets and of the pool.
LendingParameters ==
  Wrap("lending", "exec",
        {},
        {<<"lending_claim_alpha_excess", "claim_alpha_excess">>,
         <<"lending_claim_reserve", "claim_reserve">>,
         <<"lending_set_approved_netuid", "set_approved_netuid">>,
         <<"lending_set_alpha_params", "set_alpha_params">>,
         <<"lending_execute_alpha_params_update", "execute_alpha_params_update">>,
         <<"lending_cancel_alpha_params_update", "cancel_alpha_params_update">>,
         <<"lending_set_market_params", "set_market_params">>,
         <<"lending_execute_market_params_update", "execute_market_params_update">>,
         <<"lending_cancel_market_params_update", "cancel_market_params_update">>,
         <<"lending_set_global_params", "set_global_params">>,
         <<"lending_execute_global_params_update", "execute_global_params_update">>,
         <<"lending_cancel_global_params_update", "cancel_global_params_update">>})

\* Roles, addresses, pause, staking.
LendingRoles ==
  Wrap("lending", "exec",
        {},
        {<<"lending_update_governance", "update_governance">>,
         <<"lending_update_treasury", "update_treasury">>,
         <<"lending_update_platform", "update_platform">>,
         <<"lending_update_oracle_address", "update_oracle_address">>,
         <<"lending_update_ltoken_address", "update_ltoken_address">>,
         <<"lending_update_pool_hotkey", "update_pool_hotkey">>,
         <<"lending_claim_surplus_tusdt", "claim_surplus_tusdt">>,
         <<"lending_pause", "pause">>, <<"lending_unpause", "unpause">>,
         <<"lending_transfer_native_to_treasury", "transfer_native_to_treasury">>,
         <<"lending_set_root_stake_config", "set_root_stake_config">>,
         <<"lending_sweep", "sweep">>})

\* Markets, positions, debts, the chain's clock.
LendingState ==
  Wrap("lending", "plain",
        {},
        {<<"lending_get_underlying_balance", "get_underlying_balance">>,
         <<"lending_get_user_debt", "get_user_debt">>,
         <<"lending_get_alpha_markets", "get_alpha_markets">>,
         <<"lending_is_approved_netuid", "is_approved_netuid">>,
         <<"lending_get_active_netuids_count", "get_active_netuids_count">>,
         <<"lending_get_positions", "get_positions">>,
         <<"lending_get_all_positions", "get_all_positions">>,
         <<"lending_get_user_positions", "get_user_positions">>,
         <<"lending_get_user_market_position", "get_user_market_position">>})
  @@ Wrap("lending", "option",
        {},
        {<<"lending_get_market_state", "get_market_state">>,
         <<"lending_get_position", "get_position">>,
         <<"lending_get_exchange_rate", "get_exchange_rate">>,
         <<"lending_get_borrow_index", "get_borrow_index">>,
         <<"lending_get_utilization", "get_utilization">>,
         <<"lending_get_borrow_rate", "get_borrow_rate">>,
         <<"lending_get_supply_rate", "get_supply_rate">>,
         <<"lending_get_user_debt_details", "get_user_debt_details">>,
         <<"lending_get_last_interest_accrual_times", "get_last_interest_accrual_times">>,
         <<"lending_get_user_alpha_position", "get_user_alpha_position">>,
         <<"lending_get_netuid_total_collateral", "get_netuid_total_collateral">>})
  @@ Wrap("chain", "clock",
        {},
        {<<"lending_get_chain_timestamp", "Now">>})

\* Lists, pending updates, roles, parameters; the maintainer.
LendingViews ==
  Wrap("lending", "plain",
        {},
        {<<"lending_get_alpha_market_ids", "get_alpha_market_ids">>,
         <<"lending_get_governance", "governance">>,
         <<"lending_get_treasury", "treasury">>,
         <<"lending_get_platform", "platform">>,
         <<"lending_is_paused", "paused">>,
         <<"lending_get_oracle_address", "get_oracle_address">>,
         <<"lending_get_tusdt_address", "get_tusdt_address">>,
         <<"lending_get_pool_hotkey", "get_pool_hotkey">>,
         <<"lending_get_global_params", "get_global_params">>,
         <<"lending_get_maintainer", "maintainer">>})
  @@ Wrap("lending", "option",
        {},
        {<<"lending_get_pending_alpha_params_update", "get_pending_alpha_params_update">>,
         <<"lending_get_pending_market_params_update", "get_pending_market_params_update">>,
         <<"lending_get_pending_global_params_update", "get_pending_global_params_update">>,
         <<"lending_get_ltoken_address", "get_ltoken_address">>,
         <<"lending_get_market_params", "get_market_params">>,
         <<"lending_get_alpha_params", "get_alpha_params">>})
  @@ Wrap("lending", "result",
        {},
        {<<"lending_get_tao_staked", "get_tao_staked">>,
         <<"lending_get_root_stake_config", "get_root_stake_config">>})
  @@ Wrap("lending", "exec",
        {},
        {<<"lending_update_maintainer", "update_maintainer">>})

TUSDTClient ==
  VaultPositions @@ VaultReferences @@ VaultParameters
    @@ VaultWiring @@ GovernanceViews @@ GovernanceOfVault
    @@ GovernanceOfOthers @@ GovernanceProposals @@ TokenCalls
    @@ AuctionCalls @@ AuctionRoles @@ OracleCalls
    @@ TreasuryCalls @@ ElectionCalls @@ ElectionSteps
    @@ LendingMarkets @@ LendingParameters @@ LendingRoles
    @@ LendingState @@ LendingViews
=============================================================================
