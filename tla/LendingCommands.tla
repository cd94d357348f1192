--------------------------- MODULE LendingCommands ---------------------------
(***************************************************************************)
(* The commands of `tusdt lending`, from commands/lending.py.              *)
(***************************************************************************)
EXTENDS CommandSteps

\* One amount, one submission.
Amounts(pairs) == Alike("lending", <<Convert>>, Send, pairs)

\* A payment in native TAO goes along as the value.
Payments(pairs) == Alike("lending", <<Amount>>, Pay, pairs)

MarketCommands ==
  Payments({<<"supply-tao", "lending_supply_tao">>,
            <<"repay-tao", "lending_repay_tao">>})
  @@ Amounts({<<"supply-tusdt", "lending_supply_tusdt">>,
              <<"withdraw-tao", "lending_withdraw_tao">>,
              <<"withdraw-tusdt", "lending_withdraw_tusdt">>,
              <<"borrow-tao", "lending_borrow_tao">>,
              <<"borrow-tusdt", "lending_borrow_tusdt">>})

\* repay-tusdt looks at the allowance only when it knows the pool and the
\* signer; a low one is a ClickException, which is reported with exit code 1.
CollateralCommands ==
  Command("lending", "repay-tusdt",
          <<Convert, Option(<<Check({"traceback"}), Read("allowance"), Check({"error"})>>),
            Send("lending_repay_tusdt")>>)
  @@ Amounts({<<"deposit-alpha", "lending_deposit_alpha">>,
              <<"withdraw-alpha", "lending_withdraw_alpha">>})

\* Both debts and the price in one run_read; the TAO debt is attached.
LiquidateCommand ==
  Command("lending", "liquidate",
          <<ReadKept("lending_get_user_debt"), Read("lending_get_user_debt"),
            Read("get_latest_price"), Show, Pay("lending_liquidate")>>)

ClaimCommands ==
  Sends("lending", {<<"claim-alpha-excess", "lending_claim_alpha_excess">>,
                    <<"claim-reserve", "lending_claim_reserve">>,
                    <<"set-approved-netuid", "lending_set_approved_netuid">>})
  @@ Command("lending", "set-alpha-params",
             <<Option(<<Convert>>), Send("lending_set_alpha_params")>>)

UpdateCommands ==
  Sends("lending",
        {<<"execute-alpha-params-update", "lending_execute_alpha_params_update">>,
         <<"cancel-alpha-params-update", "lending_cancel_alpha_params_update">>,
         <<"set-market-params", "lending_set_market_params">>,
         <<"execute-market-params-update", "lending_execute_market_params_update">>,
         <<"cancel-market-params-update", "lending_cancel_market_params_update">>})

GlobalUpdateCommands ==
  Command("lending", "set-global-params",
          <<Option(<<Convert>>), Send("lending_set_global_params")>>)
  @@ Sends("lending",
           {<<"execute-global-params-update", "lending_execute_global_params_update">>,
            <<"cancel-global-params-update", "lending_cancel_global_params_update">>,
            <<"update-governance", "lending_update_governance">>,
            <<"update-treasury", "lending_update_treasury">>,
            <<"update-platform", "lending_update_platform">>,
            <<"update-oracle-address", "lending_update_oracle_address">>})

RoleUpdateCommands ==
  Amounts({<<"claim-surplus-tusdt", "lending_claim_surplus_tusdt">>})
  @@ Sends("lending",
           {<<"update-ltoken-address", "lending_update_ltoken_address">>,
            <<"update-pool-hotkey", "lending_update_pool_hotkey">>,
            <<"pause", "lending_pause">>,
            <<"unpause", "lending_unpause">>,
            <<"transfer-native-to-treasury", "lending_transfer_native_to_treasury">>,
            <<"accrue-market-interest", "lending_accrue_market_interest">>})

\* The reads of _project_exchange_rate after the market's state; without one
\* of its values there is no projection.
RateProjection ==
  <<ReadOr("lending_get_market_params", <<>>),
    Read("lending_get_last_interest_accrual_times"),
    Read("lending_get_chain_timestamp")>>

\* The reads of _project_user_debt.
DebtProjection ==
  <<Read("lending_get_position"), Read("lending_get_borrow_index"),
    Read("lending_get_market_state"), Read("lending_get_market_params"),
    Option(<<Read("lending_get_last_interest_accrual_times"),
             Option(<<Read("lending_get_chain_timestamp")>>)>>)>>

MarketStateCommand ==
  Command("lending", "market-state",
          <<Read("lending_get_market_state"), Option(RateProjection)>>)

MarketViews ==
  Command("lending", "exchange-rate",
          <<ReadOr("lending_get_exchange_rate", <<>>),
            Option(<<Read("lending_get_market_state"), Option(RateProjection)>>)>>)
  @@ Shows("lending", {<<"position", "lending_get_position">>,
                       <<"borrow-index", "lending_get_borrow_index">>,
                       <<"utilization", "lending_get_utilization">>,
                       <<"borrow-rate", "lending_get_borrow_rate">>,
                       <<"supply-rate", "lending_get_supply_rate">>,
                       <<"underlying-balance", "lending_get_underlying_balance">>,
                       <<"user-debt", "lending_get_user_debt">>})

DebtDetailsCommand ==
  Command("lending", "user-debt-details",
          <<ReadOr("lending_get_user_debt_details", <<Read("lending_get_user_debt")>>),
            Option(DebtProjection)>>)

\* The except branch of positions is no step: run_read ends the process.
PositionViews ==
  Shows("lending", {<<"last-interest-accrual", "lending_get_last_interest_accrual_times">>,
                    <<"alpha-markets", "lending_get_alpha_markets">>,
                    <<"alpha-position", "lending_get_user_alpha_position">>,
                    <<"netuid-total-collateral", "lending_get_netuid_total_collateral">>,
                    <<"is-approved-netuid", "lending_is_approved_netuid">>,
                    <<"active-netuids-count", "lending_get_active_netuids_count">>,
                    <<"positions", "lending_get_user_positions">>,
                    <<"market-position", "lending_get_user_market_position">>})

PendingViews ==
  Shows("lending",
        {<<"alpha-market-ids", "lending_get_alpha_market_ids">>,
         <<"all-positions", "lending_get_all_positions">>,
         <<"pending-alpha-params-update", "lending_get_pending_alpha_params_update">>,
         <<"pending-market-params-update", "lending_get_pending_market_params_update">>,
         <<"pending-global-params-update", "lending_get_pending_global_params_update">>,
         <<"governance", "lending_get_governance">>,
         <<"treasury", "lending_get_treasury">>,
         <<"platform", "lending_get_platform">>,
         <<"paused", "lending_is_paused">>,
         <<"oracle-address", "lending_get_oracle_address">>,
         <<"tusdt-address", "lending_get_tusdt_address">>})

ParameterViews ==
  Shows("lending", {<<"ltoken-address", "lending_get_ltoken_address">>,
                    <<"pool-hotkey", "lending_get_pool_hotkey">>,
                    <<"get-global-params", "lending_get_global_params">>,
                    <<"get-maintainer", "lending_get_maintainer">>,
                    <<"tao-staked", "lending_get_tao_staked">>})
  @@ Command("lending", "get-market-params", <<ReadOr("lending_get_market_params", Notice)>>)
  @@ Command("lending", "get-alpha-params", <<ReadOr("lending_get_alpha_params", Notice)>>)
  @@ Sends("lending", {<<"update-maintainer", "lending_update_maintainer">>})

StakeCommands ==
  Shows("lending", {<<"root-stake-config", "lending_get_root_stake_config">>})
  @@ Command("lending", "root-stake-config set",
             <<Convert, Send("lending_set_root_stake_config")>>)
  @@ Sends("lending", {<<"sweep", "lending_sweep">>})

LendingGroup ==
  MarketCommands @@ CollateralCommands @@ LiquidateCommand @@ ClaimCommands
    @@ UpdateCommands @@ GlobalUpdateCommands @@ RoleUpdateCommands
    @@ MarketStateCommand @@ MarketViews @@ DebtDetailsCommand
    @@ PositionViews @@ PendingViews @@ ParameterViews @@ StakeCommands
=============================================================================
