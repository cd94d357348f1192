---------------------------- MODULE VaultCommands ----------------------------
(***************************************************************************)
(* The commands of `tusdt vault`, from commands/vault.py.                  *)
(***************************************************************************)
EXTENDS CommandSteps

\* The creation fee is read, shown, asked about and attached.
DepositCommands ==
  Command("vault", "create",
          <<Convert, ReadKept("get_global_params"), Ask, Pay("create_alpha_vault")>>)
  @@ Command("vault", "add-collateral", <<Convert, Send("add_alpha_collateral")>>)
  @@ Command("vault", "borrow", <<Convert, Send("borrow")>>)

DebtCommands ==
  Command("vault", "repay", <<Convert, Send("repay")>>)
  @@ Command("vault", "release-collateral",
             <<Convert, Convert, Send("release_alpha_collateral")>>)
  @@ Command("vault", "info", <<Owner, ReadOr("get_vault", Refuse)>>)

OwnerCommands ==
  Command("vault", "list",
          <<Owner, Read("get_vaults_count"), ReadOr("list_vaults", Notice)>>)
  @@ Command("vault", "max-borrow", <<Owner, Read("get_max_borrow")>>)

ValueCommands ==
  Command("vault", "collateral-value", <<Owner, Read("get_collateral_value")>>)
  @@ Command("vault", "total-debt", <<Owner, Read("get_total_debt")>>)
  @@ Command("vault", "liquidation-auction",
             <<Owner, ReadOr("get_liquidation_auction_id", Notice)>>)

TotalCommands ==
  Command("vault", "list-all",
          <<Read("get_total_vaults_count"), ReadOr("get_all_vaults", Notice)>>)
  @@ Shows("vault", {<<"params", "get_contract_params">>,
                     <<"total-collateral", "get_total_collateral_balance">>,
                     <<"total-count", "get_total_vaults_count">>})

LiquidationCommands ==
  Command("vault", "trigger-liquidation", <<Convert, Send("trigger_liquidation")>>)
  @@ Command("vault", "settle-liquidation", <<Convert, Send("settle_liquidation")>>)
  @@ Shows("vault", {<<"governance", "get_governance">>,
                     <<"hotkey", "get_vault_hotkey">>,
                     <<"active-liquidation-count", "get_active_liquidation_count">>,
                     <<"platform", "get_platform">>,
                     <<"paused", "is_paused">>})

RoleCommands ==
  Command("vault", "pending-update",
          <<ReadOr("get_pending_contract_params_update", Notice)>>)
  @@ Sends("vault", {<<"update-governance", "update_governance">>,
                     <<"update-platform", "update_platform">>,
                     <<"pause", "pause_contract">>,
                     <<"unpause", "unpause_contract">>})

\* set-params refuses to send an update without any parameter.
ParameterCommands ==
  Command("vault", "set-params", <<Guard, Send("set_contract_params")>>)
  @@ Sends("vault", {<<"execute-update", "execute_contract_params_update">>,
                     <<"cancel-update", "cancel_contract_params_update">>})
  @@ Command("vault", "claim-surplus", <<Convert, Send("claim_surplus_tusdt")>>)

AddressCommands ==
  Shows("vault", {<<"token-address", "get_token_address">>,
                  <<"auction-address", "get_auction_address">>,
                  <<"oracle-address", "get_oracle_address">>})
  @@ Command("vault", "collateral-balance",
             <<Owner, ReadOr("get_vault_collateral_balance", Refuse)>>)

\* emergency-drain refuses every network but testnet.
TreasuryCommands ==
  Shows("vault", {<<"treasury-address", "vault_get_treasury">>})
  @@ Sends("vault", {<<"update-treasury", "vault_update_treasury">>})
  @@ Command("vault", "emergency-drain", <<Guard, Send("vault_emergency_drain")>>)

GlobalCommands ==
  Command("vault", "set-global-params",
          <<Option(<<Convert>>), Guard, Send("set_global_params")>>)
  @@ Sends("vault", {<<"execute-global-update", "execute_global_params_update">>,
                     <<"cancel-global-update", "cancel_global_params_update">>,
                     <<"set-approved-netuid", "set_approved_netuid">>})
  @@ Shows("vault", {<<"get-global-params", "get_global_params">>})

NetuidCommands ==
  Shows("vault", {<<"is-approved-netuid", "is_approved_netuid">>})
  @@ Sends("vault", {<<"claim-excess-alpha", "claim_excess_alpha">>,
                     <<"set-hotkey", "set_vault_hotkey">>,
                     <<"transfer-native-balance", "transfer_native_to_treasury">>,
                     <<"set-token-controller", "vault_set_token_controller">>})

WiringCommands ==
  Sends("vault", {<<"update-auction-address", "vault_update_auction_address">>,
                  <<"update-oracle-address", "vault_update_oracle_address">>,
                  <<"update-token-address", "vault_update_token_address">>})

VaultGroup ==
  DepositCommands @@ DebtCommands @@ OwnerCommands @@ ValueCommands
    @@ TotalCommands @@ LiquidationCommands @@ RoleCommands
    @@ ParameterCommands @@ AddressCommands @@ TreasuryCommands
    @@ GlobalCommands @@ NetuidCommands @@ WiringCommands
=============================================================================
