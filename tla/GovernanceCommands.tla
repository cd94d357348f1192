-------------------------- MODULE GovernanceCommands --------------------------
(***************************************************************************)
(* The commands of `tusdt governance`, from commands/governance.py.        *)
(***************************************************************************)
EXTENDS CommandSteps

CouncilViews ==
  Command("governance", "council", <<ReadOr("get_council", Notice)>>)
  @@ Shows("governance", {<<"maintainer", "get_maintainer">>,
                          <<"is-council", "is_council">>,
                          <<"treasury", "get_governance_treasury">>,
                          <<"params", "get_governance_params">>,
                          <<"current-epoch", "get_current_epoch">>})

ProposalViews ==
  Command("governance", "get-snapshot", <<ReadOr("get_snapshot", Notice)>>)
  @@ Command("governance", "get-proposal", <<ReadOr("get_proposal", Refuse)>>)
  @@ Shows("governance", {<<"quorum", "get_quorum">>,
                          <<"proposal-count", "get_proposal_count">>})

VoteViews ==
  Command("governance", "election-snapshot", <<ReadOr("get_election_snapshot", Notice)>>)
  @@ Shows("governance", {<<"has-voted", "has_voted">>,
                          <<"netuid", "get_netuid">>,
                          <<"election", "get_election_address">>})

\* vault-set-params refuses to send an update without any parameter.
VaultUpdates ==
  Sends("governance", {<<"set-council", "set_council">>,
                       <<"vault-cancel-update", "gov_vault_cancel_update">>})
  @@ Command("governance", "vault-set-params",
             <<Guard, Send("gov_vault_set_contract_params")>>)

VaultRoleUpdates ==
  Sends("governance", {<<"vault-update-treasury", "gov_vault_update_treasury">>,
                       <<"vault-update-platform", "gov_vault_update_platform">>,
                       <<"vault-unpause", "gov_vault_unpause">>,
                       <<"vault-pause", "gov_vault_pause">>})

\* An address or --clear is needed; the stake is converted inside a try.
OracleUpdates ==
  Command("governance", "oracle-set-validator",
          <<Guard, Send("gov_oracle_set_validator")>>)
  @@ Sends("governance", {<<"oracle-set-deviation", "gov_oracle_set_max_price_deviation">>,
                          <<"oracle-commit-round", "gov_oracle_commit_round">>,
                          <<"oracle-set-netuid", "gov_oracle_set_netuid">>})
  @@ Command("governance", "oracle-set-min-submitter-stake",
             <<Guard, Send("gov_oracle_set_min_submitter_stake")>>)

ParameterUpdates ==
  Command("governance", "auction-set-admin", <<Guard, Send("gov_auction_set_admin")>>)
  @@ Command("governance", "update-params", <<Convert, Send("update_governance_params")>>)

\* A funding proposal needs all four of its options.
ProposalCommands ==
  Command("governance", "submit-proposal",
          <<Option(<<Guard, Convert>>), Send("submit_proposal")>>)

\* Amount and proofs are converted, and a proof of another length is refused.
VoteCommands ==
  Command("governance", "vote", <<Convert, ConvertOrGuard, Send("vote")>>)
  @@ Sends("governance", {<<"finalize-proposal", "finalize_proposal">>})

SnapshotCommands ==
  Sends("governance", {<<"execute-proposal", "execute_proposal">>,
                       <<"vault-claim-excess-alpha", "gov_vault_claim_excess_alpha">>})
  @@ Command("governance", "submit-snapshot", <<Convert, Send("submit_snapshot")>>)
  @@ Shows("governance", {<<"vault-hotkey", "gov_get_vault_hotkey">>})

VaultOperations ==
  Sends("governance", {<<"vault-set-hotkey", "gov_set_vault_hotkey">>,
                       <<"vault-transfer-native-balance", "gov_transfer_native_to_treasury">>,
                       <<"vault-set-approved-netuid", "gov_vault_set_approved_netuid">>})
  @@ Command("governance", "vault-set-global-params",
             <<Option(<<Convert>>), Guard, Send("gov_vault_set_global_params")>>)

VaultAddressUpdates ==
  Sends("governance",
        {<<"vault-cancel-global-update", "gov_vault_cancel_global_params_update">>,
         <<"elect-maintainer", "elect_maintainer">>,
         <<"election-set-netuid", "election_set_netuid">>,
         <<"vault-set-token-controller", "gov_vault_set_token_controller">>,
         <<"vault-update-auction-address", "gov_vault_update_auction_address">>,
         <<"vault-update-oracle-address", "gov_vault_update_oracle_address">>})

AddressUpdates ==
  Sends("governance", {<<"update-vault-address", "gov_update_vault_address">>,
                       <<"update-auction-address", "gov_update_auction_address">>,
                       <<"update-oracle-address", "gov_update_oracle_address">>,
                       <<"update-treasury-address", "gov_update_treasury_address">>})
  @@ Shows("governance", {<<"vault-address", "get_vault_address">>,
                          <<"auction-address", "get_governance_auction_address">>})

PoolAddressCommands ==
  Shows("governance", {<<"oracle-address", "get_governance_oracle_address">>,
                       <<"pool-address", "gov_get_pool_address">>})
  @@ Sends("governance", {<<"update-pool-address", "gov_update_pool_address">>})

GovernanceGroup ==
  CouncilViews @@ ProposalViews @@ VoteViews @@ VaultUpdates
    @@ VaultRoleUpdates @@ OracleUpdates @@ ParameterUpdates
    @@ ProposalCommands @@ VoteCommands @@ SnapshotCommands
    @@ VaultOperations @@ VaultAddressUpdates @@ AddressUpdates
    @@ PoolAddressCommands
=============================================================================
