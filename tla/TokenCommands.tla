---------------------------- MODULE TokenCommands ----------------------------
(***************************************************************************)
(* The commands of `tusdt token` and `tusdt treasury`, from                *)
(* commands/token.py and commands/treasury.py.  Amounts and addresses are  *)
(* converted outside a try.                                                *)
(***************************************************************************)
EXTENDS CommandSteps

HolderCommands ==
  Command("token", "balance", <<Convert, Read("balance_of")>>)
  @@ Command("token", "allowance", <<Convert, Convert, Read("allowance")>>)
  @@ Command("token", "approve", <<Convert, Convert, Send("approve")>>)

SupplyCommands ==
  Alike("token", <<Convert, Convert>>, Send,
        {<<"transfer", "transfer">>, <<"mint", "token_mint">>, <<"burn", "token_burn">>})
  @@ Shows("token", {<<"controller", "token_controller">>,
                     <<"total-supply", "total_supply">>})

AllowanceCommands ==
  Alike("token", <<Convert, Convert>>, Send,
        {<<"increase-allowance", "token_increase_allowance">>,
         <<"decrease-allowance", "token_decrease_allowance">>})
  @@ Command("token", "transfer-from",
             <<Convert, Convert, Convert, Send("token_transfer_from")>>)

MinterCommands ==
  Sends("token", {<<"set-controller", "set_controller">>,
                  <<"add-minter", "add_minter">>,
                  <<"remove-minter", "remove_minter">>})
  @@ Command("token", "is-minter", <<Read("is_minter")>>)

TokenGroup == HolderCommands @@ SupplyCommands @@ AllowanceCommands @@ MinterCommands

FundViews ==
  Shows("treasury", {<<"governance", "treasury_get_governance">>,
                     <<"token", "treasury_get_token">>,
                     <<"fund-balance-tusdt", "treasury_fund_balance_tusdt">>,
                     <<"fund-balance-native", "treasury_fund_balance_native">>,
                     <<"pending-tusdt", "treasury_pending_tusdt">>})

FundCommands ==
  Command("treasury", "pending-native", <<Read("treasury_pending_native")>>)
  @@ Sends("treasury", {<<"set-governance", "treasury_set_governance">>,
                        <<"distribute", "treasury_distribute">>})
  @@ Command("treasury", "release", <<Convert, Send("treasury_release")>>)

TreasuryGroup == FundViews @@ FundCommands
=============================================================================
