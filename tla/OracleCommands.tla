---------------------------- MODULE OracleCommands ----------------------------
(***************************************************************************)
(* The commands of `tusdt oracle`, from commands/oracle.py.  A price goes  *)
(* through a float: ValueError is caught, the OverflowError of an infinite *)
(* one is not.                                                             *)
(***************************************************************************)
EXTENDS CommandSteps

PriceCommands ==
  Command("oracle", "price", <<ReadOr("get_latest_price", Notice)>>)
  @@ Command("oracle", "round", <<Read("get_current_round")>>)
  @@ Command("oracle", "submit-price",
             <<ConvertOrGuard, Guard, Guard, Send("submit_price")>>)

RoundCommands ==
  Command("oracle", "commit-round", <<Option(<<ConvertOrGuard>>), Send("commit_round")>>)
  @@ Command("oracle", "round-price", <<ReadOr("get_round_price", Notice)>>)
  @@ Command("oracle", "history",
             <<Read("get_price_history_count"), ReadOr("get_price_history", Notice)>>)

SubmissionViews ==
  Command("oracle", "submissions", <<ReadOr("get_round_submissions", Notice)>>)
  @@ Command("oracle", "summary", <<ReadOr("get_current_round_summary", Notice)>>)
  @@ Shows("oracle", {<<"history-count", "get_price_history_count">>,
                      <<"get-netuid", "oracle_get_netuid">>,
                      <<"get-min-submitter-stake", "oracle_get_min_submitter_stake">>})

OracleRoleViews ==
  Shows("oracle", {<<"controller", "get_oracle_controller">>,
                   <<"governance", "get_oracle_governance">>,
                   <<"validator", "get_oracle_validator">>,
                   <<"max-deviation", "get_max_price_deviation">>,
                   <<"max-submissions", "get_max_round_submissions">>})

GovernedRoundCommands ==
  Command("oracle", "commit-round-gov", <<ConvertOrGuard, Send("commit_round_governance")>>)
  @@ Command("oracle", "set-netuid", <<Send("oracle_set_netuid")>>)
  @@ Command("oracle", "set-min-submitter-stake",
             <<Guard, Send("oracle_set_min_submitter_stake")>>)
  @@ Command("oracle", "set-validator", <<Guard, Send("set_validator")>>)

OracleRoleCommands ==
  Command("oracle", "set-max-deviation", <<ConvertOrGuard, Send("set_max_price_deviation")>>)
  @@ Sends("oracle", {<<"update-governance", "oracle_update_governance">>,
                      <<"set-controller", "oracle_set_controller">>})

OracleGroup ==
  PriceCommands @@ RoundCommands @@ SubmissionViews @@ OracleRoleViews
    @@ GovernedRoundCommands @@ OracleRoleCommands
=============================================================================
