--------------------------- MODULE AuctionCommands ---------------------------
(***************************************************************************)
(* The commands of `tusdt auction`, from commands/auction.py.              *)
(***************************************************************************)
EXTENDS CommandSteps

AuctionLists ==
  Command("auction", "list-active",
          <<Read("get_active_auctions_count"), ReadOr("list_active_auctions", Notice)>>)
  @@ Command("auction", "info", <<ReadOr("get_auction", Refuse)>>)

\* An unknown hotkey, then a signer without an address, end the bid before its
\* allowance is read; the question about an approval is asked in spite of --yes.
BidCommands ==
  Command("auction", "bid",
          <<Convert,
            Option(<<Guard, Guard>>),
            Option(<<Guard, Convert, Read("allowance"),
                     Option(<<Insist, Send("approve")>>)>>),
            Send("place_bid")>>)

SettlementCommands ==
  Sends("auction", {<<"finalize", "finalize_auction">>,
                    <<"withdraw-refund", "withdraw_refund">>})
  @@ Command("auction", "my-bid", <<Guard, Guard, ReadOr("get_my_bid", Notice)>>)

AuctionTotals ==
  Command("auction", "list-all",
          <<Read("get_total_auctions_count"), ReadOr("list_all_auctions", Notice)>>)
  @@ Command("auction", "total-count", <<Read("get_total_auctions_count")>>)
  @@ Command("auction", "vault-auction",
             <<Guard, ReadOr("get_active_vault_auction", Notice)>>)

BidViews ==
  Command("auction", "bids", <<ReadOr("list_bids", Notice)>>)
  @@ Command("auction", "bid-info", <<ReadOr("get_bid", Refuse)>>)
  @@ Shows("auction", {<<"controller", "get_auction_controller">>,
                       <<"governance", "get_auction_governance">>})

AdminCommands ==
  Command("auction", "admin-address", <<ReadOr("get_auction_admin", Notice)>>)
  @@ Command("auction", "create",
             <<Convert, Convert, Convert, Guard, Send("create_auction")>>)
  @@ Command("auction", "set-admin", <<Guard, Send("auction_set_admin")>>)

AuctionRoleCommands ==
  Command("auction", "update-governance", <<Send("auction_update_governance")>>)
  @@ Command("auction", "transfer-winning-bid",
             <<Guard, Send("auction_transfer_winning_bid")>>)
  @@ Command("auction", "active-count", <<Read("get_active_auctions_count")>>)
  @@ Command("auction", "set-controller", <<Send("auction_set_controller")>>)

AuctionGroup ==
  AuctionLists @@ BidCommands @@ SettlementCommands @@ AuctionTotals
    @@ BidViews @@ AdminCommands @@ AuctionRoleCommands
=============================================================================
