--------------------------- MODULE ElectionCommands ---------------------------
(***************************************************************************)
(* The commands of `tusdt election`, from commands/election.py.            *)
(***************************************************************************)
EXTENDS CommandSteps

ElectionClock ==
  Shows("election", {<<"governance-address", "get_election_governance">>,
                     <<"min-candidate-stake", "get_min_candidate_stake">>,
                     <<"incumbent", "get_incumbent">>,
                     <<"active-netuid", "get_active_netuid">>,
                     <<"phase", "get_phase">>,
                     <<"cycle-id", "get_cycle_id">>})

CandidateViews ==
  Shows("election", {<<"next-election-ts", "get_next_election_ts">>,
                     <<"terms-served", "get_terms_served">>,
                     <<"approval-weight", "get_approval_weight">>})
  @@ Command("election", "get-candidate", <<ReadOr("get_candidate", Notice)>>)
  @@ Command("election", "candidate-list", <<ReadOr("get_candidate_list", Notice)>>)

TallyViews ==
  Shows("election", {<<"total-participating-power", "get_total_participating_power">>,
                     <<"total-voted-balance", "get_total_voted_balance">>,
                     <<"quorum", "get_quorum_election">>})
  @@ Command("election", "leading-candidate", <<ReadOr("get_leading_candidate", Notice)>>)
  @@ Command("election", "maintainer-elect", <<ReadOr("get_maintainer_elect", Notice)>>)

TransitionCommands ==
  Command("election", "transition", <<ReadOr("get_transition", Notice)>>)
  @@ Shows("election", {<<"is-in-transition", "is_in_transition">>,
                        <<"voting-window", "get_voting_window">>})
  @@ Command("election", "schedule-election", <<Send("schedule_election")>>)

\* A proof of another length than 32 bytes ends cast-approval with sys.exit(1).
ApprovalCommands ==
  Command("election", "register-candidate", <<Send("register_candidate")>>)
  @@ Command("election", "cast-approval",
             <<Convert, Check({"traceback", "error"}), Send("cast_approval")>>)

CycleCommands ==
  Sends("election", {<<"finalize", "finalize_election">>,
                     <<"activate", "activate_election">>,
                     <<"end-transition", "end_transition">>,
                     <<"trigger-emergency-election", "trigger_emergency_election">>,
                     <<"cancel-cycle", "cancel_cycle">>})

ElectionGroup ==
  ElectionClock @@ CandidateViews @@ TallyViews @@ TransitionCommands
    @@ ApprovalCommands @@ CycleCommands
=============================================================================
