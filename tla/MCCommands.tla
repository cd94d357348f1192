----------------------------- MODULE MCCommands -----------------------------
(***************************************************************************)
(* Commands with the whole CLI in its constants.                           *)
(***************************************************************************)
EXTENDS Commands, ClientMethods, Interfaces, VaultCommands, GovernanceCommands,
        LendingCommands, AuctionCommands, ElectionCommands, OracleCommands,
        TokenCommands

AllCommands ==
  VaultGroup @@ GovernanceGroup @@ LendingGroup @@ AuctionGroup
    @@ ElectionGroup @@ OracleGroup @@ TokenGroup @@ TreasuryGroup

\* What is left of a command, whichever way its first step goes.
After(body) ==
  IF body = <<>> THEN {}
  ELSE LET step == Head(body) rest == Tail(body) IN
       {rest} \cup (CASE step.op = "option" -> {step.steps \o rest}
                      [] step.op = "read" -> {step.absent}
                      [] OTHER -> {})

\* No command takes more steps than MaxSteps (BodiesAssumption would fail).
MaxSteps == 12

Left[n \in 0 .. MaxSteps] ==
  IF n = 0 THEN {AllCommands[c] : c \in DOMAIN AllCommands}
  ELSE UNION {After(body) : body \in Left[n - 1]}

AllBodies == UNION {Left[n] : n \in 0 .. MaxSteps}

\* Every method of the client asks for a message of a packaged ABI, save one:
\* the packaged vault has no emergency_drain (client.py:850), so that "vault
\* emergency-drain" (vault.py:1286) ends with an error on testnet too.
ASSUME OnlyTheDrainIsUnpackaged ==
  {m \in DOMAIN Wrapper : ~Known(m)} = {"vault_emergency_drain"}
=============================================================================
