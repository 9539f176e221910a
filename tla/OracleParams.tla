---------------------------- MODULE OracleParams ----------------------------
(***************************************************************************)
(* The immutable parameters of an OracleCore deployment and the payout     *)
(* arithmetic that depends on nothing else.  Amounts are natural numbers   *)
(* of USDC's smallest unit; \div is Solidity's truncating division.  The   *)
(* products are computed in uint256 before they are narrowed, so no        *)
(* intermediate value can wrap for amounts below 2^128.                    *)
(***************************************************************************)
EXTENDS Integers

CONSTANTS
    MIN_SELF_STAKE_BPS, PROTOCOL_FEE_BPS, VALIDATOR_FEE_SHARE_BPS,
    BETTING_WINDOW, ACCEPT_WINDOW, DISPUTE_WINDOW, GRACE_WINDOW,
    VALIDATION_THRESHOLD, MIN_BET, MAX_POOL_PER_SIDE, MIN_REWARD,
    DUST_SWEEP_DELAY            \* 30 days in the code, a few ticks in a model

BPS == 10000

(***************************************************************************)
(* What the constructor enforces (BadParams) and the unsigned types of the *)
(* parameters.  Nothing forces MIN_SELF_STAKE_BPS or MIN_BET to be         *)
(* positive.                                                               *)
(***************************************************************************)
ASSUME ParamsAssumption ==
    /\ MIN_SELF_STAKE_BPS \in 0..BPS
    /\ PROTOCOL_FEE_BPS \in 0..BPS
    /\ VALIDATOR_FEE_SHARE_BPS \in 0..BPS
    /\ VALIDATION_THRESHOLD \in 0..100
    /\ MIN_REWARD \in Nat \ {0}
    /\ {BETTING_WINDOW, ACCEPT_WINDOW, DISPUTE_WINDOW, GRACE_WINDOW} \subseteq Nat
    /\ {MIN_BET, MAX_POOL_PER_SIDE, DUST_SWEEP_DELAY} \subseteq Nat

Bps(amount, rate) == (amount * rate) \div BPS

\* Protocol fee on the losing pool, and what is left for the winners.
Fee(losing) == Bps(losing, PROTOCOL_FEE_BPS)
Distributable(losing) == losing - Fee(losing)

\* Only an outcome that came through the validator (R2, R3) pays the validator.
ValidatorFee(fee, viaRule) ==
    IF viaRule \in {2, 3} THEN Bps(fee, VALIDATOR_FEE_SHARE_BPS) ELSE 0

\* Seeded fault: the treasury books the whole fee, the validator's share included.
TreasuryTakesAll(fee, viaRule) == fee

TreasuryFee(fee, viaRule) == fee - ValidatorFee(fee, viaRule)

MinSelfStake(reward) == Bps(reward, MIN_SELF_STAKE_BPS)

\* Seeded faults: the share is rounded up; the winner's own position is forgotten.
PayoutRoundedUp(w, losing, winning) ==
    IF w > 0 THEN w + (w * Distributable(losing) + winning - 1) \div winning ELSE 0
PayoutWithoutStake(w, losing, winning) ==
    IF w > 0 THEN (w * Distributable(losing)) \div winning ELSE 0

\* A winner's own position w plus its floored share of what the losers left.
WinnerPayout(w, losing, winning) ==
    IF w > 0 THEN w + (w * Distributable(losing)) \div winning ELSE 0
=============================================================================
