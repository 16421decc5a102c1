--------------------------- MODULE TrimmedAmount ---------------------------
(***************************************************************************)
(* Token amounts with their decimals (evm/src/libraries/TrimmedAmount.sol).*)
(*                                                                         *)
(* A trimmed amount is a 64-bit amount packed with its number of decimals. *)
(* Here it is a record; a cast to 64 bits that would revert is a separate  *)
(* predicate (Fits), which the actions that cast have as a guard.  The     *)
(* 256-bit products of the library are taken not to overflow.              *)
(***************************************************************************)
EXTENDS Integers

CONSTANTS
    TRIMMED_DECIMALS,   \* 8 in the library
    U64_MAX             \* type(uint64).max in the library

ASSUME TrimmedDecimalsAssumption == TRIMMED_DECIMALS \in Nat

ASSUME U64MaxAssumption == U64_MAX \in Nat \ {0}

\* 10 ** n.
powerOfTen[n \in Nat] == IF n = 0 THEN 1 ELSE 10 * powerOfTen[n - 1]

minDecimals(a, b) == IF a < b THEN a ELSE b

\* Mutant of scale: a quotient is rounded up.
scale_RoundsUp(amount, fromDecimals, toDecimals) ==
    IF fromDecimals > toDecimals
    THEN (amount + powerOfTen[fromDecimals - toDecimals] - 1)
            \div powerOfTen[fromDecimals - toDecimals]
    ELSE amount * powerOfTen[toDecimals - fromDecimals]

\* Scale an amount from one number of decimals to another, rounding down.
scale(amount, fromDecimals, toDecimals) ==
    IF fromDecimals > toDecimals
    THEN amount \div powerOfTen[fromDecimals - toDecimals]
    ELSE amount * powerOfTen[toDecimals - fromDecimals]

\* The amount passes SafeCast.toUint64.
Fits(trimmed) == trimmed.amount <= U64_MAX

\* The amount in the largest number of decimals that both sides and 64 bits
\* can represent.
trim(amt, fromDecimals, toDecimals) ==
    LET d == minDecimals(minDecimals(TRIMMED_DECIMALS, fromDecimals), toDecimals)
    IN  [amount |-> scale(amt, fromDecimals, d), decimals |-> d]

untrim(trimmed, toDecimals) ==
    scale(trimmed.amount, trimmed.decimals, toDecimals)

\* The amount in the decimals the rate limits of a token are kept in.
shift(trimmed, toDecimals) ==
    LET d == minDecimals(TRIMMED_DECIMALS, toDecimals)
    IN  [amount |-> scale(trimmed.amount, trimmed.decimals, d), decimals |-> d]

=============================================================================
