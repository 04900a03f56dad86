------------------------------- MODULE MCValidation -------------------------------
(***************************************************************************)
(* Requests on either side of every limit of dr_validate, and the lengths  *)
(* at which a u8 wraps.                                                    *)
(***************************************************************************)
EXTENDS Validation

CONSTANTS
  yes, no,    \* string answers
  one, cent   \* multipliers of numeric answers

MCLengths     == {0, 1, 2, 3, 8, 9, 256}
MCTexts       == {yes, no}
MCMultipliers == {one, cent}

\* 3 * 5 is the largest timestamp; 3 * 6 is past it.
MCWindows == {1, 5, 6}
MCPeriods == {0, 1, 3, 4, 15}
=================================================================================
