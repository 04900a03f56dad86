------------------------------ MODULE MCWrappedNear ------------------------------
(***************************************************************************)
(* A small instance of the wrapped NEAR token for TLC.                     *)
(***************************************************************************)
EXTENDS WrappedNear

CONSTANTS
  alice, bob, app  \* holders, any of whom may be a contract

MCHolders == {alice, bob, app}
MCAmounts == {1, 2}

\* Nothing unused, some of it, more than was ever sent, and a failure.
MCResults == {0, 1, 9, Failed}
=================================================================================
