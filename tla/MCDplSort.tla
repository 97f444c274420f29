----------------------------- MODULE MCDplSort -----------------------------
(* Every list of up to MaxLen entries with three begin times, so that      *)
(* equal, rising and falling times meet in every order.                    *)
EXTENDS DplSort
=============================================================================
