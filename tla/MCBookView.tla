----------------------------- MODULE MCBookView -----------------------------
(* BookView with two contacts, a content which matches the query and one   *)
(* which does not, and batches of one contact added or two changed.        *)
EXTENDS BookView, TLC

CONSTANTS u1, u2

AtFirst == (u1 :> "a") @@ (u2 :> None)
=============================================================================
