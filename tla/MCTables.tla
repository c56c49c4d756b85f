------------------------------ MODULE MCTables ------------------------------
(* Every list of the console: two rows and one to come, two requests, and       *)
(* another operator who removes a row; on the tokens' table, whose operations   *)
(* are the most, in place of one of the two requests.                           *)
EXTENDS Tables, TLC

CONSTANTS r1, r2, n1

MCLists == DOMAIN Component
MCPresent == {r1, r2}
MCFresh == {n1}
MCSymmetry == Permutations(MCPresent)

TwoWrites == kind = "tokens" => tally.sent + tally.others <= 2

MCSpec == Init /\ [][Next /\ TwoWrites']_vars
=============================================================================
