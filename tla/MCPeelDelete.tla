---------------------------- MODULE MCPeelDelete ----------------------------
(* A small instance of PeelDelete, with the reads of Scope over its rows.  *)
EXTENDS Scope

On(year, month, day) == [year |-> year, month |-> month, day |-> day]

(* Days on either side of a month's and of a financial year's end, one of   *)
(* them a leap day, and one of the year the clock shows.                    *)
Awards ==
  {[trader |-> "Asha", company |-> "Tradeify", date |-> On(2024, 2, 29)],
   [trader |-> "Ravi", company |-> "Tradeify", date |-> On(2024, 3, 31)],
   [trader |-> "Asha", company |-> "Topstep", date |-> On(2024, 4, 1)],
   [trader |-> "Ravi", company |-> "Topstep", date |-> On(2025, 12, 31)]}

(* New year's day, both sides of the first of April, and a year's last day. *)
Openings == {On(2025, 1, 1), On(2025, 3, 31), On(2025, 4, 1), On(2025, 12, 31)}
=============================================================================
