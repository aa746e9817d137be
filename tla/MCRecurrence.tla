---------------------------- MODULE MCRecurrence ----------------------------
EXTENDS Recurrence

(* Month ends around the leap day of 2024, plain days, and 2100, which has *)
(* none.                                                                   *)
MCStarts == {On(2023, 1, 29), On(2023, 1, 31), On(2023, 11, 30), On(2023, 12, 31), On(2024, 1, 26),
             On(2024, 1, 30), On(2024, 2, 28), On(2024, 2, 29), On(2024, 3, 1), On(2024, 3, 31),
             On(2099, 12, 31), On(2100, 1, 29)}

(* Two weeks of the dashboard, a day, half-years, three years, and a       *)
(* window that ends before it starts.                                      *)
MCWindows == {[from |-> On(2024, 1, 26), to |-> On(2024, 2, 1)],
              [from |-> On(2024, 2, 26), to |-> On(2024, 3, 3)],
              [from |-> On(2024, 2, 29), to |-> On(2024, 2, 29)],
              [from |-> On(2024, 1, 1), to |-> On(2024, 6, 30)],
              [from |-> On(2022, 12, 31), to |-> On(2025, 12, 31)],
              [from |-> On(2100, 2, 1), to |-> On(2100, 8, 31)],
              [from |-> On(2024, 3, 5), to |-> On(2024, 3, 4)]}
=============================================================================
