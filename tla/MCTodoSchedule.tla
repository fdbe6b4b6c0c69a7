---------------------------- MODULE MCTodoSchedule ----------------------------
(* Instances of TodoSchedule for TLC: a few days, and a week of two of them. *)
EXTENDS TaskViews

MCFollowing(repeat, interval, date) ==
    IF repeat = "daily" THEN date + interval ELSE date + 2 * interval
=============================================================================
