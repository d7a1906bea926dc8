---------------------------- MODULE MCDiskReplay ----------------------------
(* A folder of two data files and one other, the first data file with two  *)
(* blocks. Times are far enough apart that a data set spans less than Half *)
(* and the zero time is further away than any duration reaches.            *)
EXTENDS DiskReplay

MCDir == {
    [path |-> 3, suffix |-> ".native",     blocks |-> << [first |-> 21, last |-> 22] >>],
    [path |-> 1, suffix |-> ".native.zst", blocks |-> << [first |-> 20, last |-> 20],
                                                         [first |-> 21, last |-> 23] >>],
    [path |-> 2, suffix |-> ".tmp",        blocks |-> << >>] }

\* Looping with shifted timestamps, and one pass with the timestamps as they are.
MCConfigs == { [loop |-> TRUE, shift |-> "all"], [loop |-> FALSE, shift |-> "none"] }
=============================================================================
