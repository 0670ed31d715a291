------------------------------- MODULE MCShadow -------------------------------
(* Three days of an 8-bit calendar: terms and graces of a day or none, the    *)
(* sentinel 0, a negative field, and a grace that leaves the word.            *)
EXTENDS Shadow

MCNumbers == {-1, 0, 1, 127} \cup Days
===============================================================================
