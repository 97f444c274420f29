------------------------------ MODULE Durances ------------------------------
(***************************************************************************)
(* dpl_time_fmt_durance of src/src/time.c: the numbers it writes for the   *)
(* placeholders of a format.  A durance may be negative, when the entries  *)
(* of a file are not in the order of their times.                          *)
(***************************************************************************)
EXTENDS Integers

\* The operators / and % of C, which round towards 0.
Quot(a, b) == IF a >= 0 THEN a \div b ELSE -((-a) \div b)
Rem(a, b) == IF a >= 0 THEN a % b ELSE -((-a) % b)

\* durance in minutes, and in hours, when the smaller unit is taken out.
InMinutes(secs) == Quot(secs - Rem(secs, 60), 60)
InHours(mins) == Quot(mins - Rem(mins, 60), 60)

\* The number for a placeholder.
Secs(d) == Rem(d, 60)
Mins(d) == Rem(InMinutes(d), 60)
Hours(d) == Rem(InHours(InMinutes(d)), 24)
Days(d) == Quot(InHours(InMinutes(d)) - Hours(d), 24)

Placeholder == {"d", "D", "h", "H", "m", "M", "s", "S"}

Written(p, d) == CASE p \in {"d", "D"} -> Days(d)
                   [] p = "h" -> Hours(d)
                   [] p = "H" -> Hours(d) + Days(d) * 24
                   [] p = "m" -> Mins(d)
                   [] p = "M" -> Mins(d) + Hours(d) * 60 + Days(d) * 1440
                   [] p = "s" -> Secs(d)
                   [] p = "S" -> Secs(d) + Mins(d) * 60 + Hours(d) * 3600
                                     + Days(d) * 86400
=============================================================================
