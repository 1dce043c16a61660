----------------------------- MODULE MCSessions -----------------------------
(* Sessions for TLC: two users, two request slots, two cookie values,   *)
(* a lifetime of one tick and a clock bounded at two ticks.               *)
EXTENDS Sessions

=============================================================================
