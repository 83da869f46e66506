--------------------------- MODULE MCHAProxyManager ---------------------------
(* HAProxyManager with three configurations, one of which haproxy refuses. *)
(* A file cut short is accepted: the worst case for NeverPartial.          *)
EXTENDS HAProxyManager

CONSTANT Refused   \* the configurations haproxy refuses

AcceptsAllButRefused(file) == file \notin Refused \cup {None}
=============================================================================
