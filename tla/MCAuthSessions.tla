--------------------------- MODULE MCAuthSessions ---------------------------
(* AuthSessions for TLC: handlers are interchangeable, and so are devices.  *)
EXTENDS AuthSessions, TLC

Symmetry == Permutations(Requests) \cup Permutations(Devices)

=============================================================================
