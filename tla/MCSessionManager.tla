--------------------------- MODULE MCSessionManager ---------------------------
(***************************************************************************)
(* SessionManager for TLC: three endpoints and accounts, a cap of two and  *)
(* fewer ids than handshakes, so that ids recur.  The names are at the     *)
(* 31-byte limit: a suffix replaces the end of the name, so that a suffix  *)
(* given by the server can meet one chosen by a player.                    *)
(***************************************************************************)
EXTENDS SessionManager, TLC

CONSTANTS a1, a2, a3, p1, p2, p3

MCAddr == {a1, a2, a3}
MCAccount == {p1, p2, p3}
MCName == 0 .. IdSpace + 1
MCSuffixed(base, n) == n
MCSymmetry == Permutations(MCAddr) \cup Permutations(MCAccount)
\* Names outside live sessions are never read; one initial choice is enough.
MCInit == Init /\ name = [i \in Id |-> 0]
MCSpec == MCInit /\ [][Next]_vars
=============================================================================
