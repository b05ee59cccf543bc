--------------------------- MODULE MCFingerprintProbe ---------------------------
(* An address of up to two rows and three people, of whom two are probed:  *)
(* the window leaves somebody out, and a change may move it.               *)
EXTENDS FingerprintProbe

MCRows == {1, 2}
MCPerson == {1, 2, 3}
MCPersonRow == {1}
=============================================================================
