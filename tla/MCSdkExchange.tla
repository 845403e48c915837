--------------------------- MODULE MCSdkExchange ----------------------------
(* A small instance of SdkExchange for TLC. *)
EXTENDS SdkExchange

CONSTANTS c1, c2, t1

TwoCalls == {c1, c2}
OneToken == {t1}
=============================================================================
