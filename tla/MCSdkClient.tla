---------------------------- MODULE MCSdkClient ----------------------------
(* A small instance of SdkClient for TLC. *)
EXTENDS SdkClient

CONSTANTS c1, c2, c3, old, new, empty

ThreeCalls == {c1, c2, c3}
MCConfigs  == {old, new, empty}
MCUnnamed  == {empty}
=============================================================================
