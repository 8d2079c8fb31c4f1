-------------------------- MODULE MCCryptHandshake --------------------------
(* Instances of CryptHandshake for TLC. *)
EXTENDS CryptHandshake

CONSTANTS ka, kb, kc, kd

MCKeys    == {ka, kb, kc, kd}
MCRing    == {ka, kb, kd}
MCUsable  == {ka, kb, kc}
MCAnyKey  == {ka, kc, kd, NoKey}
MCRight   == {ka}
MCPieces  == {"aligned", "odd"}
MCOdd     == {"odd"}
MCNone    == {}
MCSecond  == {2}
=============================================================================
