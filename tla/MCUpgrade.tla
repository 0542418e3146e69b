----------------------------- MODULE MCUpgrade -----------------------------
(* Instances of Upgrade for TLC: the daemon and one artifact that version 2 *)
(* adds; version 3 replaces the daemon only and may be applied directly.    *)
EXTENDS Upgrade

\* Every version ships the daemon; version 2 also ships a new plugin.
ShipsAll == <<{1}, {1, 2}, {1}>>

\* Both versions ship both artifacts.
ShipsSame == <<{1, 2}, {1, 2}>>
=============================================================================
