---- MODULE MCWatchdog ----
(* The instance of Watchdog that TLC checks; see the cfg files.            *)
EXTENDS Watchdog
====
