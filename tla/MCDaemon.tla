------------------------------ MODULE MCDaemon ------------------------------
\* The instances of Daemon that TLC checks.
EXTENDS Daemon
=============================================================================
