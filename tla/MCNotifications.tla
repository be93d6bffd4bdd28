-------------------------- MODULE MCNotifications --------------------------
EXTENDS Notifications, TLC
=============================================================================
