-------------------------- MODULE MCNotifications ---------------------------
EXTENDS Notifications, TLC

CONSTANTS ud, uo, ui

Interchangeable == Permutations(Tabs) \cup Permutations(Calls)
=============================================================================
