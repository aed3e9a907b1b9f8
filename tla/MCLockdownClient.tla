-------------------------- MODULE MCLockdownClient --------------------------
(* Three keys: an answer can be late by two.                               *)
EXTENDS LockdownClient
CONSTANTS name, model, ios
MCKeys == <<name, model, ios>>
=============================================================================
