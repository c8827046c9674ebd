----------------------------- MODULE MCBodyRing -----------------------------
(* BodyRing for TLC.  The run stops when the whole body was delivered;     *)
(* Done keeps that from counting as a deadlock, so that a state where both *)
(* sides are stuck before the end is reported.                             *)
EXTENDS BodyRing

Done == tail = MaxBytes /\ UNCHANGED vars

MCNext == Next \/ Done
MCSpec == Init /\ [][MCNext]_vars
=============================================================================
