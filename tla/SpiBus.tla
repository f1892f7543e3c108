------------------------------- MODULE SpiBus -------------------------------
(***************************************************************************)
(* What an SPI driver promises to its application: a transfer of n bytes   *)
(* exchanges one byte after the other with the slave and is reported as    *)
(* done only when all n have been exchanged, exactly once.  It may instead *)
(* be aborted, and then nothing of it goes on.                             *)
(***************************************************************************)
EXTENDS Naturals

CONSTANTS
    MaxBytes    \* the longest transfer that is asked for

VARIABLES
    asked,      \* bytes of the transfer in progress, 0 between transfers
    got,        \* bytes of it that have been exchanged
    outcome     \* the last report to the application

vars == <<asked, got, outcome>>

Outcomes == {"none", "done", "aborted", "error"}

Init == asked = 0 /\ got = 0 /\ outcome = "none"

Request(n) ==
    /\ asked = 0
    /\ asked' = n /\ got' = 0
    /\ UNCHANGED outcome

Exchange ==
    /\ got < asked
    /\ got' = got + 1
    /\ UNCHANGED <<asked, outcome>>

Done ==
    /\ asked > 0 /\ got = asked
    /\ asked' = 0 /\ got' = 0 /\ outcome' = "done"

Abort ==
    /\ asked' = 0 /\ got' = 0 /\ outcome' = "aborted"

Report ==
    /\ outcome' = "error"
    /\ UNCHANGED <<asked, got>>

Next ==
    \/ \E n \in 1..MaxBytes : Request(n)
    \/ Exchange \/ Done \/ Abort \/ Report

Spec == Init /\ [][Next]_vars
=============================================================================
