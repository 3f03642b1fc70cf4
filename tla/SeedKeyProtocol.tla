--------------------------- MODULE SeedKeyProtocol ---------------------------
(***************************************************************************)
(* What SecurityAccess promises (the protocol comment of                   *)
(* include/security.h): access is granted only by answering an outstanding *)
(* challenge; MAX_FAILS wrong answers in a row bar every further challenge *)
(* until the delay has passed.  Nothing here says what a seed or a key is. *)
(***************************************************************************)
EXTENDS Naturals

CONSTANTS MaxFails, Delay, MaxTime

VARIABLES
    phase,   \* "locked", "challenged", "unlocked" or "barred"
    fails,   \* wrong answers since the last right one
    until,   \* when a bar ends; 0 when there is none
    clock

vars == <<phase, fails, until, clock>>

Init ==
    /\ phase = "locked"
    /\ fails = 0
    /\ until = 0
    /\ clock = 0

\* A challenge goes out; it replaces the one that was outstanding.
Challenge ==
    /\ \/ phase \in {"locked", "challenged"} /\ UNCHANGED <<fails, until>>
       \/ phase = "barred" /\ clock >= until /\ fails' = 0 /\ until' = 0
    /\ phase' = "challenged"
    /\ UNCHANGED clock

Grant ==
    /\ phase = "challenged"
    /\ phase' = "unlocked"
    /\ fails' = 0
    /\ UNCHANGED <<until, clock>>

Deny ==
    /\ phase = "challenged"
    /\ fails + 1 < MaxFails
    /\ phase' = "locked"
    /\ fails' = fails + 1
    /\ UNCHANGED <<until, clock>>

Bar ==
    /\ phase = "challenged"
    /\ fails + 1 = MaxFails
    /\ phase' = "barred"
    /\ fails' = fails + 1
    /\ until' = clock + Delay
    /\ UNCHANGED clock

\* Access, or an outstanding challenge, is withdrawn; wrong answers still count.
Withdraw ==
    /\ phase \in {"challenged", "unlocked"}
    /\ phase' = "locked"
    /\ UNCHANGED <<fails, until, clock>>

\* The ECU restarts.
Restart ==
    /\ phase' = "locked"
    /\ fails' = 0
    /\ until' = 0
    /\ UNCHANGED clock

Tick ==
    /\ clock < MaxTime
    /\ clock' = clock + 1
    /\ UNCHANGED <<phase, fails, until>>

Next == Challenge \/ Grant \/ Deny \/ Bar \/ Withdraw \/ Restart \/ Tick

Spec == Init /\ [][Next]_vars
=============================================================================
