----------------------------- MODULE MCDiagTool -----------------------------
(***************************************************************************)
(* DiagTool for TLC: a terminal for commands and one for the monitor.      *)
(* Seeds and keys have two bits, as in MCVecu.                             *)
(***************************************************************************)
EXTENDS ToolHistory, Bitwise

MCXorU32(a, b) == a ^^ b

Cmd(verb) == [verb |-> verb, name |-> "none", len |-> 0]

WriteNameCmd(name, len) == [verb |-> "write-name", name |-> name, len |-> len]

\* Legal names, the second as long as the codec takes it, and one too long.
Typed == {Cmd("unlock"), Cmd("clear-dtc"),
          WriteNameCmd("ALICE", 5), WriteNameCmd("CAROL", 32), WriteNameCmd("CAROL", 33)}

Demonstrated == {Cmd("read-vin"), Cmd("read-serial"), Cmd("read-dtc"), Cmd("unlock"),
                 WriteNameCmd("ALICE", 5)}

MCCommands(t) == IF t = "window 3" THEN {Cmd("monitor")} ELSE Typed

DemoCommands(t) == IF t = "window 3" THEN {Cmd("monitor")} ELSE Demonstrated

Budget(c, l, o, r, t) ==
    [commands |-> c, losses |-> l, overtakes |-> o, rounds |-> r, ticks |-> t]

\* Losses next to the monitor or a late answer, two overtakes, and a loss with
\* time for S3.
MCBudgets == {Budget(2, 1, 0, 1, 0), Budget(3, 1, 1, 0, 0),
              Budget(3, 0, 2, 0, 0), Budget(2, 1, 0, 0, 2)}

\* The demonstration: nothing is lost or late.
DemoBudgets == {Budget(2, 0, 0, 1, 0)}

\* Everything the commands may send.
ToolRequests ==
    UNION {{Script(k, seed)[i] : i \in 1..Len(Script(k, seed))} :
              k \in Typed \cup Demonstrated \cup {Cmd("monitor")}, seed \in 0..3}
=============================================================================
