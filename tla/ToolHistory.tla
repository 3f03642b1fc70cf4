---------------------------- MODULE ToolHistory ----------------------------
(***************************************************************************)
(* DiagTool with a history variable: for each terminal, whether the S3     *)
(* thread wrote to the ECU's state since the command last typed there      *)
(* began.  It serves to state what a command may rely on while time        *)
(* passes.                                                                 *)
(***************************************************************************)
EXTENDS DiagTool

VARIABLE s3Acted   \* terminal -> S3 reverted or relocked since its command began

HInit ==
    /\ ToolInit
    /\ s3Acted = [t \in Terminals |-> FALSE]

\* main: a new command.
HStart(t, k) ==
    /\ Start(t, k)
    /\ s3Acted' = [s3Acted EXCEPT ![t] = FALSE]

\* s3_thread_main writes in two places: the session and the security state.
HTimer ==
    /\ EcuTimer
    /\ s3Acted' = [t \in Terminals |-> s3Acted[t] \/ spc \in {"revert", "relock"}]

HNext ==
    \/ HTimer
    \/ (EcuTakes \/ EcuHandles \/ EcuAnswers) /\ UNCHANGED s3Acted
    \/ TimePasses /\ UNCHANGED s3Acted
    \/ \E t \in Terminals :
          \/ Tool(t) /\ UNCHANGED s3Acted
          \/ \E k \in Commands(t) : HStart(t, k)

HSpec == HInit /\ [][HNext]_<<vars, toolVars, s3Acted>>

HFairSpec == HSpec /\ ToolFairness

-----------------------------------------------------------------------------
(* Properties. *)

(***************************************************************************)
(* A tool alone with the ECU is refused the write of a legal name only if  *)
(* the S3 thread interfered.  The ECU may be locked, unlocked by an        *)
(* earlier command, left half way or back in the default session; requests *)
(* and answers may be lost, so that earlier commands ended anywhere; and   *)
(* any time may pass before the command and during it.  Only commands that *)
(* ran while S3 reverted the session or relocked may be refused: the       *)
(* command took longer than the S3 timeout, S3 had decided before the      *)
(* command's session request, or S3 compared an old clock with a fresh     *)
(* time stamp.                                                             *)
(***************************************************************************)
LoneWriteAccepted ==
    spent.overtakes = 0 /\ spent.rounds = 0 =>
        \A t \in Terminals :
            tool[t].cmd.len \in 1..32 /\ ~s3Acted[t] =>
                ~Ended(t, "write-name", EXIT_NRC) /\ ~Ended(t, "write-name", EXIT_UNCAUGHT)
=============================================================================
