------------------------------- MODULE MCVecu -------------------------------
(***************************************************************************)
(* Vecu for TLC: the request sets of the runs.  Seeds and keys have two    *)
(* bits and the real exclusive or, so that with the key constant 3 the key *)
(* 2 answers seed 1 and the key 1 answers seed 2.                          *)
(***************************************************************************)
EXTENDS UdsRequests, Bitwise

MCXorU32(a, b) == a ^^ b

\* The requests that move the session and the security state.
SessionRequests ==
    {Plain(UDS_SID_DIAGNOSTIC_SESSION_CONTROL, UDS_SESSION_DEFAULT),
     Plain(UDS_SID_DIAGNOSTIC_SESSION_CONTROL, UDS_SESSION_EXTENDED),
     Plain(UDS_SID_ECU_RESET, 1),
     Plain(UDS_SID_SECURITY_ACCESS, 1),
     SendKey(2), SendKey(0),
     Write("F200 owner", 3 + OWNER_NAME_CAP),
     Plain(UDS_SID_TESTER_PRESENT, 128)}

\* Every service: well-formed, with the suppress bit, and wrong in each of the
\* ways its handler tells apart.  (clear-dtc of MCDiagTool empties the memory.)
ServiceRequests ==
    SessionRequests \cup
    {Plain(UDS_SID_DIAGNOSTIC_SESSION_CONTROL, 128 + UDS_SESSION_PROGRAMMING),
     Plain(UDS_SID_DIAGNOSTIC_SESSION_CONTROL, 132),
     [Plain(UDS_SID_DIAGNOSTIC_SESSION_CONTROL, 3) EXCEPT !.len = 1],
     Plain(UDS_SID_ECU_RESET, 131), Plain(UDS_SID_ECU_RESET, 4),
     [Plain(UDS_SID_ECU_RESET, 1) EXCEPT !.len = 3],
     ClearDtc(FALSE), [ClearDtc(TRUE) EXCEPT !.len = 3],
     ReadDtc(2, {DTC_STATUS_CONFIRMED}), ReadDtc(130, {DTC_STATUS_PENDING}), ReadDtc(1, {}),
     [ReadDtc(2, {}) EXCEPT !.len = 2], [ReadDtc(2, {}) EXCEPT !.len = 1],
     Read("F190 VIN"), Read("F18C serial"), Read("F200 owner"), Read("none"),
     [Read("F190 VIN") EXCEPT !.len = 5],
     Plain(UDS_SID_SECURITY_ACCESS, 129), Plain(UDS_SID_SECURITY_ACCESS, 3),
     [Plain(UDS_SID_SECURITY_ACCESS, 1) EXCEPT !.len = 1],
     [Plain(UDS_SID_SECURITY_ACCESS, 1) EXCEPT !.len = 3],
     Plain(UDS_SID_SECURITY_ACCESS, 2), [SendKey(2) EXCEPT !.sub = 0],
     [SendKey(2) EXCEPT !.sub = 130],
     Write("F200 owner", 4 + OWNER_NAME_CAP),
     Write("F200 owner", 3), Write("F190 VIN", 8), Write("none", 8),
     Plain(UDS_SID_TESTER_PRESENT, 1),
     [Plain(UDS_SID_TESTER_PRESENT, 0) EXCEPT !.len = 1],
     Plain("85 ControlDTCSetting", 1)}
=============================================================================
