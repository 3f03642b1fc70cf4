---------------------------- MODULE UdsRequests ----------------------------
(***************************************************************************)
(* The requests testers build, as the records the handlers of Vecu decode. *)
(* What the fields of a request do not use is left blank.                  *)
(***************************************************************************)
EXTENDS Vecu

Blank == [NoRequest EXCEPT !.name = CHOOSE n \in OwnerNames : TRUE]

\* <<sid, sub>> with the length of a well-formed request
Plain(sid, sub) == [Blank EXCEPT !.sid = sid, !.len = 2, !.sub = sub]

SendKey(key) == [Plain(UDS_SID_SECURITY_ACCESS, 2) EXCEPT !.len = 6, !.key = key]

Write(did, len) ==
    [Blank EXCEPT !.sid = UDS_SID_WRITE_DATA_BY_IDENTIFIER, !.len = len, !.did = did]

Read(did) == [Blank EXCEPT !.sid = UDS_SID_READ_DATA_BY_IDENTIFIER, !.len = 3, !.did = did]

ReadDtc(sub, mask) == [Blank EXCEPT !.sid = UDS_SID_READ_DTC, !.len = 3, !.sub = sub, !.mask = mask]

ClearDtc(all) == [Blank EXCEPT !.sid = UDS_SID_CLEAR_DTC, !.len = 4, !.all = all]
=============================================================================
