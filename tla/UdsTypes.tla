------------------------------ MODULE UdsTypes ------------------------------
(***************************************************************************)
(* The vocabulary of include/uds_types.h: service identifiers, diagnostic  *)
(* sessions and negative response codes.  Session numbers keep their       *)
(* values, because a request's sub-function byte becomes the session;      *)
(* service identifiers and NRCs are only ever compared, so names do.       *)
(***************************************************************************)
EXTENDS Naturals

UDS_SESSION_DEFAULT     == 1
UDS_SESSION_PROGRAMMING == 2
UDS_SESSION_EXTENDED    == 3

Sessions == {UDS_SESSION_DEFAULT, UDS_SESSION_PROGRAMMING, UDS_SESSION_EXTENDED}

UDS_SID_DIAGNOSTIC_SESSION_CONTROL == "10 DiagnosticSessionControl"
UDS_SID_ECU_RESET                  == "11 ECUReset"
UDS_SID_CLEAR_DTC                  == "14 ClearDiagnosticInformation"
UDS_SID_READ_DTC                   == "19 ReadDTCInformation"
UDS_SID_READ_DATA_BY_IDENTIFIER    == "22 ReadDataByIdentifier"
UDS_SID_SECURITY_ACCESS            == "27 SecurityAccess"
UDS_SID_WRITE_DATA_BY_IDENTIFIER   == "2E WriteDataByIdentifier"
UDS_SID_TESTER_PRESENT             == "3E TesterPresent"

UDS_NRC_SERVICE_NOT_SUPPORTED            == "11"
UDS_NRC_SUB_FUNCTION_NOT_SUPPORTED       == "12"
UDS_NRC_INCORRECT_MESSAGE_LENGTH         == "13"
UDS_NRC_RESPONSE_TOO_LONG                == "14"
UDS_NRC_CONDITIONS_NOT_CORRECT           == "22"
UDS_NRC_REQUEST_SEQUENCE_ERROR           == "24"
UDS_NRC_REQUEST_OUT_OF_RANGE             == "31"
UDS_NRC_SECURITY_ACCESS_DENIED           == "33"
UDS_NRC_INVALID_KEY                      == "35"
UDS_NRC_EXCEEDED_NUMBER_OF_ATTEMPTS      == "36"
UDS_NRC_REQUIRED_TIME_DELAY_NOT_EXPIRED  == "37"
UDS_NRC_SERVICE_NOT_SUPPORTED_IN_SESSION == "7F"

\* "No NRC": the positive case.
NO_NRC == "none"

NRCs == {UDS_NRC_SERVICE_NOT_SUPPORTED, UDS_NRC_SUB_FUNCTION_NOT_SUPPORTED,
         UDS_NRC_INCORRECT_MESSAGE_LENGTH, UDS_NRC_RESPONSE_TOO_LONG,
         UDS_NRC_CONDITIONS_NOT_CORRECT, UDS_NRC_REQUEST_SEQUENCE_ERROR,
         UDS_NRC_REQUEST_OUT_OF_RANGE, UDS_NRC_SECURITY_ACCESS_DENIED,
         UDS_NRC_INVALID_KEY, UDS_NRC_EXCEEDED_NUMBER_OF_ATTEMPTS,
         UDS_NRC_REQUIRED_TIME_DELAY_NOT_EXPIRED,
         UDS_NRC_SERVICE_NOT_SUPPORTED_IN_SESSION}
=============================================================================
