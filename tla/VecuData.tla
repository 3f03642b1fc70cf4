------------------------------ MODULE VecuData ------------------------------
(***************************************************************************)
(* The data the ECU serves: the DID table (src/did_table.c, registered in  *)
(* vecu_init of src/vecu.c), the owner name behind DID 0xF200 (src/vecu.c) *)
(* and the trouble codes (src/dtc_mem.c).                                  *)
(*                                                                         *)
(* DIDs and DTCs are named, not numbered; a payload is known by its length *)
(* (what the handlers compare with the buffer) and an owner name also by   *)
(* its identity.  A status byte is the set of its bits.                    *)
(***************************************************************************)
EXTENDS Naturals, FiniteSets

CONSTANTS
    OWNER_NAME_CAP,   \* size of the owner-name buffer (32)
    OwnerNames        \* the names testers write

ASSUME VecuDataAssumption == OWNER_NAME_CAP \in Nat /\ OWNER_NAME_CAP >= 9

-----------------------------------------------------------------------------
(* DTC memory. *)

DTC_STATUS_TEST_FAILED                  == "testFailed"
DTC_STATUS_PENDING                      == "pendingDTC"
DTC_STATUS_CONFIRMED                    == "confirmedDTC"
DTC_STATUS_TEST_FAILED_SINCE_LAST_CLEAR == "testFailedSinceLastClear"

StatusBits == {DTC_STATUS_TEST_FAILED, DTC_STATUS_PENDING, DTC_STATUS_CONFIRMED,
               DTC_STATUS_TEST_FAILED_SINCE_LAST_CLEAR}

\* The two codes that vecu_init stores (DTC_MAX is never reached).
DtcsAtBoot ==
    LET failed == {DTC_STATUS_TEST_FAILED, DTC_STATUS_CONFIRMED,
                   DTC_STATUS_TEST_FAILED_SINCE_LAST_CLEAR}
    IN  {[dtc |-> "P0301", status |-> failed], [dtc |-> "P0420", status |-> failed]}

dtc_mem_clear_all(dtcs) == {}

dtc_mem_snapshot_by_mask(dtcs, mask) == {d \in dtcs : d.status \cap mask # {}}

-----------------------------------------------------------------------------
(* Owner name. *)

OwnerAtBoot == [name |-> "ANONYMOUS", len |-> 9]

MutantOwnerCapOffByOne(len) == len # 0 /\ len <= OWNER_NAME_CAP + 1

\* owner_write accepts what fits the buffer and is not empty.
owner_write_ok(len) == len # 0 /\ len <= OWNER_NAME_CAP

-----------------------------------------------------------------------------
(* DID table. *)

DIDs == {"F190 VIN", "F18C serial", "F187 spare part",
         "010C rpm", "010D speed", "0105 coolant", "F200 owner"}

\* The entries vecu_init registers.  `len' is static_len, or the number of
\* bytes the read callback delivers; the owner's depends on the name.
did_table ==
    [d \in DIDs |->
        [len |-> CASE d = "F190 VIN"        -> 17
                   [] d = "F18C serial"     -> 12
                   [] d = "F187 spare part" -> 8
                   [] d = "010C rpm"        -> 2
                   [] OTHER                 -> 1,
         write                     |-> d = "F200 owner",
         requires_security         |-> d = "F200 owner",
         requires_extended_session |-> d = "F200 owner"]]

\* did_table_lookup finds an entry.
did_known(did) == did \in DIDs

\* What h_read_did copies: the static data or the read callback's answer.
did_payload_len(did, owner) ==
    IF did = "F200 owner" THEN owner.len ELSE did_table[did].len
=============================================================================
