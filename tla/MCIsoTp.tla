------------------------------- MODULE MCIsoTp -------------------------------
(***************************************************************************)
(* IsoTp for TLC: messages of one frame, of three and of six, and one a    *)
(* byte longer than the receiver's buffer.  Either frames are lost or      *)
(* transfers are disturbed.                                                *)
(***************************************************************************)
EXTENDS IsoTp

MCLength(m) == CASE m = "single" -> 5
                 [] m = "three"  -> 14
                 [] m = "six"    -> 41
                 [] m = "long"   -> 42

MCBudgets == {<<3, 0>>, <<0, 3>>}
=============================================================================
