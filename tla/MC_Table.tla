------------------------------ MODULE MC_Table ------------------------------
(***************************************************************************)
(* Small instances of Table for TLC: two keys, the empty key, two values,  *)
(* two field names.                                                        *)
(***************************************************************************)
EXTENDS Table, TLC

CONSTANTS k1, k2, kEmpty, v1, v2, fId, fAttr

MCKeys == {k1, k2}
MCVals == {v1, v2}
MCFieldNames == {fId, fAttr}

=============================================================================
