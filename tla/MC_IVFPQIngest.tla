--------------------------- MODULE MC_IVFPQIngest ---------------------------
(***************************************************************************)
(* Small instances of IVFPQIngest for TLC.  Vectors and codes are model    *)
(* values; the quantizer and the encoder are given as tables.              *)
(***************************************************************************)
EXTENDS IVFPQIngest, TLC

CONSTANTS x0, x1, x2, c0, c1, c2

(* Two vectors, each assigned to a bucket of its own, each with its code. *)
MCVals == {x1, x2}
MCCodes == {c1, c2}
MCAssign == (x1 :> 0) @@ (x2 :> 1)
MCEncode == [p \in MCVals \X (Lists \cup {NoList}) |-> IF p[1] = x1 THEN c1 ELSE c2]

(* The same with a third vector x0 that the quantizer cannot assign (-1). *)
MCValsIgnored == {x0, x1, x2}
MCCodesIgnored == {c0, c1, c2}
MCAssignIgnored == (x0 :> -1) @@ (x1 :> 0) @@ (x2 :> 1)
MCEncodeIgnored ==
    [p \in MCValsIgnored \X (Lists \cup {NoList}) |->
        CASE p[1] = x0 -> c0 [] p[1] = x1 -> c1 [] OTHER -> c2]

=============================================================================
