--------------------- MODULE RTInvertedListsViewProofs ---------------------
(***************************************************************************)
(* Proofs about scan_one_list against the writers of its bucket: a scan    *)
(* reads only written entries unless the bucket was shorter than          *)
(* list_size at some instant between list_size and the scan, for every     *)
(* sequence of vids, every initial capacity and every bound.               *)
(*                                                                         *)
(* ScanReadsWritten alone is not inductive: it speaks of the scan once it  *)
(* is over, and says nothing of the arrays the reader holds meanwhile.     *)
(* RInv adds that while the reader is between list_size and the scan the   *)
(* bucket's content is among what it has seen (so the current length was  *)
(* at least list_size if the bucket never fell below it), and that the     *)
(* arrays get_codes and get_ids returned hold list_size written entries.   *)
(* A writer either leaves an array alone or is appending in place to the  *)
(* current one, which then holds exactly len entries: WriterShape.         *)
(***************************************************************************)
EXTENDS RTInvertedListsView, SequenceTheorems, TLAPS

ArrayRec == [ids : Seq(Nat), codes : Seq(Nat), cap : Nat]

RTypeOK ==
    /\ arrays \in Seq(ArrayRec)
    /\ cur \in 1 .. Len(arrays)
    /\ len \in Nat
    /\ len <= Len(arrays[cur].ids) /\ len <= Len(arrays[cur].codes)
    /\ added \in 0 .. Len(Vids)
    /\ rpc \in {"idle", "codes", "ids", "scan"}
    /\ n \in Nat
    /\ codesAt \in 1 .. Len(arrays) /\ idsAt \in 1 .. Len(arrays)

(* The bucket was never shorter than list_size since the reader read it. *)
Fresh == \A s \in seen : Len(s) >= n

RInv ==
    /\ RTypeOK
    /\ rpc # "idle" => Content \in seen
    /\ rpc \in {"ids", "scan"} /\ Fresh => n <= Len(arrays[codesAt].codes)
    /\ rpc = "scan" /\ Fresh => n <= Len(arrays[idsAt].ids)
    /\ ScanReadsWritten

(* What a writer step does to the arrays: the arrays it leaves changed are *)
(* the current ones, holding exactly the bucket's new length.              *)
WriterShape ==
    /\ arrays' \in Seq(ArrayRec)
    /\ Len(arrays) <= Len(arrays')
    /\ cur' \in 1 .. Len(arrays')
    /\ len' \in Nat
    /\ len' <= Len(arrays'[cur'].ids) /\ len' <= Len(arrays'[cur'].codes)
    /\ added' \in 0 .. Len(Vids)
    /\ \A a \in 1 .. Len(arrays) :
          \/ arrays'[a] = arrays[a]
          \/ a = cur' /\ Len(arrays'[a].ids) = len' /\ Len(arrays'[a].codes) = len'

-----------------------------------------------------------------------------
(* The arrays AddKeys writes: the first len entries, then the new one. *)
LEMMA AppendPrefix ==
    ASSUME NEW s \in Seq(Nat), NEW k \in 0 .. Len(s), NEW v \in Nat
    PROVE  /\ Append(SubSeq(s, 1, k), v) \in Seq(Nat)
           /\ Len(Append(SubSeq(s, 1, k), v)) = k + 1
           /\ \A p \in 1 .. k : Append(SubSeq(s, 1, k), v)[p] = s[p]
           /\ Append(SubSeq(s, 1, k), v)[k + 1] = v
<1>1. \A i \in 1 .. k : s[i] \in Nat
  BY ElementOfSeq
<1>2. /\ SubSeq(s, 1, k) \in Seq(Nat)
      /\ Len(SubSeq(s, 1, k)) = k
      /\ \A i \in 1 .. k : SubSeq(s, 1, k)[i] = s[i]
  BY <1>1, SubSeqProperties
<1> QED BY <1>2, AppendProperties

(* A function on 1 .. k is a sequence of length k. *)
LEMMA FcnSeq ==
    ASSUME NEW S, NEW k \in Nat, NEW g \in [1 .. k -> S]
    PROVE  g \in Seq(S) /\ Len(g) = k
<1>1. g \in UNION {[1 .. i -> S] : i \in Nat}
  OBVIOUS
<1>2. g \in Seq(S)
  BY <1>1, SeqDef, Zenon
<1>3. DOMAIN g = 1 .. Len(g) /\ Len(g) \in Nat
  BY <1>2, LenProperties
<1> QED BY <1>2, <1>3

(* A function written as [j \in 1 .. k |-> ...] is a sequence of length k. *)
LEMMA FcnLen ==
    ASSUME NEW k \in Nat, NEW g, g = [j \in 1 .. k |-> g[j]]
    PROVE  Len(g) = k
<1>1. g \in [1 .. k -> {g[j] : j \in 1 .. k}]
  OBVIOUS
<1> QED BY <1>1, FcnSeq

LEMMA InitRInv == Init => RInv
<1> SUFFICES ASSUME Init PROVE RInv
  OBVIOUS
<1>1. [ids |-> << >>, codes |-> << >>, cap |-> InitCap] \in ArrayRec
  BY EmptySeq, ViewAssumption DEF ArrayRec
<1>2. Len(Vids) \in Nat
  BY ViewAssumption, LenProperties
<1>3. RTypeOK
  BY <1>1, <1>2, ViewAssumption DEF Init, RTypeOK
<1> QED BY <1>3 DEF Init, RInv, ScanReadsWritten

(* The reader's state is untouched by a writer; arrays it borrowed either *)
(* are untouched, or are the current ones and the bucket's content, which  *)
(* the reader then records, is as long as they are.                        *)
LEMMA WriterStep ==
    ASSUME RInv, WriterShape, UNCHANGED readerVars, Observe
    PROVE  RInv'
<1>0. /\ rpc' = rpc /\ n' = n /\ codesAt' = codesAt /\ idsAt' = idsAt
      /\ scanned' = scanned
  BY DEF readerVars
<1>1. RTypeOK'
  BY <1>0 DEF RInv, RTypeOK, WriterShape
<1>2. seen' = IF rpc = "idle" THEN seen ELSE seen \cup {Content'}
  BY <1>0 DEF Observe
<1>3. Fresh' => Fresh
  BY <1>0, <1>2 DEF Fresh
<1>4. rpc # "idle" /\ Fresh' => n <= len'
  <2> SUFFICES ASSUME rpc # "idle", Fresh' PROVE n <= len'
    OBVIOUS
  <2>1. Content' \in seen'
    BY <1>2
  <2>2. Len(Content') = len'
    <3>1. len' \in Nat
      BY DEF WriterShape
    <3>2. Content' = [j \in 1 .. len' |-> Content'[j]]
      BY DEF Content
    <3> QED BY <3>1, <3>2, FcnLen
  <2> QED BY <1>0, <2>1, <2>2 DEF Fresh
<1>5. (rpc \in {"ids", "scan"} /\ Fresh => n <= Len(arrays[codesAt].codes))'
  <2> SUFFICES ASSUME rpc \in {"ids", "scan"}, Fresh'
               PROVE  n <= Len(arrays'[codesAt].codes)
    BY <1>0
  <2>1. codesAt \in 1 .. Len(arrays)
    BY DEF RInv, RTypeOK
  <2>2. CASE arrays'[codesAt] = arrays[codesAt]
    BY <1>3, <2>2 DEF RInv
  <2>3. CASE Len(arrays'[codesAt].codes) = len'
    BY <1>4, <2>3
  <2> QED BY <2>1, <2>2, <2>3 DEF WriterShape
<1>6. (rpc = "scan" /\ Fresh => n <= Len(arrays[idsAt].ids))'
  <2> SUFFICES ASSUME rpc = "scan", Fresh'
               PROVE  n <= Len(arrays'[idsAt].ids)
    BY <1>0
  <2>1. idsAt \in 1 .. Len(arrays)
    BY DEF RInv, RTypeOK
  <2>2. CASE arrays'[idsAt] = arrays[idsAt]
    BY <1>3, <2>2 DEF RInv
  <2>3. CASE Len(arrays'[idsAt].ids) = len'
    BY <1>4, <2>3
  <2> QED BY <2>1, <2>2, <2>3 DEF WriterShape
<1>7. (rpc # "idle" => Content \in seen)'
  BY <1>0, <1>2
<1>8. ScanReadsWritten'
  BY <1>0, <1>2 DEF RInv, ScanReadsWritten, Fresh
<1> QED BY <1>1, <1>5, <1>6, <1>7, <1>8 DEF RInv

(* AddKeys writes the next vid at position len + 1 after the first len    *)
(* entries: in place, where the arrays now hold len + 1 entries, or into   *)
(* larger arrays appended to the ones ever allocated.                      *)
LEMMA AddKeysShape ==
    ASSUME RTypeOK, AddKeys
    PROVE  WriterShape
<1> DEFINE v == Vids[added + 1]
<1> DEFINE a == arrays[cur]
<1> DEFINE nids == Append(SubSeq(a.ids, 1, len), v)
<1> DEFINE ncodes == Append(SubSeq(a.codes, 1, len), v)
<1>0. added < Len(Vids) /\ added' = added + 1 /\ len' = len + 1
  BY DEF AddKeys
<1>1. Len(Vids) \in Nat /\ added \in Nat /\ v \in Nat /\ len \in Nat
  BY <1>0, ViewAssumption, ElementOfSeq, LenProperties DEF RTypeOK
<1>2. a \in ArrayRec
  BY ElementOfSeq DEF RTypeOK
<1>3. /\ a.ids \in Seq(Nat) /\ len \in 0 .. Len(a.ids)
      /\ a.codes \in Seq(Nat) /\ len \in 0 .. Len(a.codes)
      /\ a.cap \in Nat
  <2>1. a.ids \in Seq(Nat) /\ a.codes \in Seq(Nat) /\ a.cap \in Nat
    BY <1>2 DEF ArrayRec
  <2>2. len <= Len(a.ids) /\ len <= Len(a.codes)
    BY DEF RTypeOK
  <2> QED BY <1>1, <2>1, <2>2, LenProperties
<1>4. /\ nids \in Seq(Nat) /\ Len(nids) = len + 1
      /\ ncodes \in Seq(Nat) /\ Len(ncodes) = len + 1
  BY <1>1, <1>3, AppendPrefix
<1>5. added' \in 0 .. Len(Vids) /\ len' \in Nat
  BY <1>0, <1>1
<1>6. CASE len < a.cap
  <2> DEFINE rec == [ids |-> nids, codes |-> ncodes, cap |-> a.cap]
  <2>1. arrays' = [arrays EXCEPT ![cur] = rec] /\ cur' = cur
    BY <1>2, <1>6 DEF AddKeys, ArrayRec
  <2>2. rec \in ArrayRec
    BY <1>3, <1>4 DEF ArrayRec
  <2>3. arrays' \in Seq(ArrayRec) /\ Len(arrays') = Len(arrays)
    BY <2>1, <2>2, ExceptSeq DEF RTypeOK
  <2>4. arrays'[cur] = rec
    <3>1. cur \in DOMAIN arrays
      BY LenProperties DEF RTypeOK
    <3> QED BY <2>1, <3>1
  <2>5. \A b \in 1 .. Len(arrays) : b # cur => arrays'[b] = arrays[b]
    BY <2>1
  <2> QED BY <1>0, <1>4, <1>5, <2>1, <2>3, <2>4, <2>5 DEF RTypeOK, WriterShape
<1>7. CASE ~(len < a.cap)
  <2> DEFINE rec == [ids |-> nids, codes |-> ncodes, cap |-> 2 * a.cap]
  <2>1. arrays' = Append(arrays, rec) /\ cur' = Len(arrays) + 1
    BY <1>7 DEF AddKeys
  <2>2. rec \in ArrayRec
    BY <1>3, <1>4 DEF ArrayRec
  <2>3. /\ arrays' \in Seq(ArrayRec) /\ Len(arrays') = Len(arrays) + 1
        /\ arrays'[Len(arrays) + 1] = rec
        /\ \A b \in 1 .. Len(arrays) : arrays'[b] = arrays[b]
    BY <2>1, <2>2, AppendProperties DEF RTypeOK
  <2>4. Len(arrays) \in Nat
    BY LenProperties DEF RTypeOK
  <2> QED BY <1>0, <1>4, <1>5, <2>1, <2>3, <2>4 DEF WriterShape
<1> QED BY <1>6, <1>7

(* CompactBucket appends new arrays holding the m live entries and leaves *)
(* every array allocated before untouched.                                 *)
LEMMA CompactBucketShape ==
    ASSUME RTypeOK, CompactBucket
    PROVE  WriterShape
<1>1. PICK m \in 0 .. len - 1 :
        \E f \in [1 .. m -> 1 .. len] :
          /\ Enumerates(f, LivePos)
          /\ arrays' = Append(arrays, [ids |-> [j \in 1 .. m |-> At(cur, "ids", f[j])],
                                       codes |-> [j \in 1 .. m |-> At(cur, "codes", f[j])],
                                       cap |-> arrays[cur].cap])
          /\ len' = m
  BY DEF CompactBucket
<1>2. PICK f \in [1 .. m -> 1 .. len] :
          /\ arrays' = Append(arrays, [ids |-> [j \in 1 .. m |-> At(cur, "ids", f[j])],
                                       codes |-> [j \in 1 .. m |-> At(cur, "codes", f[j])],
                                       cap |-> arrays[cur].cap])
          /\ len' = m
  BY <1>1
<1> DEFINE nids == [j \in 1 .. m |-> At(cur, "ids", f[j])]
<1> DEFINE ncodes == [j \in 1 .. m |-> At(cur, "codes", f[j])]
<1> DEFINE rec == [ids |-> nids, codes |-> ncodes, cap |-> arrays[cur].cap]
<1>3. cur' = Len(arrays) + 1 /\ added' = added
  BY DEF CompactBucket
<1>4. /\ len \in Nat /\ m \in Nat
      /\ arrays[cur] \in ArrayRec
  BY ElementOfSeq DEF RTypeOK
<1>5. /\ \A j \in 1 .. m : nids[j] = arrays[cur].ids[f[j]]
      /\ \A j \in 1 .. m : ncodes[j] = arrays[cur].codes[f[j]]
  <2> SUFFICES ASSUME NEW j \in 1 .. m
               PROVE  /\ nids[j] = arrays[cur].ids[f[j]]
                      /\ ncodes[j] = arrays[cur].codes[f[j]]
    OBVIOUS
  <2>1. f[j] \in 1 .. len
    BY <1>2
  <2>2. f[j] <= Len(arrays[cur].ids) /\ f[j] <= Len(arrays[cur].codes)
    BY <1>4, <2>1 DEF RTypeOK
  <2> QED BY <2>2 DEF At
<1>6. /\ \A j \in 1 .. m : arrays[cur].ids[f[j]] \in Nat
      /\ \A j \in 1 .. m : arrays[cur].codes[f[j]] \in Nat
  <2>1. arrays[cur].ids \in Seq(Nat) /\ arrays[cur].codes \in Seq(Nat)
    BY <1>4 DEF ArrayRec
  <2>2. /\ \A j \in 1 .. m : f[j] \in 1 .. Len(arrays[cur].ids)
        /\ \A j \in 1 .. m : f[j] \in 1 .. Len(arrays[cur].codes)
    <3>1. \A j \in 1 .. m : f[j] \in 1 .. len
      BY <1>2
    <3>2. len <= Len(arrays[cur].ids) /\ len <= Len(arrays[cur].codes)
      BY DEF RTypeOK
    <3> QED BY <1>4, <3>1, <3>2
  <2> QED BY <2>1, <2>2, ElementOfSeq
<1>7. /\ nids \in Seq(Nat) /\ Len(nids) = m
      /\ ncodes \in Seq(Nat) /\ Len(ncodes) = m
  <2>1. nids \in [1 .. m -> Nat] /\ ncodes \in [1 .. m -> Nat]
    BY <1>5, <1>6
  <2> QED BY <1>4, <2>1, FcnSeq
<1>8. rec \in ArrayRec
  BY <1>4, <1>7 DEF ArrayRec
<1>9. /\ arrays' \in Seq(ArrayRec) /\ Len(arrays') = Len(arrays) + 1
      /\ arrays'[Len(arrays) + 1] = rec
      /\ \A b \in 1 .. Len(arrays) : arrays'[b] = arrays[b]
  <2>1. arrays' = Append(arrays, rec)
    BY <1>2
  <2>2. arrays \in Seq(ArrayRec)
    BY DEF RTypeOK
  <2>3. \A s \in Seq(ArrayRec), r \in ArrayRec :
           /\ Append(s, r) \in Seq(ArrayRec) /\ Len(Append(s, r)) = Len(s) + 1
           /\ Append(s, r)[Len(s) + 1] = r
           /\ \A b \in 1 .. Len(s) : Append(s, r)[b] = s[b]
    BY AppendProperties
  <2> HIDE DEF rec
  <2> QED BY <1>8, <2>1, <2>2, <2>3
<1>10. Len(arrays) \in Nat
  BY LenProperties DEF RTypeOK
<1> QED BY <1>2, <1>3, <1>4, <1>7, <1>9, <1>10 DEF RTypeOK, WriterShape

(* Delete only sets a docid bit: the arrays and the length are untouched. *)
LEMMA DeleteShape ==
    ASSUME RTypeOK, NEW v, Delete(v)
    PROVE  WriterShape
BY DEF Delete, RTypeOK, WriterShape

(* The bucket's content is as long as the bucket. *)
LEMMA ContentLen ==
    ASSUME RTypeOK
    PROVE  Len(Content) = len
<1>1. len \in Nat
  BY DEF RTypeOK
<1>2. Content = [j \in 1 .. len |-> Content[j]]
  BY DEF Content
<1> QED BY <1>1, <1>2, FcnLen

(* list_size starts a scan: the content it read is all the reader has     *)
(* seen, and nothing is scanned yet.                                       *)
LEMMA ListSizeRInv ==
    ASSUME RInv, ListSize
    PROVE  RInv'
<1>1. UNCHANGED writerVars /\ UNCHANGED <<codesAt, idsAt>>
  BY DEF ListSize
<1>2. Content' = Content
  BY <1>1 DEF writerVars, Content, At
<1>3. RTypeOK'
  BY <1>1 DEF ListSize, RInv, RTypeOK, writerVars
<1>4. (rpc # "idle" => Content \in seen)'
  BY <1>2 DEF ListSize
<1>5. rpc' \in {"idle", "codes"} /\ scanned' = {}
  BY DEF ListSize
<1> QED BY <1>3, <1>4, <1>5 DEF RInv, ScanReadsWritten

(* get_codes borrows the current arrays, which hold len entries, and len  *)
(* is at least list_size when the bucket never fell below it.              *)
LEMMA GetCodesRInv ==
    ASSUME RInv, GetCodes
    PROVE  RInv'
<1>1. UNCHANGED writerVars /\ UNCHANGED <<n, idsAt, scanned, seen>>
      /\ codesAt' = cur /\ rpc' = "ids" /\ rpc = "codes"
  BY DEF GetCodes
<1>2. Content' = Content
  BY <1>1 DEF writerVars, Content, At
<1>3. RTypeOK'
  BY <1>1 DEF RInv, RTypeOK, writerVars
<1>4. Fresh => n <= len
  <2>1. Len(Content) = len
    BY ContentLen DEF RInv
  <2>2. Content \in seen
    BY <1>1 DEF RInv
  <2> QED BY <2>1, <2>2 DEF Fresh
<1>5. Fresh' = Fresh
  BY <1>1 DEF Fresh
<1>6. (rpc \in {"ids", "scan"} /\ Fresh => n <= Len(arrays[codesAt].codes))'
  BY <1>1, <1>4, <1>5 DEF RInv, RTypeOK, writerVars
<1> QED BY <1>1, <1>2, <1>3, <1>6 DEF RInv, ScanReadsWritten

(* get_ids borrows the current arrays, as get_codes did. *)
LEMMA GetIdsRInv ==
    ASSUME RInv, GetIds
    PROVE  RInv'
<1>1. UNCHANGED writerVars /\ UNCHANGED <<n, codesAt, scanned, seen>>
      /\ idsAt' = cur /\ rpc' = "scan" /\ rpc = "ids"
  BY DEF GetIds
<1>2. Content' = Content
  BY <1>1 DEF writerVars, Content, At
<1>3. RTypeOK'
  BY <1>1 DEF RInv, RTypeOK, writerVars
<1>4. Fresh => n <= len
  <2>1. Len(Content) = len
    BY ContentLen DEF RInv
  <2>2. Content \in seen
    BY <1>1 DEF RInv
  <2> QED BY <2>1, <2>2 DEF Fresh
<1>5. Fresh' = Fresh
  BY <1>1 DEF Fresh
<1>6. (rpc \in {"ids", "scan"} /\ Fresh => n <= Len(arrays[codesAt].codes))'
  BY <1>1, <1>5 DEF RInv, writerVars
<1>7. (rpc = "scan" /\ Fresh => n <= Len(arrays[idsAt].ids))'
  BY <1>1, <1>4, <1>5 DEF RInv, RTypeOK, writerVars
<1> QED BY <1>1, <1>2, <1>3, <1>6, <1>7 DEF RInv, ScanReadsWritten

(* An entry within an array's written length is a vid, never Garbage. *)
LEMMA WrittenEntry ==
    ASSUME RTypeOK, NEW b \in 1 .. Len(arrays), NEW fld \in {"ids", "codes"},
           NEW j \in 1 .. Len(arrays[b][fld])
    PROVE  At(b, fld, j) # Garbage
<1>1. arrays[b] \in ArrayRec
  BY ElementOfSeq DEF RTypeOK
<1>2. arrays[b][fld] \in Seq(Nat)
  BY <1>1 DEF ArrayRec
<1>3. arrays[b][fld][j] \in Nat
  BY <1>2, ElementOfSeq
<1> QED BY <1>3, ViewAssumption DEF At

(* scan_codes reads list_size entries of the two borrowed arrays, which    *)
(* hold that many written entries when the bucket never fell below it.     *)
LEMMA ScanCodesRInv ==
    ASSUME RInv, ScanCodes
    PROVE  RInv'
<1>1. UNCHANGED writerVars /\ UNCHANGED <<n, codesAt, idsAt, seen>>
      /\ rpc' = "idle" /\ rpc = "scan"
      /\ scanned' = {<<At(idsAt, "ids", j), At(codesAt, "codes", j)>> : j \in 1 .. n}
  BY DEF ScanCodes
<1>2. RTypeOK'
  BY <1>1 DEF RInv, RTypeOK, writerVars
<1>3. ScanReadsWritten'
  <2>1. ASSUME Fresh
        PROVE  \A j \in 1 .. n : /\ At(idsAt, "ids", j) # Garbage
                                /\ At(codesAt, "codes", j) # Garbage
    <3> SUFFICES ASSUME NEW j \in 1 .. n
                 PROVE  /\ At(idsAt, "ids", j) # Garbage
                        /\ At(codesAt, "codes", j) # Garbage
      OBVIOUS
    <3>1. n <= Len(arrays[codesAt].codes) /\ n <= Len(arrays[idsAt].ids)
      BY <1>1, <2>1 DEF RInv
    <3>2. idsAt \in 1 .. Len(arrays) /\ codesAt \in 1 .. Len(arrays) /\ n \in Nat
      BY DEF RInv, RTypeOK
    <3> QED BY <3>1, <3>2, WrittenEntry DEF RInv
  <2> QED BY <1>1, <2>1 DEF ScanReadsWritten, Fresh
<1> QED BY <1>1, <1>2, <1>3 DEF RInv

LEMMA NextRInv == RInv /\ [Next]_vars => RInv'
<1> SUFFICES ASSUME RInv, [Next]_vars PROVE RInv'
  OBVIOUS
<1>0. RTypeOK
  BY DEF RInv
<1>1. CASE AddKeys
  BY <1>0, <1>1, AddKeysShape, WriterStep DEF AddKeys
<1>2. CASE CompactBucket
  BY <1>0, <1>2, CompactBucketShape, WriterStep DEF CompactBucket
<1>3. CASE \E v \in Range(Vids) : Delete(v)
  BY <1>0, <1>3, DeleteShape, WriterStep DEF Delete
<1>4. CASE ListSize
  BY <1>4, ListSizeRInv
<1>5. CASE GetCodes
  BY <1>5, GetCodesRInv
<1>6. CASE GetIds
  BY <1>6, GetIdsRInv
<1>7. CASE ScanCodes
  BY <1>7, ScanCodesRInv
<1>8. CASE UNCHANGED vars
  BY <1>8 DEF vars, RInv, RTypeOK, Fresh, ScanReadsWritten, Content, At
<1> QED BY <1>1, <1>2, <1>3, <1>4, <1>5, <1>6, <1>7, <1>8 DEF Next

-----------------------------------------------------------------------------
(* The inductive invariant holds in every reachable state: the arrays the *)
(* reader borrowed hold list_size written entries whenever the bucket was *)
(* never shorter than list_size since it was read.                         *)
THEOREM RInvInvariant == Spec => []RInv
BY InitRInv, NextRInv, PTL DEF Spec

(* scan_one_list's three separate borrows read only written entries        *)
(* whenever the bucket stayed at least list_size long until the scan,      *)
(* however AddKeys' in-place appends and reallocations, deletes and        *)
(* compactions interleave with them: the invariant the view_append_scan    *)
(* run checks, for every sequence of vids, every initial capacity and      *)
(* every bound.                                                            *)
THEOREM ScanReadsWrittenInvariant == Spec => []ScanReadsWritten
BY RInvInvariant, PTL DEF RInv


=============================================================================
