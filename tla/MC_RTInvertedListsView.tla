------------------------ MODULE MC_RTInvertedListsView ------------------------
(* Three vids added to one bucket whose first arrays hold two, so the third *)
(* AddKeys reallocates; the reader runs two scans.                          *)
EXTENDS RTInvertedListsView

CONSTANT NoEntry

MCVids == <<0, 1, 2>>
=============================================================================
