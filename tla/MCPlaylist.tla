----------------------------- MODULE MCPlaylist -----------------------------
(* A playlist of two USB items and a codec item: a start scheduled on the  *)
(* stream, a gap that ends at an index and one that ends in ticks.         *)
EXTENDS Playlist

Item(r, g, n) == [route |-> r, gap |-> g, len |-> n]
MCLists == {<<Item("usb", 2, 1), Item("usb", 1, 1), Item("codec", 1, 1)>>}
MCLate == {<<Item("usb", 2, 1), Item("usb", 1, 1)>>}
=============================================================================
