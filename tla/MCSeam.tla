--------------------------------- MODULE MCSeam ---------------------------------
(* Seam with the numbers of MCConversion, an unsigned number on either side of  *)
(* every boundary, and the ends of each hundred of codes.                       *)
EXTENDS Seam, MCConversion

MCIdents == (0..70) \cup (250..261) \cup {383, 384, 508, 509, 510, 511}

MCCodes == {100, 101, 199, 200, 299, 300, 302, 399, 400, 499, 500, 502, 599, 600, 899, 900, 999}
=============================================================================
