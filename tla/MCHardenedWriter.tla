--------------------------- MODULE MCHardenedWriter ---------------------------
(* HardenedWriter for TLC: batches of two and three writes, to distinct      *)
(* addresses and to one address twice.                                       *)
EXTENDS HardenedWriter

CONSTANTS a, b, d, x, y

SomeBatches == {<<<<a, x>>, <<b, x>>>>, <<<<a, y>>, <<a, x>>, <<b, y>>>>, <<<<a, y>>, <<b, y>>, <<d, x>>>>}

=============================================================================
