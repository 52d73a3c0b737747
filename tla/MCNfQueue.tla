------------------------------ MODULE MCNfQueue ------------------------------
(* Echo messages behind a valid IP header of two words: bodies of even and  *)
(* odd length, empty, of zeros, of the largest bytes and of bytes that all  *)
(* differ, and one that does not fit the buffer.                            *)
EXTENDS NfQueue

Ip == <<1, 2, 2, 1>>
Bodies == {<<>>, <<3>>, <<0, 0>>, <<1, 2>>, <<1, 2, 3>>, <<3, 3, 3>>, <<0, 1, 2, 3>>}
Echoes == {Ip \o <<t, 0, 1, 3>> \o b : t \in {0, 2}, b \in Bodies}
=============================================================================
