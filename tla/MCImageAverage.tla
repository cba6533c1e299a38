--------------------------- MODULE MCImageAverage ---------------------------
(***************************************************************************)
(* average_images over every list of up to three files drawn from: a dark *)
(* and a bright two-pixel image with names the set pattern matches, and   *)
(* one name it does not match.                                             *)
(***************************************************************************)
EXTENDS ImageAverage

File(m, p) == [matches |-> m, px |-> p]

MCFiles == {File(TRUE, <<10, 200>>), File(TRUE, <<255, 0>>), File(FALSE, <<1, 1>>)}

\* Lists of length 0..3 over MCFiles.
MCBatches == UNION {[1..n -> MCFiles] : n \in 0..3}
=============================================================================
