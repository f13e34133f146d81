-------------------------- MODULE MCScannableRead --------------------------
(* Files of up to six bytes read with integers up to 7 and a probe of three*)
(* bytes; the files and limits around each of those boundaries.            *)
EXTENDS ScannableRead

MCFiles == [size : 0..6, binary : {0, 2, 4, 5}, invalid : {0, 1, 4},
            fails : {0, 2, 5}, missing : BOOLEAN]

FileSize == 0..6
BelowMaxInt == 0..(MaxInt - 1)
OnlyMaxInt == {MaxInt}
=============================================================================
