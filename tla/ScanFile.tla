------------------------------ MODULE ScanFile ------------------------------
(***************************************************************************)
(* scanFile (scan.go) from opening a file to its record in the report: the *)
(* bounded read of ScannableRead, which other processes may disturb, then  *)
(* the text of ScanText.  What magic calls text may be in any encoding it  *)
(* knows; magic.Detect looks at the whole of the data unless the probe was *)
(* text and the rest is not, so UTF-16 may be malformed beyond the probe.  *)
(***************************************************************************)
EXTENDS ScannableRead, ScanText

fvars == <<vars, tvars>>

Gone == [size |-> 0, binary |-> 0, invalid |-> 0, fails |-> 0, missing |-> FALSE]

FInit ==
    /\ Init
    /\ content = [encoding |-> "utf-8", units |-> <<>>, odd |-> FALSE]
    /\ path = (CHOOSE p \in Paths : TRUE) /\ legal = FALSE
    /\ position = 0 /\ text = <<>> /\ offsets = <<>> /\ base = 0
    /\ found = NoResult /\ result = NoResult
    /\ coverage = 0 /\ checksum = FALSE /\ record = Unlisted
    /\ stage = "read"

ReadFile ==
    /\ stage = "read"
    /\ Open \/ ProbeKind \/ Reserve \/ ReadRest \/ Write
    /\ UNCHANGED tvars

(* decodeText's choice: data of unknown kind, which is invalid text, is    *)
(* Latin-1, other text what magic says.                                    *)
Encoded(v) == IF v = "unknown" THEN {"latin-1"} ELSE Encodings \ {"latin-1"}

ReadAs == [v \in {"text", "unknown"}, n \in 0..MaxInt |->
              {c \in Contents : RawLength(c) = n /\ c.encoding \in Encoded(v)}]

Readable == ReadAs[verdict, data]

(* readScannableFile returns the data and its kind; its variables are gone. *)
Returned ==
    /\ stage = "read" /\ pc = "done" /\ verdict \in {"text", "unknown"}
    /\ stage' = "returned"
    /\ original' = Gone /\ maximum' = 0 /\ size' = 0 /\ writes' = 0
    /\ pc' = "open" /\ reserved' = 0 /\ prefixKind' = "none"
    /\ UNCHANGED <<data, verdict, path, legal, content, decoded, found, result,
                   coverage, checksum, record>>

(* Which of the texts of that length and kind it is.                       *)
Identify ==
    /\ stage = "returned"
    /\ content' \in Readable
    /\ stage' = "decode"
    /\ data' = 0 /\ verdict' = "none"
    /\ UNCHANGED <<original, maximum, size, writes, pc, reserved,
                   prefixKind, path, legal, decoded, found, result, coverage,
                   checksum, record>>

ScanTheText == TNext /\ UNCHANGED vars

Over ==
    /\ \/ stage \in {"done", "error"}
       \/ stage = "read" /\ pc = "done" /\ verdict \notin {"text", "unknown"}
       \/ stage = "returned" /\ Readable = {}
    /\ UNCHANGED fvars

FNext == ReadFile \/ Returned \/ Identify \/ ScanTheText \/ Over

FSpec == FInit /\ [][FNext]_fvars
=============================================================================
