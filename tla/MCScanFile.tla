----------------------------- MODULE MCScanFile -----------------------------
(* Files of up to twelve bytes read with integers up to 15 and a probe of  *)
(* three bytes, the files and limits around each of those boundaries; then *)
(* small texts in every encoding and small documents of two or three lines *)
EXTENDS ScanFile

LOCAL INSTANCE SequencesExt

MCFiles ==
    [size : 0..6, binary : {0, 2, 4, 5}, invalid : {0, 1, 4}, fails : {0, 2, 5},
     missing : {FALSE}]
    \cup [size : 7..12, binary : {0}, invalid : {0, 1}, fails : {0},
          missing : {FALSE}]
    \cup {[size |-> 0, binary |-> 0, invalid |-> 0, fails |-> 0,
           missing |-> TRUE]}

FileSize == 0..6
MCMaxima == {0, 1, 2, 3, 4, 5, 6, MaxInt - 1}

In(encoding, units) == [encoding |-> encoding, units |-> units, odd |-> FALSE]

Lines == {<<>>, <<"a">>, <<"hash">>, <<"hash", "sp", "a">>, <<"star", "sp", "a">>,
          <<"star", "a">>, <<"bar", "a">>, <<"a", "bar">>, <<"sp", "a">>}
FewLines == {<<>>, <<"a">>, <<"hash">>, <<"hash", "a">>}
Documents == {a \o <<"nl">> \o b : a \in Lines, b \in Lines}
FewDocuments == {a \o <<"nl">> \o b : a \in FewLines, b \in FewLines}
LongDocuments == {a \o <<"nl">> \o b : a \in FewDocuments, b \in FewLines}

MCContents ==
    {[encoding |-> "utf-16", units |-> u, odd |-> o] :
        u \in BoundedSeq({"a", "high", "low"}, 4) \cup BoundedSeq({"k", "high"}, 3),
        o \in BOOLEAN}
    \cup {c \in {In("latin-1", u) : u \in BoundedSeq({"a", "e", "nl"}, 4)} :
              "e" \in ToSet(c.units)}
    \cup {In("utf-8", d) : d \in Documents \cup LongDocuments}
    \cup {In("utf-8-bom", d) : d \in FewDocuments}
    \cup {In("utf-16", d) : d \in {x \in FewDocuments : Len(x) < 6}}

Named(stem, tail) == [stem |-> stem, tail |-> tail]
At(directories, name, ext, readme) ==
    [directories |-> directories, base |-> name, ext |-> ext, readme |-> readme]

MCPaths ==
    {At(<<>>, Named("other", "none"), "md", FALSE),
     At(<<>>, Named("other", "none"), "other", FALSE),
     At(<<Named("license", "letter")>>, Named("copying", "letter"), "other", TRUE),
     At(<<Named("license", "none")>>, Named("other", "none"), "md", FALSE),
     At(<<Named("other", "none")>>, Named("notice", "separator"), "md", FALSE)}

Finds(detection, kind) == [detection |-> detection, kind |-> kind]

MCPlans ==
    {<<>>, <<Finds(1, "reference")>>,
     <<Finds(1, "reference"), Finds(2, "text")>>,
     <<Finds(1, "text"), Finds(1, "reference")>>,
     <<Finds(1, "text"), Finds(0, "text")>>,
     <<Finds(1, "reference"), Finds(0, "reference"), Finds(2, "text")>>}
=============================================================================
