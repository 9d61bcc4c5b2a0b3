----------------------------- MODULE MCSpanMerge ----------------------------
(* A kind of each layer, two that agree on a type, a checksum that fails,  *)
(* the ACCOUNT pattern beside the CARD pattern, and an RRN whose mask is   *)
(* longer than its value.                                                  *)
EXTENDS SpanMerge

Kind(type, source, conf, rank, digits, grows) ==
    [type |-> type, source |-> source, conf |-> conf, rank |-> rank,
     digits |-> digits, grows |-> grows]

SomeKinds ==
    {Kind("RRN", "regex", 970, 1, TRUE, TRUE),
     Kind("CARD", "regex", 970, 2, TRUE, FALSE),
     Kind("CARD", "regex", 400, 3, TRUE, FALSE),
     Kind("ACCOUNT", "regex", 650, 4, TRUE, FALSE),
     Kind("NAME", "dict", 990, 5, FALSE, FALSE),
     Kind("NAME", "ner", 600, 6, FALSE, FALSE)}
(* None, the end of the text, a gap in its middle.                         *)
WhiteSpace == {{}, {4}, {2, 3}}
Thresholds == [regex |-> 500, dict |-> 0, ner |-> 550]
=============================================================================
