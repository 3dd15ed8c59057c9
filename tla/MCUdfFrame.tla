----------------------------- MODULE MCUdfFrame -----------------------------
(* Values for the constants of UdfFrame: payloads around every boundary of  *)
(* the padding, the read and the length field, names around nine bytes.     *)
EXTENDS UdfFrame, TLC

From(kind, seq) == [kind |-> kind, src |-> 1, dst |-> 2, seq |-> seq]

MCLengths == {1, 15, 16, 17, 16336, 16337, 16351, 16352, 16353, 16367, 16368, 16369, 65535, 65536}
MCNames == {<<>>, <<97, 97, 97, 97, 97, 97, 97, 97, 97>>, <<97, 97, 97, 97, 97, 97, 97, 97, 97, 98>>,
            <<97, 97, 97, 97, 97, 97, 97, 97, 233>>, <<8364, 8364, 8364>>, <<128512, 128512, 128512>>}
MCPaths == {<<>>, <<1, 2, 3>>, [k \in 1 .. 255 |-> k], [k \in 1 .. 256 |-> 255], <<256>>}

MCInputs ==
       {From(kind, seq) : kind \in {"hb", "syn", "ack"}, seq \in {0, 3, 4}}
  \cup {From("data", 0) @@ [payload |-> [len |-> n, data |-> <<n % 256>>], hop |-> h]
          : n \in MCLengths, h \in {0, 255, 256}}
  \cup {From("cap", 1) @@ [version |-> v, maxFrame |-> 16388, features |-> x, name |-> n]
          : v \in {1, 65536}, x \in {8, 256}, n \in MCNames}
  \cup {From("hello", 2) @@ [nodes |-> p] : p \in MCPaths}

MCKeys == {DeriveLinkKey("psk", 1, 2, 0), DeriveLinkKey("psk", 2, 1, 0)}
=============================================================================
