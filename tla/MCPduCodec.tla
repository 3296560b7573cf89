---- MODULE MCPduCodec ----
(***************************************************************************)
(* Instances of PduCodec for TLC: bytes of eight values, so that a text    *)
(* overflows its length field, and an address may be missing.              *)
(***************************************************************************)
EXTENDS PduCodec

MCAddrs == {<<>>, <<1>>, <<2, 1>>}
MCIds == {<<1>>, <<2, 3>>}

\* Texts of every length up to Byte + 2, and one of Byte bytes that holds a message_payload.
MCTexts ==
    {SubSeq(<<1, 2, 3, 2, 1, 3, 5, 7, 6, 4>>, 1, length) : length \in 0..Byte + 2}
        \cup {PayloadTag \o <<0, 1, 7, 0, 0, 0>>}
====
