---- MODULE PduCodec ----
(***************************************************************************)
(* The bodies of submit_sm and deliver_sm: how the client builds the one   *)
(* and the server parses it (buildSubmitSMBody, parseSubmitSM), how the    *)
(* server builds the other and the client parses it (SendDeliverSM,        *)
(* buildDeliverSMBody, handleDeliverSM, parseDeliverSM).                   *)
(*                                                                         *)
(* A body is a sequence of bytes; offsets count from 0 as in the code.     *)
(* The number of values of a byte is a parameter, so that the length field *)
(* of a short message overflows with few bytes.  esm_class has one flag at *)
(* most.  What a parser does before its loop over the TLVs is one step,    *)
(* and every round of the loop is one.                                     *)
(***************************************************************************)
EXTENDS Integers, Sequences, FiniteSetsExt

CONSTANTS
    Byte,        \* number of values of a byte: 256
    MaxLength,   \* longest PDU that is read, without its header: 65535 - 16
    Addrs,       \* bound: addresses, sequences of bytes that are not 0
    Texts,       \* bound: texts, sequences of bytes
    Ids,         \* bound: values of message_id, sequences of bytes that are not 0
    Nothing      \* no message, and the error of parseSubmitSM

EsmUssd    == 2   \* ESM_USSD, 0x40
EsmReceipt == 1   \* ESM_DELIVERY_RECEIPT, 0x04
Unknown    == <<3, 3, 3>>   \* "UNKNOWN"
Ussdc      == <<2, 2>>      \* "ussdc"
Smsc       == <<1, 1>>      \* "smsc"

\* Tags of TLVs, two bytes each: 0x0424, 0x001E, 0x1401, 0x1402, 0x0501.
PayloadTag   == <<1, 3>>
MessageIdTag == <<0, 3>>
NcsTag       == <<2, 1>>
NcsTag2      == <<2, 2>>
UssdOpTag    == <<1, 1>>

ASSUME CodecConstants ==
    /\ Byte \in Nat /\ Byte > 3
    /\ MaxLength \in Nat /\ MaxLength < Byte * Byte
    /\ Addrs \cup Ids \subseteq Seq(1..Byte - 1)
    /\ Texts \subseteq Seq(0..Byte - 1)

VARIABLES
    stage,   \* "idle", "sent", "tlvs", "read" or "closed"
    msg,     \* what was to be sent
    body,    \* Seq(0..Byte-1): what was sent
    offset,  \* Nat: where the loop over the TLVs is
    result   \* what the other side has made of it

codecVars == <<stage, msg, body, offset, result>>

CodecInit == stage = "idle" /\ msg = Nothing /\ body = <<>> /\ offset = 0 /\ result = Nothing

----
(* Both sides. *)

CString(seq) == seq \o <<0>>

\* A two-byte length is cut to what fits.
BuildTLV(tag, value) ==
    tag \o <<(Len(value) \div Byte) % Byte, Len(value) % Byte>> \o value

At(data, i) == data[i + 1]

Slice(data, from, to) == SubSeq(data, from + 1, to)

\* Where the C string at i ends: at a 0 or at the end of the data.
StringEnd(data, i) == Min({k \in i..Len(data) - 1 : At(data, k) = 0} \cup {Len(data)})

\* extractCString: the string, and the offset after its 0.
ExtractCString(data, i) ==
    IF i >= Len(data) THEN [string |-> <<>>, next |-> i]
    ELSE LET end == StringEnd(data, i)
         IN  [string |-> Slice(data, i, end), next |-> Min({end + 1, Len(data)})]

\* The addresses of a body, with what is before them.
Addressed(from, to) == <<0, 0, 0>> \o CString(from) \o <<0, 0>> \o CString(to)

\* What parseSubmitSM, parseDeliverSM and handleDeliverSM read of it, all in the same way.
Addresses(data) ==
    LET service == ExtractCString(data, 0)
        source  == ExtractCString(data, service.next + 2)
        dest    == ExtractCString(data, source.next + 2)
    IN  [service |-> service.next, from |-> source.string, source |-> source.next,
         to |-> dest.string, esm |-> dest.next]

\* The offset of registered_delivery, after the C strings of the two times.
ReceiptOffset(data, esm) == ExtractCString(data, ExtractCString(data, esm + 3).next).next

\* A TLV at i fits into the data.
TlvLength(data, i) == At(data, i + 2) * Byte + At(data, i + 3)
HasTlv(data, i) == i + 4 <= Len(data) /\ i + 4 + TlvLength(data, i) <= Len(data)
TlvTag(data, i) == Slice(data, i, i + 2)
TlvValue(data, i) == Slice(data, i + 4, i + 4 + TlvLength(data, i))

----
(* submit_sm *)

RegisteredDelivery(m) == IF m.receipt /\ ~m.ussd THEN 1 ELSE 0

\* buildSubmitSMBody: service_type and addresses, esm_class, protocol_id, priority_flag, the
\* two times, registered_delivery, replace_if_present_flag, data_coding,
\* sm_default_msg_id, sm_length, short_message.
BuildSubmitSMBody(m) ==
    Addressed(m.from, m.to)
        \o <<IF m.ussd THEN EsmUssd ELSE 0, 0, 0, 0, 0, RegisteredDelivery(m), 0, 0, 0,
             Len(m.text) % Byte>>
        \o m.text

\* parseSubmitSM up to the TLVs: its result, and where the short message ends.
ParseSubmitSM(data) ==
    LET a       == Addresses(data)
        receipt == ReceiptOffset(data, a.esm)
        length  == receipt + 4
        text    == length + 1
        \* offsets that are tested against the length of the body
        tested  == {a.service, a.service + 1, a.source, a.source + 1, a.esm, receipt,
                    receipt + 2, length}
        end     == text + At(data, length)
    IN  IF (\E i \in tested : i >= Len(data)) \/ end > Len(data)
        THEN [valid |-> FALSE, message |-> Nothing, end |-> 0]
        ELSE [valid |-> TRUE,
              message |-> [from |-> a.from, to |-> a.to, text |-> Slice(data, text, end),
                           ussd |-> At(data, a.esm) = EsmUssd,
                           receipt |-> At(data, receipt) # 0],
              end |-> end]

----
(* deliver_sm *)

OrUnknown(addr) == IF addr = <<>> THEN Unknown ELSE addr

\* Mutant: the text is not cut to the longest short message.
ShortMessageUncut(text) == text

\* "short_message max length is 254 bytes"
ShortMessage(text) == SubSeq(text, 1, Min({Len(text), Byte - 2}))

BuildDeliverSMBody(m) ==
    LET short == ShortMessage(m.text)
    IN  Addressed(OrUnknown(m.from), OrUnknown(m.to))
            \o <<IF m.receipt THEN EsmReceipt ELSE 0, 0, 0, 0, 0, 0, 0, 0, 0,
                 Len(short) % Byte>>
            \o short

\* SendDeliverSM: the body and the TLVs; esm_class says nothing of USSD, the TLVs do.
DeliverSM(m) ==
    BuildDeliverSMBody(m) \o BuildTLV(MessageIdTag, CString(m.id))
        \o IF m.ussd THEN BuildTLV(NcsTag, CString(Ussdc)) \o BuildTLV(NcsTag2, CString(Ussdc))
                              \o BuildTLV(UssdOpTag, <<1>>)
                     ELSE <<>>

\* parseDeliverSM, and what handleDeliverSM assumes without TLVs.
ParseDeliverSM(data) ==
    LET a      == Addresses(data)
        length == ReceiptOffset(data, a.esm) + 4
    IN  [from |-> a.from, to |-> a.to,
         text |-> Slice(data, length + 1, length + 1 + At(data, length)),
         receipt |-> At(data, a.esm) = EsmReceipt, id |-> <<>>, ncs |-> Smsc]

\* Where handleDeliverSM looks for TLVs: it skips the two times as single bytes.
DeliverTlvs(data) == LET esm == Addresses(data).esm IN esm + 10 + At(data, esm + 9)

\* A round of its loop: a string is taken up to a 0.
WithTlv(parsed, tag, value) ==
    CASE tag = MessageIdTag -> [parsed EXCEPT !.id = ExtractCString(value, 0).string]
      [] tag = NcsTag       -> [parsed EXCEPT !.ncs = ExtractCString(value, 0).string]
      [] OTHER              -> parsed

----
(* A message is built and sent by one side, and read by the other. *)

Send(m, bytes) ==
    /\ stage = "idle" /\ stage' = "sent"
    /\ msg' = m /\ body' = bytes
    /\ UNCHANGED <<offset, result>>

ClientSubmits ==
    \E from, to \in Addrs, text \in Texts, ussd, receipt \in BOOLEAN :
        LET m == [by |-> "client", from |-> from, to |-> to, text |-> text,
                  ussd |-> ussd, receipt |-> receipt]
        IN  Send(m, BuildSubmitSMBody(m))

\* Another ESME may send the text as message_payload, among other TLVs.
OtherSubmits ==
    \E from, to \in Addrs, text \in Texts, ussd \in BOOLEAN :
        LET m == [by |-> "other", from |-> from, to |-> to, text |-> text,
                  ussd |-> ussd, receipt |-> FALSE]
        IN  Send(m, BuildSubmitSMBody([m EXCEPT !.text = <<>>])
                        \o BuildTLV(UssdOpTag, <<1>>) \o BuildTLV(PayloadTag, text))

\* An ESME sends a body that ends before its short message does.
CutSubmits ==
    \E from, to \in Addrs, text \in Texts :
        LET m == [by |-> "cut", from |-> from, to |-> to, text |-> text,
                  ussd |-> FALSE, receipt |-> FALSE]
            whole == BuildSubmitSMBody(m)
        IN  /\ Len(text) < Byte
            /\ \E length \in 0..Len(whole) - 1 : Send(m, SubSeq(whole, 1, length))

ServerDelivers ==
    \E from, to \in Addrs, text \in Texts, ussd, receipt \in BOOLEAN, id \in Ids :
        LET m == [by |-> "server", from |-> from, to |-> to, text |-> text,
                  ussd |-> ussd, receipt |-> receipt, id |-> id]
        IN  ~(ussd /\ receipt) /\ Send(m, DeliverSM(m))

\* readPDU refuses what is too long, and the connection is closed.
Refuse ==
    /\ stage = "sent" /\ stage' = "closed"
    /\ Len(body) > MaxLength
    /\ UNCHANGED <<msg, body, offset, result>>

\* Only where there is no short message, parseSubmitSM looks for a message_payload.
ServerReads ==
    /\ stage = "sent" /\ msg.by # "server" /\ Len(body) <= MaxLength
    /\ LET parsed == ParseSubmitSM(body)
       IN  /\ result' = parsed.message /\ offset' = parsed.end
           /\ stage' = IF parsed.valid /\ parsed.message.text = <<>> THEN "tlvs" ELSE "read"
    /\ UNCHANGED <<msg, body>>

ClientReads ==
    /\ stage = "sent" /\ stage' = "tlvs" /\ msg.by = "server" /\ Len(body) <= MaxLength
    /\ result' = ParseDeliverSM(body) /\ offset' = DeliverTlvs(body)
    /\ UNCHANGED <<msg, body>>

\* The TLV at offset is dealt with, and the loop goes on behind it.
Tlv ==
    /\ stage = "tlvs" /\ HasTlv(body, offset)
    /\ offset' = offset + 4 + TlvLength(body, offset)
    /\ UNCHANGED <<msg, body>>

ServerTlv ==
    /\ Tlv /\ msg.by # "server"
    /\ IF TlvTag(body, offset) = PayloadTag
       THEN result' = [result EXCEPT !.text = TlvValue(body, offset)] /\ stage' = "read"
       ELSE UNCHANGED <<result, stage>>

ClientTlv ==
    /\ Tlv /\ msg.by = "server"
    /\ result' = WithTlv(result, TlvTag(body, offset), TlvValue(body, offset))
    /\ UNCHANGED stage

NoTlv ==
    /\ stage = "tlvs" /\ stage' = "read"
    /\ ~HasTlv(body, offset)
    /\ UNCHANGED <<msg, body, offset, result>>

CodecNext ==
    \/ ClientSubmits \/ OtherSubmits \/ CutSubmits \/ ServerDelivers \/ Refuse
    \/ ServerReads \/ ServerTlv \/ ClientReads \/ ClientTlv \/ NoTlv

CodecSpec == CodecInit /\ [][CodecNext]_codecVars

----
(* Properties. *)

\* What message_payload TLVs in a text hold.
Payloads(text) ==
    {TlvValue(text, i) : i \in {k \in 0..Len(text) :
                                   HasTlv(text, k) /\ TlvTag(text, k) = PayloadTag}}

\* What the reader may make of the text of a message: one that is too long is cut, by the
\* client to its length modulo the size of a byte, and by the server to the longest short
\* message.  Where the client's length comes to 0, the text is taken for TLVs.
TextsOf(m) ==
    CASE m.by = "client" ->
            LET length == Len(m.text) % Byte
            IN  {SubSeq(m.text, 1, length)} \cup IF length = 0 THEN Payloads(m.text) ELSE {}
      [] m.by = "other"  -> {m.text}
      [] m.by = "server" -> {SubSeq(m.text, 1, Min({Len(m.text), Byte - 2}))}

\* What it is to make of the rest: a missing address is unknown to the client; a submit_sm
\* over USSD asks for no receipt.
Expected(m, text) ==
    IF m.by = "server"
    THEN [from |-> IF m.from = <<>> THEN Unknown ELSE m.from,
          to   |-> IF m.to = <<>> THEN Unknown ELSE m.to,
          text |-> text, receipt |-> m.receipt, id |-> m.id,
          ncs |-> IF m.ussd THEN Ussdc ELSE Smsc]
    ELSE [from |-> m.from, to |-> m.to, text |-> text,
          ussd |-> m.ussd, receipt |-> m.receipt /\ ~m.ussd]

\* The reader gets the message that was sent, whatever the lengths of its addresses and of
\* its text, and refuses a body that is cut short, instead of reading past its end.
Understood ==
    stage = "read" =>
        IF msg.by = "cut" THEN result = Nothing
        ELSE \E text \in TextsOf(msg) : result = Expected(msg, text)
====
