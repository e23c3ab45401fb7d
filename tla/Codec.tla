-------------------------------- MODULE Codec --------------------------------
(***************************************************************************)
(* The frames of the binary protocol (src/message.rs) and the batches that  *)
(* a producer packs into the payload of one (src/producer.rs, consumer.rs). *)
(* A byte is a number below 256; an Option is a sequence of at most one     *)
(* element; so is the result of a parser, which is empty when it fails.     *)
(*                                                                         *)
(* The protobuf encodings (prost) are external: a command is its bytes, and *)
(* the metadata are encoded by the fields that the framing depends on.      *)
(***************************************************************************)
EXTENDS Naturals, Sequences, SequencesExt

CONSTANTS
  Commands       \* encodings that BaseCommand::decode accepts

put_u16(n) == <<(n \div 2^8) % 2^8, n % 2^8>>
put_u32(n) == put_u16(n \div 2^16) \o put_u16(n % 2^16)

be_u32(i) == ((i[1] * 2^8 + i[2]) * 2^8 + i[3]) * 2^8 + i[4]

From(i, n) == SubSeq(i, n + 1, Len(i))

\* A u32 that counts the bytes after it, and those bytes (be_u32, take)
sized(i) ==
  IF Len(i) < 4 \/ Len(i) < 4 + be_u32(i) THEN <<>>
  ELSE <<[bytes |-> SubSeq(i, 5, 4 + be_u32(i)), rest |-> From(i, 4 + be_u32(i))]>>

-----------------------------------------------------------------------------
(* Codec *)

\* crc32c; nothing reads it back.
checksum(i) == FoldLeft(LAMBDA s, b : (s + b) % 2^16, 0, i)

Magic == 14 * 2^8 + 1

header_size_short(item) == 8
header_size(item) == IF item.payload = <<>> THEN 8 ELSE 18

payload_bytes(p) ==
  LET body == put_u32(Len(p.metadata)) \o p.metadata \o p.data
  IN  put_u16(Magic) \o put_u32(checksum(body)) \o body

encode(item) ==
  LET command_size == Len(item.command)
      metadata_size == FoldLeft(LAMBDA n, p : n + Len(p.metadata), 0, item.payload)
      payload_size  == FoldLeft(LAMBDA n, p : n + Len(p.data), 0, item.payload)
      total_size    == command_size + metadata_size + payload_size + header_size(item) - 4
  IN  put_u32(total_size) \o put_u32(command_size) \o item.command
        \o FoldLeft(LAMBDA i, p : i \o payload_bytes(p), <<>>, item.payload)

\* The magic number and the checksum are read and not looked at.
payload_frame(i) == IF Len(i) < 6 THEN <<>> ELSE sized(From(i, 6))

Failure     == [kind |-> "error"]
Incomplete  == [kind |-> "incomplete"]
Item(item, n) == [kind |-> "item", item |-> item, size |-> n]

\* What a whole frame holds; it starts with its own size.
decode_frame(frame) ==
  LET command == sized(From(frame, 4)) IN
  IF command = <<>> \/ command[1].bytes \notin Commands THEN Failure
  ELSE IF command[1].rest = <<>>
  THEN Item([command |-> command[1].bytes, payload |-> <<>>], Len(frame))
  ELSE LET payload == payload_frame(command[1].rest) IN
       IF payload = <<>> THEN Failure
       ELSE Item([command |-> command[1].bytes,
                  payload |-> <<[metadata |-> payload[1].bytes,
                                 data     |-> payload[1].rest]>>], Len(frame))

\* messageSize counts the bytes after it.
message_size(src) == be_u32(src) + 4

decode(src) ==
  IF Len(src) < 4 \/ Len(src) < message_size(src) THEN Incomplete
  ELSE decode_frame(SubSeq(src, 1, message_size(src)))

-----------------------------------------------------------------------------
(* Batches.  A message of the application is [key, data]. *)

\* Batch::push_back: SingleMessageMetadata, encoded as payload_size and the key
single_metadata(m) == <<Len(m.data), m.key>>

\* BatchedMessage::serialize
serialize(m) == put_u32(Len(single_metadata(m))) \o single_metadata(m) \o m.data

\* send_batch: the payload, and MessageMetadata, encoded as num_messages_in_batch
send_batch(messages) ==
  [metadata |-> <<Len(messages)>>,
   data     |-> FoldLeft(LAMBDA i, m : i \o serialize(m), <<>>, messages)]

batched_message(i) ==
  LET metadata == sized(i) IN
  IF metadata = <<>> \/ Len(metadata[1].bytes) # 2 THEN <<>>
  ELSE LET payload_size == metadata[1].bytes[1]
           rest         == metadata[1].rest
       IN  IF Len(rest) < payload_size THEN <<>>
           ELSE <<[message |-> [key  |-> metadata[1].bytes[2],
                                data |-> SubSeq(rest, 1, payload_size)],
                   rest    |-> From(rest, payload_size)]>>

\* parse_batched_message: batched_message count times, or nothing
parse_batched_message(count, payload) ==
  LET more(parsed, n) ==
        IF parsed = <<>> THEN <<>>
        ELSE LET next == batched_message(parsed[1].rest) IN
             IF next = <<>> THEN <<>>
             ELSE <<[messages |-> Append(parsed[1].messages, next[1].message),
                     rest     |-> next[1].rest]>>
      all == FoldLeft(more, <<[messages |-> <<>>, rest |-> payload]>>,
                      [n \in 1..count |-> n])
  IN  IF all = <<>> THEN <<>> ELSE <<all[1].messages>>

\* BatchedMessageIterator: what the consumer is given for a payload
BatchedMessageIterator(p) == parse_batched_message(p.metadata[1], p.data)
=============================================================================
