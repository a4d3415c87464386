-------------------------------- MODULE Hpack ---------------------------------
(***************************************************************************)
(* protocol/http2/http2_hpack: the encoder of one end and the decoder of   *)
(* the other, each with its dynamic table, and the header blocks between   *)
(* them.  A block is a sequence of representations; the integers in it are *)
(* the bytes of the prefix code, a string is a value (its Huffman code is  *)
(* left out), and the size of an entry is a number given with the headers. *)
(* The literal without indexing, which the encoder never writes, is left   *)
(* out of the decoder.                                                     *)
(***************************************************************************)
EXTENDS Integers, SequencesExt, FiniteSetsExt

CONSTANTS
    Headers,                  \* the headers sent, records [name, value]
    EntrySize,                \* per header: name and value sizes plus 32
    MaximumDynamicTableSize,  \* options_.maximum_dynamic_table_size
    MaximumHeaderListSize,    \* options_.maximum_header_list_size
    TableSizes,               \* the sizes SetDynamicTableSize is called with
    MaxBlock                  \* bound: headers in a block

VARIABLES
    encoder,   \* [dynamic, limit, pending]: newest entry first
    decoder,   \* the same at the other end
    block,     \* the block on its way: [sent, fields], or None
    last       \* the block last decoded: [sent, got, ok], or None

hpackVars == <<encoder, decoder, block, last>>

None == [sent |-> <<>>]

NoUpdate == -1

------------------------------------------------------------------------------
(* Integers with a prefix of so many bits *)

\* The groups of seven bits after the prefix, least significant first; all
\* but the last are marked.
Continuation[rest \in Nat] ==
    IF rest >= 128 THEN <<128 + (rest % 128)>> \o Continuation[rest \div 128]
    ELSE <<rest>>

EncodeInteger(value, bits) ==
    LET mask == 2 ^ bits - 1
    IN  IF value < mask THEN <<value>>
        ELSE <<mask>> \o Continuation[value - mask]

\* ReadDecodedInteger over the bytes of one integer.
DecodeInteger(bytes, bits) ==
    LET mask == 2 ^ bits - 1
        group(i) == (bytes[i] % 128) * 2 ^ (7 * (i - 2))
    IN  IF bytes[1] % (mask + 1) < mask THEN bytes[1] % (mask + 1)
        ELSE mask + MapThenSumSet(group, 2..Len(bytes))

------------------------------------------------------------------------------
(* The tables *)

\* The static table.  A name or a value is a number; 8 stands for :status,
\* which has seven entries.
StaticTable ==
    [i \in 1..61 |-> IF i \in 8..14 THEN [name |-> 8, value |-> i]
                                    ELSE [name |-> i, value |-> 0]]

TableSize(entries) == FoldLeft(LAMBDA sum, e : sum + EntrySize[e], 0, entries)

\* MUTANT: the newest entries are evicted first.
EvictNewest(codec) ==
    LET keep == Max({n \in 0..Len(codec.dynamic) :
                        TableSize(SubSeq(codec.dynamic, 1, n)) <= codec.limit})
        from == Len(codec.dynamic) - keep + 1
    IN  [codec EXCEPT !.dynamic = SubSeq(@, from, Len(@))]

\* EvictDynamicTable: the oldest entries go until the rest fits.
Evict(codec) ==
    [codec EXCEPT !.dynamic = SubSeq(@, 1,
        Max({n \in 0..Len(@) : TableSize(SubSeq(@, 1, n)) <= codec.limit}))]

\* An entry larger than the table empties it.
AddDynamicEntry(codec, header) ==
    IF EntrySize[header] > codec.limit THEN [codec EXCEPT !.dynamic = <<>>]
    ELSE Evict([codec EXCEPT !.dynamic = <<header>> \o @])

SetDynamicTableSize(codec, size) ==
    Evict([codec EXCEPT !.limit = size, !.pending = size])

Table(codec) == StaticTable \o codec.dynamic

------------------------------------------------------------------------------
(* Encode *)

\* The first of the entries that match, static ones before dynamic ones; 0 for
\* none.
FirstIndex(matches) == IF matches = {} THEN 0 ELSE Min(matches)

\* One header: [codec, fields] grows by its representation.
EncodeHeader(acc, header) ==
    LET table == Table(acc.codec)
        whole == FirstIndex({i \in DOMAIN table : table[i] = header})
        named == FirstIndex({i \in DOMAIN table : table[i].name = header.name})
        literal == [kind |-> "literal", index |-> EncodeInteger(named, 6),
                    name |-> IF named = 0 THEN header.name ELSE 0,
                    value |-> header.value]
    IN  IF whole # 0
        THEN [acc EXCEPT !.fields = Append(@,
                 [kind |-> "indexed", index |-> EncodeInteger(whole, 7)])]
        ELSE [codec |-> AddDynamicEntry(acc.codec, header),
              fields |-> Append(acc.fields, literal)]

\* A pending size update comes first; of several only the last is sent.
Encode(codec, headers) ==
    LET update == IF codec.pending = NoUpdate THEN <<>>
                  ELSE <<[kind |-> "size", index |-> EncodeInteger(codec.pending, 5)]>>
    IN  FoldLeft(EncodeHeader,
                 [codec |-> [codec EXCEPT !.pending = NoUpdate], fields |-> update],
                 headers)

------------------------------------------------------------------------------
(* Decode *)

Failed(acc) == [acc EXCEPT !.ok = FALSE]

\* Lookup throws for index 0 and past the tables.
DecodeIndexed(acc, field) ==
    LET index == DecodeInteger(field.index, 7)
    IN  IF index \notin DOMAIN Table(acc.codec) THEN Failed(acc)
        ELSE [acc EXCEPT !.headers = Append(@, Table(acc.codec)[index])]

DecodeLiteral(acc, field) ==
    LET index  == DecodeInteger(field.index, 6)
        header == [name |-> IF index = 0 THEN field.name
                            ELSE Table(acc.codec)[index].name,
                   value |-> field.value]
    IN  IF index \notin {0} \cup DOMAIN Table(acc.codec) THEN Failed(acc)
        ELSE [acc EXCEPT !.headers = Append(@, header),
                         !.codec = AddDynamicEntry(@, header)]

DecodeSize(acc, field) ==
    LET size == DecodeInteger(field.index, 5)
    IN  IF size > MaximumDynamicTableSize THEN Failed(acc)
        ELSE [acc EXCEPT !.codec = SetDynamicTableSize(@, size)]

\* One turn of Decode's loop; the list is measured after each.
DecodeField(acc, field) ==
    LET next == CASE field.kind = "indexed" -> DecodeIndexed(acc, field)
                  [] field.kind = "literal" -> DecodeLiteral(acc, field)
                  [] field.kind = "size"    -> DecodeSize(acc, field)
    IN  IF ~acc.ok THEN acc
        ELSE IF TableSize(next.headers) > MaximumHeaderListSize THEN Failed(next)
        ELSE next

Decode(codec, fields) ==
    FoldLeft(DecodeField, [codec |-> codec, headers |-> <<>>, ok |-> TRUE], fields)

------------------------------------------------------------------------------
(* The two ends *)

NewCodec == [dynamic |-> <<>>, limit |-> MaximumDynamicTableSize, pending |-> NoUpdate]

HpackInit ==
    encoder = NewCodec /\ decoder = NewCodec /\ block = None /\ last = None

\* The peer's SETTINGS change the encoder's table, at any time.
Resize(size) ==
    /\ size <= MaximumDynamicTableSize
    /\ encoder' = SetDynamicTableSize(encoder, size)
    /\ UNCHANGED <<decoder, block, last>>

Send(headers) ==
    /\ block = None /\ last = None
    /\ \E coded \in {Encode(encoder, headers)} :
        /\ encoder' = coded.codec
        /\ block' = [sent |-> headers, fields |-> coded.fields]
    /\ UNCHANGED <<decoder, last>>

\* A block that does not decode ends the connection.
Receive ==
    /\ block # None /\ block' = None
    /\ \E read \in {Decode(decoder, block.fields)} :
        /\ decoder' = read.codec
        /\ last' = [sent |-> block.sent, got |-> read.headers, ok |-> read.ok]
    /\ UNCHANGED encoder

Deliver ==
    /\ last # None /\ last.ok /\ last' = None
    /\ UNCHANGED <<encoder, decoder, block>>

HpackNext ==
    \/ \E size \in TableSizes : Resize(size)
    \/ \E n \in 1..MaxBlock : \E headers \in [1..n -> Headers] : Send(headers)
    \/ Receive \/ Deliver

------------------------------------------------------------------------------
(* Properties *)

HpackTypeOK ==
    \A codec \in {encoder, decoder} :
        /\ TableSize(codec.dynamic) <= codec.limit
        /\ codec.limit \in 0..MaximumDynamicTableSize
        /\ codec.pending \in {NoUpdate} \cup TableSizes

\* Every block decodes to the headers that were encoded, whatever was sent,
\* evicted and resized before, or is refused for the size of its list alone.
\* The encoder forgets the intermediate of two size updates, and then holds
\* fewer entries than the decoder: between blocks its table is always the
\* newest part of the decoder's, so every index means the same at both ends.
BlocksDecode ==
    /\ HpackTypeOK
    /\ last # None =>
        IF last.ok THEN last.got = last.sent
        ELSE TableSize(last.sent) > MaximumHeaderListSize
    /\ block = None /\ (last = None \/ last.ok) =>
        IsPrefix(encoder.dynamic, decoder.dynamic)
==============================================================================
