------------------------------ MODULE WireCodec ------------------------------
(***************************************************************************)
(* MarshalVT, SizeVT and UnmarshalVT of the generated messages             *)
(* (src/backend/gen/*/v1/*_vtproto.pb.go), run on the bytes: a message is  *)
(* sent, may pass through a newer peer that adds a field of its own, may   *)
(* reach its reader as only a part of its bytes, and may be sent on by the *)
(* reader that decoded it.                                                 *)
(*                                                                         *)
(* protohelpers (varints, skipping a field) and the two well-known types   *)
(* are external.  Numbers stay within 31 bits and a sender leaves no       *)
(* group (wire types 3 and 4), which proto3 does not have.                 *)
(***************************************************************************)
EXTENDS WireTables, SequencesExt, FiniteSetsExt

CONSTANTS MessageType,   \* the types sent
          Samples(_),    \* the messages of a type that are sent
          NewerField,    \* encoded fields that only a newer peer knows
          MaxHops        \* bound: times a message is sent

VARIABLES type,      \* the message's type
          message,   \* what the first sender has in memory
          decoded,   \* what the holder has in memory
          wire,      \* the bytes last sent
          extra,     \* what newer peers added
          cut,       \* the bytes were cut short
          phase,     \* "held", "sent", "refused" or "panicked"
          hops       \* times the message was sent
wireVars == <<type, message, decoded, wire, extra, cut, phase, hops>>

-----------------------------------------------------------------------------
(* protohelpers.EncodeVarint and SizeOfVarint of uint64(v): seven bits to a*)
(* byte, low first; a negative number takes all 64 bits, hence ten bytes.  *)
RECURSIVE Groups(_, _)
Groups(v, n) == IF n = 10 THEN <<v % 2>>
                ELSE IF v \in 0..127 THEN <<v>>
                ELSE <<128 + (v % 128)>> \o Groups(v \div 128, n + 1)
Varint(v)       == Groups(v, 1)
SizeOfVarint(v) == Len(Varint(v))

Framed(bytes) == Varint(Len(bytes)) \o bytes

(* The fields left out of the wire: those at their zero.  The test on a    *)
(* double is != 0, which negative zero fails too.                          *)
Elided(kind, v) == CASE kind \in {"int32", "int64"} -> v = 0
                     [] kind = "bool"               -> ~v
                     [] kind = "double"             -> v \in {PlusZero, MinusZero}
                     [] kind = "message"            -> v = Nil
                     [] OTHER                       -> v = <<>>

(* MarshalToSizedBufferVT: tag and value of each field, unknown ones last. *)
RECURSIVE Body(_, _)
Body(T, m) ==
    LET Value(f, v) == CASE f[3] \in {"int32", "int64"} -> Varint(v)
                         [] f[3] = "bool"               -> <<1>>
                         [] f[3] = "double"             -> v
                         [] f[3] = "string"             -> Framed(v)
                         [] f[3] = "map"                -> Framed(<<10>> \o Framed(v.key)
                                                               \o <<16>> \o Varint(v.value))
                         [] OTHER                       -> Framed(Body(f[4], v))
        Values(f) == IF Elided(f[3], m[f[2]]) THEN <<>>
                     ELSE IF f[3] \in {"messages", "map"} THEN m[f[2]] ELSE <<m[f[2]]>>
        Put(f) == FlattenSeq([i \in DOMAIN Values(f) |-> Varint(f[1]) \o Value(f, Values(f)[i])])
        fields == MarshalFields[T]
    IN  FlattenSeq([i \in DOMAIN fields |-> Put(fields[i])]) \o m.unknown

(* SizeVT computes the same length from the message alone.                 *)
RECURSIVE SizeVT(_, _)
SizeVT(T, m) ==
    LET Sum(s) == FoldLeft(+, 0, s)
        Delimited(n) == n + SizeOfVarint(n)
        Entry(e) == Delimited(1 + Delimited(Len(e.key)) + 1 + SizeOfVarint(e.value))
        ValueSize(f, v) == CASE f[3] \in {"int32", "int64"} -> SizeOfVarint(v)
                             [] f[3] \in {"bool", "double"} -> 0
                             [] f[3] = "string"             -> Delimited(Len(v))
                             [] f[3] = "map"                -> Entry(v)
                             [] OTHER                       -> Delimited(SizeVT(f[4], v))
        Values(f) == IF Elided(f[3], m[f[2]]) THEN <<>>
                     ELSE IF f[3] \in {"messages", "map"} THEN m[f[2]] ELSE <<m[f[2]]>>
        Add(f) == Sum([i \in DOMAIN Values(f) |-> f[1] + ValueSize(f, Values(f)[i])])
        fields == SizeFields[T]
    IN  Sum([i \in DOMAIN fields |-> Add(fields[i])]) + Len(m.unknown)

-----------------------------------------------------------------------------
(* Reading: what was read and the place after it, or an error.             *)
Read(v, at) == [ok |-> TRUE, val |-> v, at |-> at]
Failed      == [ok |-> FALSE]

(* The varint loop: at most ten bytes, the last one below 128.             *)
ReadVarint(bytes, i) ==
    LET ends == {j \in i..Len(bytes) : j < i + 10 /\ bytes[j] < 128}
        last == Min(ends)
    IN  IF ends = {} THEN Failed
        ELSE Read([k \in 1..last - i + 1 |-> bytes[i + k - 1] % 128], last + 1)

(* The groups as an int64, an int32 (the bits above the 32nd fall off) and *)
(* a bool.                                                                 *)
Combine(groups, sign) == FoldRight(LAMBDA g, high : 128 * high + g, groups, sign)
Int64(groups) ==
    Combine(SubSeq(groups, 1, IF Len(groups) < 9 THEN Len(groups) ELSE 9),
            IF Len(groups) = 10 /\ groups[10] % 2 = 1 THEN -1 ELSE 0)
Int32(groups) ==
    IF Len(groups) < 5 THEN Combine(groups, 0)
    ELSE LET top == groups[5] % 16
         IN  Combine(SubSeq(groups, 1, 4), IF top >= 8 THEN top - 16 ELSE top)
Number(kind, groups) == CASE kind = "int32" -> Int32(groups)
                          [] kind = "int64" -> Int64(groups)
                          [] kind = "bool"  -> Int64(groups) # 0

(* Mutant: a length that runs past the end takes what there is.            *)
ReadSpanClamped(bytes, i) ==
    LET n == ReadVarint(bytes, i)
    IN  IF ~n.ok THEN Failed
        ELSE LET end == Min({n.at + Int64(n.val), Len(bytes) + 1})
             IN  Read(SubSeq(bytes, n.at, end - 1), end)

(* A length and that many bytes.                                           *)
ReadSpan(bytes, i) ==
    LET n == ReadVarint(bytes, i)
    IN  IF ~n.ok THEN Failed
        ELSE LET end == n.at + Int64(n.val)
             IN  IF Int64(n.val) < 0 \/ end > Len(bytes) + 1 THEN Failed
                 ELSE Read(SubSeq(bytes, n.at, end - 1), end)

ReadFixed(bytes, i, n) == IF i + n > Len(bytes) + 1 THEN Failed
                          ELSE Read(SubSeq(bytes, i, i + n - 1), i + n)

(* protohelpers.Skip, past the tag.                                        *)
Skip(bytes, i, wireType) == CASE wireType = 0 -> ReadVarint(bytes, i)
                              [] wireType = 1 -> ReadFixed(bytes, i, 8)
                              [] wireType = 2 -> ReadSpan(bytes, i)
                              [] wireType = 5 -> ReadFixed(bytes, i, 4)
                              [] OTHER        -> Failed

(* UnmarshalVT.  A field that comes again replaces a value, merges into a  *)
(* submessage and extends a list; an unknown field is kept, tag and all.   *)
RECURSIVE UnmarshalFrom(_, _, _, _)
UnmarshalField(f, bytes, i, m) ==
    LET name == f[2]
        kind == f[3]
        raw == CASE kind \in {"int32", "int64", "bool"} -> ReadVarint(bytes, i)
                 [] kind = "double"                     -> ReadFixed(bytes, i, 8)
                 [] OTHER                               -> ReadSpan(bytes, i)
        Sub(T, old) == UnmarshalFrom(T, raw.val, 1, old)
        old == IF kind = "message" /\ m[name] # Nil THEN m[name] ELSE Zero[f[4]]
        Set(v) == Read([m EXCEPT ![name] = v], raw.at)
        SetSub(T, into, Put(_)) == LET sub == Sub(T, into)
                                   IN  IF sub.ok THEN Set(Put(sub.val)) ELSE Failed
    IN  CASE ~raw.ok                    -> Failed
          [] raw.ok /\ kind \in {"int32", "int64", "bool"} -> Set(Number(kind, raw.val))
          [] raw.ok /\ kind \in {"string", "double"}       -> Set(raw.val)
          [] raw.ok /\ kind = "message"  -> SetSub(f[4], old, LAMBDA v : v)
          [] raw.ok /\ kind = "messages" -> SetSub(f[4], old, LAMBDA v : Append(m[name], v))
          [] raw.ok /\ kind = "map"      ->
                SetSub("ByTypeEntry", Zero.ByTypeEntry,
                       LAMBDA e : Append(SelectSeq(m[name], LAMBDA x : x.key # e.key),
                                         [key |-> e.key, value |-> e.value]))

UnmarshalFrom(T, bytes, i, m) ==
    LET tag == ReadVarint(bytes, i)
        wireType == Int64(tag.val) % 8
        fieldNum == Int64(tag.val) \div 8
        fields == UnmarshalFields[T]
        skipped == Skip(bytes, tag.at, wireType)
        next == IF fieldNum \in DOMAIN fields
                THEN IF wireType # fields[fieldNum][1] THEN Failed
                     ELSE UnmarshalField(fields[fieldNum], bytes, tag.at, m)
                ELSE IF skipped.ok
                     THEN Read([m EXCEPT !.unknown = @ \o SubSeq(bytes, i, skipped.at - 1)],
                               skipped.at)
                     ELSE Failed
    IN  IF i > Len(bytes) THEN Read(m, i)
        ELSE IF ~tag.ok \/ wireType = 4 \/ fieldNum <= 0 \/ ~next.ok THEN Failed
        ELSE UnmarshalFrom(T, bytes, next.at, next.val)

-----------------------------------------------------------------------------
WireInit ==
    /\ type \in MessageType
    /\ message \in Samples(type)
    /\ decoded = message
    /\ wire = <<>> /\ extra = <<>>
    /\ cut = FALSE /\ phase = "held" /\ hops = 0

(* MarshalVT allocates SizeVT bytes, fills them from the end and returns as*)
(* many as it filled, from the start; filling past the start panics.       *)
MarshalVT ==
    /\ phase = "held" /\ hops < MaxHops
    /\ hops' = hops + 1
    /\ LET body == Body(type, decoded)
           size == SizeVT(type, decoded)
           spare == [k \in 1..size - Len(body) |-> 0]
       IN  IF Len(body) > size THEN phase' = "panicked" /\ UNCHANGED wire
           ELSE phase' = "sent" /\ wire' = SubSeq(spare \o body, 1, Len(body))
    /\ UNCHANGED <<type, message, decoded, extra, cut>>

(* External: on its way a newer peer adds a field; a buffer is cut short.  *)
PassNewerPeer ==
    /\ phase = "sent" /\ ~cut /\ extra = <<>>
    /\ extra' \in NewerField
    /\ wire' = wire \o extra'
    /\ UNCHANGED <<type, message, decoded, cut, phase, hops>>

CutShort ==
    /\ phase = "sent" /\ ~cut
    /\ \E n \in 0..Len(wire) - 1 : wire' = SubSeq(wire, 1, n)
    /\ cut' = TRUE
    /\ UNCHANGED <<type, message, decoded, extra, phase, hops>>

UnmarshalVT ==
    /\ phase = "sent"
    /\ LET r == UnmarshalFrom(type, wire, 1, Zero[type])
       IN  IF r.ok THEN phase' = "held" /\ decoded' = r.val
           ELSE phase' = "refused" /\ UNCHANGED decoded
    /\ UNCHANGED <<type, message, wire, extra, cut, hops>>

WireNext == MarshalVT \/ PassNewerPeer \/ CutShort \/ UnmarshalVT

-----------------------------------------------------------------------------
(* All that a message loses in memory-to-memory: the sign of a zero.       *)
Canonical(T, m) ==
    LET doubles == {f[2] : f \in {x \in ToSet(MarshalFields[T]) : x[3] = "double"}}
    IN  [name \in DOMAIN m |-> IF name \in doubles /\ Elided("double", m[name])
                               THEN PlusZero ELSE m[name]]

(* However often a message is sent on, and whatever fields newer peers add,*)
(* its holder has what the first sender had and keeps the additions for    *)
(* the next one: the size pass agrees with the writing pass (a wrong size  *)
(* panics, or returns the wrong end of the buffer), tags, wire types and   *)
(* field numbers agree, and no value is taken for a zero.                  *)
RoundTrips ==
    /\ phase # "panicked"
    /\ ~cut => phase # "refused"
    /\ ~cut /\ phase = "held" /\ hops > 0 =>
          decoded = [Canonical(type, message) EXCEPT !.unknown = @ \o extra]

(* What is read is exactly what arrived: a buffer cut anywhere is refused, *)
(* or stands for the fields that came whole, at any depth, in any list.    *)
NothingMisread == phase = "held" /\ hops > 0 => Body(type, decoded) = wire
=============================================================================
