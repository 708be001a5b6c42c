----------------------------- MODULE WireFormat -----------------------------
(***************************************************************************)
(* How a message becomes the bytes of a frame, and how it is read from     *)
(* them (InternalMessage.cs, MessageStream.cs), and how the C++ library    *)
(* writes it (internal_message.hpp, message_stream.hpp).                   *)
(*                                                                         *)
(* A frame is its length, without the four bytes of the length itself,     *)
(* and its fields; a string or an array is its length and its bytes.  All  *)
(* numbers are four bytes, the lowest first.  Strings are taken as the     *)
(* bytes of their UTF-8 encoding.                                          *)
(***************************************************************************)
EXTENDS Integers, Sequences

CONSTANT Null   \* a string or array that is null

Byte == 0..255

\* null is no string and no array.
ASSUME NullAssumption == Null \notin Seq(Byte)

MaxInt == 2147483647

\* BitConverter.GetBytes, for the sizes and types that occur.
GetBytes(n) == <<n % 256, (n \div 256) % 256, (n \div 65536) % 256, n \div 16777216>>

\* BitConverter.ToInt32: the highest byte has the sign.
ToInt32 == [b \in [1..4 -> Byte] |->
    b[1] + 256 * b[2] + 65536 * b[3]
         + 16777216 * (IF b[4] < 128 THEN b[4] ELSE b[4] - 256)]

\* A message: strings and arrays are sequences of bytes or null.
Fields == Seq(Byte) \union {Null}
InternalMessages ==
    [type : 0..7, correlationId : Fields, reciever : Fields, sender : Fields,
     noAck : BOOLEAN, payload : Fields]

-----------------------------------------------------------------------------
(* Writing.                                                                *)

\* str ?? "", buffer ?? Array.Empty<byte>()
Filled(f) == IF f = Null THEN <<>> ELSE f

\* MessageStream.Write of a string or an array.
Prefixed(f) == GetBytes(Len(Filled(f))) \o Filled(f)

Flag(b) == IF b THEN <<1>> ELSE <<0>>

\* InternalMessage.ToBytes: the fields.
Body(m) ==
    GetBytes(m.type) \o Prefixed(m.correlationId) \o Prefixed(m.reciever)
        \o Prefixed(m.sender) \o Flag(m.noAck) \o Prefixed(m.payload)

\* Mutant: the length counts its own four bytes.
Framed_all(body) == GetBytes(Len(body) + 4) \o body

\* MessageStream.ToArray: the length goes before the fields.
Framed(body) == GetBytes(Len(body)) \o body

\* message_stream << string: the length counts the zero byte that follows.
ZeroEnded(f) == Prefixed(Filled(f) \o <<0>>)

\* internal_message::to_bytes, in the order of the C++ library.
CppBody(m) ==
    GetBytes(m.type) \o ZeroEnded(m.correlationId) \o ZeroEnded(m.sender)
        \o ZeroEnded(m.reciever) \o Flag(m.noAck) \o Prefixed(m.payload)

-----------------------------------------------------------------------------
(* Reading.                                                                *)

\* A field at position p (so many bytes come before it), and where it ends.
IntAt(b, p) == ToInt32[SubSeq(b, p + 1, p + 4)]
Ends(b, p) == p + 4 + IntAt(b, p)
DataAt(b, p) == SubSeq(b, p + 5, Ends(b, p))

\* The bytes b have a whole field at p.
HasField(b, p) == /\ p + 4 <= Len(b)
                  /\ IntAt(b, p) \in 0..(Len(b) - p - 4)

\* The bytes b are the fields of a message and nothing more.
IsBody(b) ==
    /\ HasField(b, 4)
    /\ HasField(b, Ends(b, 4))
    /\ HasField(b, Ends(b, Ends(b, 4)))
    /\ LET flag == Ends(b, Ends(b, Ends(b, 4))) IN
          HasField(b, flag + 1) /\ Ends(b, flag + 1) = Len(b)

\* The InternalMessage constructor, for such bytes.
Parsed(b) ==
    LET reciever == Ends(b, 4)
        sender   == Ends(b, reciever)
        flag     == Ends(b, sender)
    IN  [type          |-> IntAt(b, 0),
         correlationId |-> DataAt(b, 4),
         reciever      |-> DataAt(b, reciever),
         sender        |-> DataAt(b, sender),
         noAck         |-> b[flag + 1] = 1,
         payload       |-> DataAt(b, flag + 1)]

=============================================================================
