----------------------------- MODULE FixReceive -----------------------------
(***************************************************************************)
(* How FIX messages are cut out of the bytes of one TCP connection: with   *)
(* the receive cache (FixReceiveCache and parseMultipleMessagesFromBuffer) *)
(* or one by one (FixSession::receive).                                    *)
(*                                                                         *)
(* A client sends well formed messages of any lengths. A byte is known by  *)
(* its place in the stream; of its contents only what the parsers look for *)
(* is kept: where an '8' comes before a '=' (in the tag 8 that starts a    *)
(* message, and in 38=, 98= or 108=), and that the last byte of a message  *)
(* is the delimiter after the checksum. Any number of bytes may have       *)
(* arrived when the reactor reads.                                         *)
(***************************************************************************)
EXTENDS Integers, Sequences, SequencesExt

CONSTANTS
  Modes,        \* of {"caching", "oneByOne"}: is FIX_RECEIVE_CACHE_SIZE set?
  EndOf,        \* EndOf[k] is the last byte of message k in the stream
  Eights,       \* the bytes of the stream that are an '8' before a '='
  Capacity,     \* FIX_RECEIVE_CACHE_SIZE
  HeaderSize,   \* initialBufferSize of FixSession::receive
  BodyStart,    \* position of 35= in a message
  MaxMessages   \* bound: messages the client sends

(* The cache takes every message: one that does not fit is never complete, *)
(* and nothing in the code says so. A message is longer than the part that *)
(* receive() reads first, which reaches into the tag 35.                   *)
ASSUME ConstantsAssumption ==
  /\ Modes \subseteq {"caching", "oneByOne"}
  /\ MaxMessages \in Nat
  /\ HeaderSize \in Nat
  /\ BodyStart \in 1 .. HeaderSize - 1
  /\ EndOf \in [0 .. MaxMessages -> Nat] /\ EndOf[0] = 0
  /\ \A j, k \in 0 .. MaxMessages : j < k => EndOf[j] + HeaderSize < EndOf[k]
  /\ \A k \in 1 .. MaxMessages : EndOf[k - 1] + 1 \in Eights /\ EndOf[k] \notin Eights
  /\ Capacity \in Nat
  /\ \A k \in 1 .. MaxMessages : EndOf[k] - EndOf[k - 1] <= Capacity

VARIABLES
  mode,        \* how the session receives
  arrived,     \* number of bytes the socket has got so far
  read,        \* number of bytes recv has handed out
  buffer,      \* m_buffer[0 .. m_size - 1] of the cache
  header,      \* receive: number of header bytes read, while it reads the body
  delivered,   \* messages given to processMessage, as sequences of bytes
  connLost,    \* errno of the reactor thread says that a connection is lost
  closed,      \* the session was disconnected
  garbled,     \* receive() is out of step, or the copy to the start of the
               \* cache came out wrong: nothing more is said
  decapitated  \* history: messages whose first byte the cache has dropped

vars == <<mode, arrived, read, buffer, header, delivered, connLost, closed, garbled, decapitated>>
-----------------------------------------------------------------------------
Length == EndOf[MaxMessages]
Stream == 1 .. Length
IsLast(byte) == \E k \in 1 .. MaxMessages : byte = EndOf[k]
MessageOf(byte) == CHOOSE k \in 1 .. MaxMessages : EndOf[k - 1] < byte /\ byte <= EndOf[k]

(* Bytes from .. to of the stream *)
Bytes(from, to) == [i \in 1 .. to - from + 1 |-> from + i - 1]

Whole(k) == Bytes(EndOf[k - 1] + 1, EndOf[k])

Init ==
  /\ mode \in Modes
  /\ arrived = 0
  /\ read = 0
  /\ buffer = <<>>
  /\ header = 0
  /\ delivered = <<>>
  /\ connLost = FALSE
  /\ closed = FALSE
  /\ garbled = FALSE
  /\ decapitated = {}

Arrive ==
  /\ arrived' \in arrived + 1 .. Length
  /\ UNCHANGED <<mode, read, buffer, header, delivered, connLost, closed, garbled, decapitated>>

(* A system call of the reactor thread for another connection fails. errno *)
(* then keeps its value until the next one that fails.                     *)
OtherCallFails ==
  /\ connLost' = ~connLost
  /\ UNCHANGED <<mode, arrived, read, buffer, header, delivered, closed, garbled, decapitated>>
-----------------------------------------------------------------------------
(* With the cache *)

(* Faulty variant: fixMessageStarted is not reset after a message. *)
StartsNotReset(bytes, end) ==
  {i \in 1 .. end - 1 : bytes[i] \in Eights}

(* Where a message that ends at index end may start: after an '8=' that    *)
(* comes after the end of the last message. fixMessageStarted becomes true *)
(* at the first of them and false after the checksum.                      *)
Starts(bytes, end) ==
  {i \in 1 .. end - 1 : /\ bytes[i] \in Eights
                        /\ \A j \in i .. end - 1 : ~IsLast(bytes[j])}

(* Faulty variant: the loop stops before the last byte. *)
EndsAllButLast(bytes) ==
  {end \in 1 .. Len(bytes) - 1 : IsLast(bytes[end]) /\ Starts(bytes, end) # {}}

(* The ends of the messages that are complete *)
Ends(bytes) ==
  {end \in 1 .. Len(bytes) : IsLast(bytes[end]) /\ Starts(bytes, end) # {}}

(* The loop of parseMultipleMessagesFromBuffer: the messages that are      *)
(* complete after each byte                                                *)
Parsed(bytes) ==
  LET parsed[i \in 0 .. Len(bytes)] ==
        IF i = 0 THEN <<>>
        ELSE IF i \in Ends(bytes)
             THEN Append(parsed[i - 1], SubSeq(bytes, Min(Starts(bytes, i)), i))
             ELSE parsed[i - 1]
  IN  parsed

(* It starts again at the first byte each time. *)
ParseMultipleMessages(bytes) == Parsed(bytes)[Len(bytes)]

(* remainingBytesStartIndex *)
RestStart(bytes) == Max(Ends(bytes) \cup {0}) + 1

(* Faulty variant: newSize is endIndex - startIndex. *)
RemainingShort(bytes, rest) ==
  IF Len(bytes) > rest THEN SubSeq(bytes, rest, Len(bytes) - 1) ELSE <<>>

(* FixReceiveCache::parse compares the index of the last byte with the     *)
(* index of the first one that is not parsed: both are the same when one   *)
(* byte remains.                                                           *)
Remaining(bytes, rest) ==
  IF Len(bytes) > rest THEN SubSeq(bytes, rest, Len(bytes)) ELSE <<>>

(* moveBufferToStart copies with memcpy, which is undefined when the bytes *)
(* that remain are more than those in front of them.                       *)
Overlaps(bytes, rest) == Len(bytes) > rest /\ Len(bytes) - rest + 1 > rest - 1

(* getRemainingBufferSize *)
Room == Capacity - Len(buffer)

(* handleClient with the cache. If no message is complete, checkErrors     *)
(* asks errno, which a successful recv does not set.                       *)
ReceiveWithCaching ==
  /\ mode = "caching"
  /\ ~closed
  /\ ~garbled
  /\ arrived > read
  /\ LET size  == Min({Room, arrived - read})
         bytes == buffer \o Bytes(read + 1, read + size)
         none  == Ends(bytes) = {}
         rest  == RestStart(bytes)
     IN  /\ read' = read + size
         /\ delivered' = delivered \o ParseMultipleMessages(bytes)
         /\ buffer' = IF none THEN bytes ELSE Remaining(bytes, rest)
         /\ closed' = (none /\ connLost)
         /\ decapitated' = decapitated \cup
              IF ~none /\ rest = Len(bytes) THEN {MessageOf(bytes[rest])} ELSE {}
         /\ garbled' \in IF ~none /\ Overlaps(bytes, rest) THEN BOOLEAN ELSE {FALSE}
  /\ UNCHANGED <<mode, arrived, header, connLost>>
-----------------------------------------------------------------------------
(* One by one: FixSession::receive calls recv twice. *)

(* The header has to reach the tag 35, or the length of the rest is        *)
(* computed from a body length of 0 or a wrong start. If it ends with the  *)
(* '3', the byte that is compared with '5' is one that was not received.   *)
ReceiveHeader ==
  /\ mode = "oneByOne"
  /\ ~garbled
  /\ header = 0
  /\ arrived > read
  /\ LET size == Min({HeaderSize, arrived - read})
     IN  /\ read' = read + size
         /\ garbled' \in IF size = BodyStart THEN BOOLEAN ELSE {size < BodyStart}
         /\ header' = IF garbled' THEN 0 ELSE size
  /\ UNCHANGED <<mode, arrived, buffer, delivered, connLost, closed, decapitated>>

(* remainingBytes = fixBodyLength - receivedBodyLength + trailerSize: what *)
(* the message that the header begins has left                             *)
RemainingBytes == EndOf[MessageOf(read)] - read

(* If nothing of the rest has arrived recv sets errno to EAGAIN and the    *)
(* header is lost; if a part has, the message is processed without its end. *)
ReceiveBody ==
  /\ header > 0
  /\ LET size == Min({RemainingBytes, arrived - read})
     IN  /\ read' = read + size
         /\ garbled' = (size < RemainingBytes)
         /\ delivered' = IF size = 0 THEN delivered
                         ELSE Append(delivered, Bytes(read - header + 1, read + size))
         /\ connLost' = (connLost /\ size > 0)
  /\ header' = 0
  /\ UNCHANGED <<mode, arrived, buffer, closed, decapitated>>
-----------------------------------------------------------------------------
HandleClient == ReceiveWithCaching \/ ReceiveHeader \/ ReceiveBody

Next == Arrive \/ OtherCallFails \/ HandleClient

(* The reactor reads a socket as long as it is readable. *)
Spec == Init /\ [][Next]_vars /\ WF_vars(HandleClient)
-----------------------------------------------------------------------------
(* Properties *)

(* Every variable holds values of its type; what is in the cache ends      *)
(* where recv has got to.                                                  *)
TypeOK ==
  /\ mode \in {"caching", "oneByOne"}
  /\ arrived \in 0 .. Length
  /\ read \in 0 .. arrived
  /\ buffer \in Seq(Stream) /\ Len(buffer) <= Capacity
  /\ buffer # <<>> => Last(buffer) = read
  /\ header \in 0 .. HeaderSize
  /\ delivered \in Seq(Seq(Stream))
  /\ {connLost, closed, garbled} \subseteq BOOLEAN
  /\ decapitated \subseteq 1 .. MaxMessages

(* The messages that receive() or the cache cut out of the stream are      *)
(* messages of the client, in order and none twice, however the bytes were *)
(* spread over reads. A message whose first byte the cache has dropped may *)
(* be delivered without its beginning, and none after it is affected. This *)
(* ends with a header of receive() that does not reach the tag 35, a body  *)
(* that is not there yet, or a copy of parse() that overlaps.              *)
DamageIsConfined ==
  ~garbled =>
    \A i \in 1 .. Len(delivered) :
      LET k == MessageOf(delivered[i][1])
      IN  /\ delivered[i] = Whole(k) \/ k \in decapitated
          /\ \A j \in 1 .. i - 1 : MessageOf(delivered[j][1]) < k

(* Every message that has arrived is delivered whole, unless the cache has *)
(* dropped its first byte, the session is garbled or the client was        *)
(* disconnected: a part of a message in the cache does not get stuck.      *)
MessagesGetThrough ==
  \A k \in 1 .. MaxMessages :
    (arrived >= EndOf[k]) ~>
      \/ Whole(k) \in {delivered[i] : i \in 1 .. Len(delivered)}
      \/ k \in decapitated \/ garbled \/ closed

(* The cache hands over the messages of the client as they were sent. Not  *)
(* so: one byte that remains after a message is dropped.                   *)
MessagesArriveWhole ==
  mode = "caching" => \A i \in 1 .. Len(delivered) : delivered[i] = Whole(i)
=============================================================================
