--------------------------- MODULE ContentTransfer ---------------------------
(***************************************************************************)
(* How httplib sends the content of a message from a content provider and   *)
(* reads it at the other end: with a length, in chunks, or until the        *)
(* connection closes.  Bytes are numbered; the wire carries them and the    *)
(* marks of the chunked coding, in the order written.                       *)
(***************************************************************************)
EXTENDS Naturals, Sequences

CONSTANTS
  Length,   (* bytes of the content                                         *)
  Piece,    (* bytes a provider writes at once, at most                     *)
  BufSize   (* CPPHTTPLIB_RECV_BUFSIZ                                       *)

Constants == Length \in Nat /\ {Piece, BufSize} \subseteq Nat \ {0}

VARIABLES
  mode,        (* "length", "chunked" or "close"                            *)
  offset,      (* bytes the provider has written                            *)
  writer,      (* what write_content has returned                           *)
  down,        (* is_shutting_down(): the server was stopped                *)
  wire, cut,   (* what is on its way; nothing comes after it                *)
  reader, left,(* what is read next, bytes left of the length or the chunk  *)
  received,    (* bytes handed to the receiver                              *)
  result       (* what read_content has returned                            *)

source == <<offset, writer, down>>
sink == <<reader, left, received, result>>
vars == <<mode, source, wire, cut, sink>>

Mark(kind, n) == <<[kind |-> kind, n |-> n]>>
Bytes(from, n) == [i \in 1..n |-> [kind |-> "byte", n |-> from + i]]

Init ==
  /\ mode \in {"length", "chunked", "close"}
  /\ offset = 0 /\ writer = "writing" /\ down = FALSE
  /\ wire = <<>> /\ cut = FALSE
  /\ reader = (IF mode = "chunked" THEN "size" ELSE "byte")
  /\ left = (IF mode = "length" THEN Length ELSE 0)
  /\ received = <<>> /\ result = "none"

(***************************************************************************)
(* write_content, write_content_without_length, write_content_chunked.      *)
(***************************************************************************)
Writing == writer = "writing" /\ ~down /\ ~cut /\ UNCHANGED <<mode, down, cut, sink>>

SizeMark(n) == IF mode = "chunked" THEN Mark("size", n) ELSE <<>>
EndMark == IF mode = "chunked" THEN Mark("crlf", 0) ELSE <<>>

WritePiece(n) ==
  /\ Writing /\ offset + n <= Length
  /\ wire' = wire \o SizeMark(n) \o Bytes(offset, n) \o EndMark
  /\ offset' = offset + n
  /\ UNCHANGED writer

(* The provider says that it is done; with a length, nobody asks it.        *)
Done ==
  /\ Writing /\ offset = Length
  /\ writer' = "true"
  /\ wire' = IF mode = "chunked" THEN wire \o Mark("size", 0) \o Mark("trailer", 0) ELSE wire
  /\ UNCHANGED offset

(* A piece of no bytes that the provider writes last ends the loop of the   *)
(* chunks, without their end.                                              *)
WriteNothing ==
  /\ Writing /\ mode = "chunked"
  /\ writer' = "true" /\ UNCHANGED <<offset, wire>>

(* The provider returned false, or the stream could not be written to.      *)
Fail == Writing /\ writer' = "false" /\ UNCHANGED <<offset, wire>>

(* The loop ends when the server is being stopped, whatever is left.        *)
Interrupted ==
  /\ writer = "writing" /\ down
  /\ writer' = "true"
  /\ UNCHANGED <<mode, offset, down, wire, cut, sink>>

StopServer == ~down /\ down' = TRUE /\ UNCHANGED <<mode, offset, writer, wire, cut, sink>>

(* The connection is closed after a failure, a stop, or content that only   *)
(* the close ends; or it breaks, and loses some of what was on its way.     *)
Close ==
  /\ ~cut /\ writer # "writing" /\ (writer = "false" \/ down \/ mode = "close")
  /\ cut' = TRUE /\ UNCHANGED <<mode, source, wire, sink>>

Break ==
  /\ ~cut /\ cut' = TRUE
  /\ \E n \in 0..Len(wire) : wire' = SubSeq(wire, 1, n)
  /\ writer' = IF writer = "writing" THEN "false" ELSE writer
  /\ UNCHANGED <<mode, offset, down, sink>>

(***************************************************************************)
(* read_content_with_length, _without_length, _chunked.                     *)
(***************************************************************************)
Reads(here) == result = "none" /\ reader = here /\ UNCHANGED <<mode, source, cut>>
Next1(kind) == wire # <<>> /\ Head(wire).kind = kind
Expecting == IF mode = "close" THEN BufSize ELSE IF left < BufSize THEN left ELSE BufSize
Come(n) == n <= Len(wire) /\ \A i \in 1..n : wire[i].kind = "byte"

(* A read returns some of the bytes that have come, at least one.           *)
Take(n) == n \in 1..Expecting /\ Come(n)

ReadBytes(n) ==
  /\ Reads("byte") /\ Take(n)
  /\ received' = received \o [i \in 1..n |-> wire[i].n]
  /\ wire' = SubSeq(wire, n + 1, Len(wire))
  /\ IF mode = "close" THEN UNCHANGED <<left, reader, result>>
     ELSE /\ left' = left - n
          /\ reader' = IF left' = 0 /\ mode = "chunked" THEN "crlf" ELSE "byte"
          /\ UNCHANGED result

(* The receiver wants no more.                                             *)
Refused ==
  /\ Reads("byte") /\ Next1("byte") /\ Expecting > 0
  /\ wire' = Tail(wire) /\ result' = "false" /\ UNCHANGED <<reader, left, received>>

(* r = len.                                                                 *)
ReadAll ==
  /\ Reads("byte") /\ mode = "length" /\ left = 0
  /\ result' = "true" /\ UNCHANGED <<wire, reader, left, received>>

ReadSize ==
  /\ Reads("size") /\ Next1("size")
  /\ wire' = Tail(wire) /\ left' = Head(wire).n
  /\ reader' = IF left' = 0 THEN "trailer" ELSE "byte"
  /\ UNCHANGED <<received, result>>

ReadCrlf ==
  /\ Reads("crlf") /\ Next1("crlf")
  /\ wire' = Tail(wire) /\ reader' = "size"
  /\ UNCHANGED <<left, received, result>>

ReadTrailer ==
  /\ Reads("trailer") /\ Next1("trailer")
  /\ wire' = Tail(wire) /\ result' = "true"
  /\ UNCHANGED <<reader, left, received>>

(* Mutant: what ends content without a length ends the chunks as well.      *)
EndedAnyhow ==
  /\ result = "none" /\ wire = <<>> /\ ~(mode = "length" /\ left = 0)
  /\ result' = IF mode = "length" THEN "false" ELSE "true"
  /\ UNCHANGED <<mode, source, wire, cut, reader, left, received>>

(* No more comes, or nothing came in time.  Without a length either is the  *)
(* end of the content.                                                      *)
Ended ==
  /\ result = "none" /\ wire = <<>> /\ ~(mode = "length" /\ left = 0)
  /\ result' = IF mode = "close" THEN "true" ELSE "false"
  /\ UNCHANGED <<mode, source, wire, cut, reader, left, received>>

Read ==
  \/ \E n \in 1..BufSize : ReadBytes(n)
  \/ Refused \/ ReadAll \/ ReadSize \/ ReadCrlf \/ ReadTrailer

Next ==
  \/ \E n \in 1..Piece : WritePiece(n)
  \/ WriteNothing \/ Done \/ Fail \/ Interrupted \/ StopServer \/ Close \/ Break
  \/ Read \/ Ended

Spec == Init /\ [][Next]_vars

(* Reads have a timeout.                                                    *)
FairSpec == Spec /\ WF_vars(Read \/ Ended)
-----------------------------------------------------------------------------
TypeOK ==
  /\ mode \in {"length", "chunked", "close"} /\ offset \in 0..Length
  /\ {writer, result} \subseteq {"writing", "none", "true", "false"}
  /\ {down, cut} \subseteq BOOLEAN
  /\ wire \in Seq([kind : {"size", "byte", "crlf", "trailer"}, n : Nat])
  /\ reader \in {"size", "byte", "crlf", "trailer"} /\ left \in Nat
  /\ received \in Seq(Nat)

(* Whatever is cut, what was handed over is the beginning of the content,   *)
(* each byte once and in order, and never a mark of the coding.             *)
InOrder == Len(received) <= offset /\ \A i \in DOMAIN received : received[i] = i

(* Content with a length or in chunks is reported as read only if all of it *)
(* was: neither an end of the connection nor a timeout passes for its end.  *)
ReadIsWhole == result = "true" /\ mode # "close" => Len(received) = Length

(* The reader understands all that the writer writes.                       *)
Understood ==
  result = "none" /\ wire # <<>> =>
    \/ Head(wire).kind = reader
    \/ mode = "length" /\ left = 0

(* Reading ends, when nothing comes any more by a timeout.                  *)
Ends == <>(result # "none")

(* The resource releaser is told of a success only if the provider's        *)
(* content was written to its end. The code does not keep this when the     *)
(* server stops meanwhile, nor of chunks that a piece of no bytes ends.     *)
SuccessIsWhole == writer = "true" => offset = Length
=============================================================================
