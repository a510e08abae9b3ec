--------------------------- MODULE MultipartParser ---------------------------
(***************************************************************************)
(* MultipartFormDataParser of httplib, fed with a form as the serializer    *)
(* writes it, cut into reads wherever the network likes.  A text is a       *)
(* sequence of letters: "-", the return and line feed "r" and "n", "B" for  *)
(* the boundary's own characters, "h" for a header line, "x" for others.    *)
(***************************************************************************)
EXTENDS Integers, Sequences

CONSTANTS
  Contents,     (* what a part may hold                                     *)
  MaxParts,     (* parts of a form, at most                                 *)
  ReadSizes,    (* how many bytes a read may bring                          *)
  FirstWhole    (* the first read brings the whole of the first boundary    *)

Letters == {"-", "r", "n", "B", "h", "x"}
crlf_ == <<"r", "n">>
dash_ == <<"-", "-">>
dash_boundary_crlf_ == dash_ \o <<"B">> \o crlf_
crlf_dash_boundary_ == crlf_ \o dash_ \o <<"B">>

(***************************************************************************)
(* serialize_multipart_formdata: the text from each part on.                *)
(***************************************************************************)
ItemBegin == dash_boundary_crlf_ \o <<"h">> \o crlf_ \o crlf_
Finish == dash_ \o <<"B">> \o dash_ \o crlf_

Forms == UNION {[1..n -> Contents] : n \in 1..MaxParts}
Serialized(items) ==
  LET from[i \in 1..(Len(items) + 1)] ==
        IF i > Len(items) THEN Finish ELSE ItemBegin \o items[i] \o crlf_ \o from[i + 1]
  IN from

(***************************************************************************)
(* The parser: its state, what it has buffered, the parts it has handed on. *)
(***************************************************************************)
StartsWith(buf, s) == Len(s) <= Len(buf) /\ SubSeq(buf, 1, Len(s)) = s
Erase(buf, n) == SubSeq(buf, n + 1, Len(buf))

(* The boundary is drawn at random: no part holds the delimiter.            *)
Constants ==
  /\ MaxParts \in Nat \ {0} /\ ReadSizes \subseteq Nat \ {0} /\ FirstWhole \in BOOLEAN
  /\ Contents \subseteq Seq(Letters)
  /\ \A c \in Contents : \A i \in 0..Len(c) : ~StartsWith(Erase(c, i), crlf_dash_boundary_)

(* buf_find: how much comes before s, or all there is.                      *)
Find(buf, s) ==
  LET at == {i \in 0..(Len(buf) - Len(s)) : StartsWith(Erase(buf, i), s)}
  IN IF at = {} THEN Len(buf) ELSE CHOOSE i \in at : \A j \in at : i <= j

Wait(p) == [p EXCEPT !.waits = TRUE]
Bad(p) == [p EXCEPT !.ok = FALSE]

InitialBoundary(p) ==
  LET rest == Erase(p.buf, Find(p.buf, dash_boundary_crlf_))
  IN IF Len(dash_boundary_crlf_) > Len(rest) THEN Wait([p EXCEPT !.buf = rest])
     ELSE [p EXCEPT !.buf = Erase(rest, Len(dash_boundary_crlf_)), !.state = 1]

NewEntry(p) == [p EXCEPT !.state = 2]

(* A header line at a time, up to the empty line that begins the body.      *)
Headers(p) ==
  LET pos == Find(p.buf, crlf_)
  IN IF pos = Len(p.buf) THEN Wait(p)
     ELSE IF pos = 0
     THEN [p EXCEPT !.buf = Erase(@, Len(crlf_)), !.state = 3, !.parts = Append(@, <<>>)]
     ELSE [p EXCEPT !.buf = Erase(@, pos + Len(crlf_))]

Hand(p, n) == [p.parts EXCEPT ![Len(p.parts)] = @ \o SubSeq(p.buf, 1, n)]

Body(p) ==
  LET pos == Find(p.buf, crlf_dash_boundary_)
      sure == Len(p.buf) - Len(crlf_dash_boundary_)
  IN IF sure < 0 THEN Wait(p)
     ELSE IF pos < Len(p.buf)
     THEN [p EXCEPT !.parts = Hand(p, pos), !.buf = Erase(@, pos + Len(crlf_dash_boundary_)), !.state = 4]
     ELSE Wait([p EXCEPT !.parts = Hand(p, sure), !.buf = Erase(@, sure)])

(* Mutant: of the dashes that end the form the first is enough.             *)
BoundaryOneDash(p) ==
  IF StartsWith(p.buf, crlf_) THEN [p EXCEPT !.buf = Erase(@, Len(crlf_)), !.state = 1]
  ELSE IF StartsWith(p.buf, <<"-">>) THEN [p EXCEPT !.valid = TRUE, !.buf = <<>>]
  ELSE Bad(p)

(* What follows the last boundary is dropped, as far as it has come.        *)
Boundary(p) ==
  IF Len(p.buf) < Len(crlf_) THEN Wait(p)
  ELSE IF StartsWith(p.buf, crlf_) THEN [p EXCEPT !.buf = Erase(@, Len(crlf_)), !.state = 1]
  ELSE IF StartsWith(p.buf, dash_) THEN [p EXCEPT !.valid = TRUE, !.buf = <<>>]
  ELSE Wait(p)

Turn(p) ==
  CASE p.state = 0 -> InitialBoundary(p)
    [] p.state = 1 -> NewEntry(p)
    [] p.state = 2 -> Headers(p)
    [] p.state = 3 -> Body(p)
    [] p.state = 4 -> Boundary(p)

-----------------------------------------------------------------------------
VARIABLES form, position, parser, outcome

vars == <<form, position, parser, outcome>>

Init ==
  /\ form \in Forms
  /\ position = 0 /\ outcome = "none"
  /\ parser = [state |-> 0, buf |-> <<>>, parts |-> <<>>, valid |-> FALSE, ok |-> TRUE, waits |-> FALSE]

Text == Serialized(form)[1]

(* The loop of parse goes on until it waits for more or the form is bad.    *)
Parsing == parser.buf # <<>> /\ ~parser.waits /\ parser.ok

Parse ==
  /\ Parsing
  /\ parser' = Turn(parser)
  /\ outcome' = IF parser'.ok THEN outcome ELSE "bad_request"
  /\ UNCHANGED <<form, position>>

(* read_content_core hands each read to the parser.                         *)
Read(n) ==
  /\ outcome = "none" /\ ~Parsing /\ position + n <= Len(Text)
  /\ FirstWhole /\ position = 0 => n >= Len(dash_boundary_crlf_)
  /\ position' = position + n
  /\ parser' = [parser EXCEPT !.buf = @ \o SubSeq(Text, position + 1, position + n), !.waits = FALSE]
  /\ UNCHANGED <<form, outcome>>

AtEnd ==
  /\ outcome = "none" /\ ~Parsing /\ position = Len(Text)
  /\ outcome' = IF parser.valid THEN "good" ELSE "bad_request"
  /\ UNCHANGED <<form, position, parser>>

Next == Parse \/ AtEnd \/ \E n \in ReadSizes : Read(n)

Spec == Init /\ [][Next]_vars
FairSpec == Spec /\ WF_vars(Next)
-----------------------------------------------------------------------------
(* However a form is cut into reads, the parts that come out of the parser  *)
(* are those that went into the serializer. With FirstWhole FALSE the code  *)
(* does not keep this: a first boundary that comes in two reads is lost.    *)
RoundTrip == outcome # "none" => outcome = "good" /\ parser.parts = form

(* What is handed on of a part is at every moment a beginning of it: no     *)
(* piece of a delimiter is ever taken for content and later found out.      *)
PartsArePrefixes ==
  \A i \in DOMAIN parser.parts :
    /\ i <= Len(form) /\ StartsWith(form[i], parser.parts[i])
    /\ i < Len(parser.parts) => parser.parts[i] = form[i]

(* Between two reads the parser holds back no more of a body than could be  *)
(* the delimiter after it.                                                  *)
HoldsLittle == parser.state = 3 /\ ~Parsing => Len(parser.buf) <= Len(crlf_dash_boundary_)
=============================================================================
