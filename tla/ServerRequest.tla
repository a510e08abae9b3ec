---------------------------- MODULE ServerRequest ----------------------------
(***************************************************************************)
(* One turn of httplib's Server::process_request: a request is read, its    *)
(* ranges are parsed, it is routed to a handler, and a response is written. *)
(* Content is a number of bytes; a piece of it is <<offset, length>>.       *)
(* Whatever the handlers are, they set a status, content, both or nothing.  *)
(***************************************************************************)
EXTENDS Integers, Sequences, FiniteSets

CONSTANTS
  RangeHeaders,    (* what Range headers ask: sequences of <<first, last>>  *)
  Sizes,           (* sizes of content                                      *)
  MaxRanges,       (* CPPHTTPLIB_RANGE_MAX_COUNT                            *)
  ErrorHandler,    (* set_error_handler was called                          *)
  RangedRefusals   (* handlers may refuse a request that has ranges         *)

Unset == -1         (* an end of a range that is left out; a status not set  *)

Constants ==
  /\ RangeHeaders \subseteq Seq((Nat \cup {Unset}) \X (Nat \cup {Unset}))
  /\ Sizes \subseteq Nat /\ MaxRanges \in Nat
  /\ {ErrorHandler, RangedRefusals} \subseteq BOOLEAN

VARIABLES
  pc,         (* where process_request is                                   *)
  req,        (* the request: its method, its ranges                        *)
  asked,      (* the ranges of its header, as they were written             *)
  res,        (* the response: its status, kind and size of content         *)
  sent        (* the responses written, interim ones included               *)

vars == <<pc, req, asked, res, sent>>

Methods == {"GET", "HEAD", "POST", "OPTIONS", "PRI", "TRACE"}
Expecting == {"POST", "PRI"}          (* expect_content                     *)
Kinds == {"empty", "body", "provider", "unsized", "chunked"}

Nothing == [status |-> Unset, kind |-> "empty", size |-> 0]

(* set_content, set_content_provider: a provider of no bytes is dropped.    *)
Bodies ==
  {[kind |-> "empty", size |-> 0], [kind |-> "unsized", size |-> 0], [kind |-> "chunked", size |-> 0]}
    \cup [kind : {"body", "provider"}, size : Sizes \ {0}]

With(status, c) == [status |-> status, kind |-> c.kind, size |-> c.size]

Init ==
  /\ pc = "line" /\ asked = <<>> /\ sent = <<>>
  /\ req = [method |-> "GET", ranges |-> <<>>] /\ res = Nothing

-----------------------------------------------------------------------------
(***************************************************************************)
(* Ranges.                                                                  *)
(***************************************************************************)

(* parse_range_header refuses what is not in order within one range.        *)
ParsesRange(h) == \A i \in DOMAIN h : Unset \in {h[i][1], h[i][2]} \/ h[i][1] <= h[i][2]

(* The ends that range_error fills in.                                      *)
Filled(r, n) ==
  LET first == IF r = <<Unset, Unset>> THEN 0 ELSE r[1]
      last == IF r = <<Unset, Unset>> THEN n ELSE r[2]
  IN IF first = Unset THEN <<n - last, n - 1>>
     ELSE IF last = Unset THEN <<first, n - 1>>
     ELSE <<first, last>>

(* Mutant: a suffix is taken from the end before the last byte.             *)
FilledFromEnd(rs, n) ==
  [i \in DOMAIN rs |-> IF rs[i][1] = Unset /\ rs[i][2] # Unset THEN <<n - rs[i][2] - 1, n - 1>>
                       ELSE Filled(rs[i], n)]

FilledAll(rs, n) == [i \in DOMAIN rs |-> Filled(rs[i], n)]

Within(r, n) == 0 <= r[1] /\ r[1] <= r[2] /\ r[2] <= n - 1
Overlapping(rs) == {i \in DOMAIN rs : \E j \in 1..(i - 1) : rs[i][1] <= rs[j][2]}

(* Mutant: how many ranges overlap is not asked.                            *)
RangeErrorUncounted(rs, n) ==
  \/ Len(rs) > MaxRanges
  \/ \E i \in DOMAIN rs : ~Within(rs[i], n)
  \/ \E i \in DOMAIN rs, j \in DOMAIN rs : j < i /\ rs[i][1] <= rs[j][1]

RangeError(rs, n) ==
  \/ Len(rs) > MaxRanges
  \/ \E i \in DOMAIN rs : ~Within(rs[i], n)
  \/ \E i \in DOMAIN rs, j \in DOMAIN rs : j < i /\ rs[i][1] <= rs[j][1]
  \/ Cardinality(Overlapping(rs)) > 2

(* The assertions of get_range_offset_and_length.                           *)
Applicable(rs, n) == \A i \in DOMAIN rs : Unset \notin {rs[i][1], rs[i][2]} /\ Within(rs[i], n)

OffsetAndLength(r) == <<r[1], r[2] - r[1] + 1>>

-----------------------------------------------------------------------------
(***************************************************************************)
(* Writing a response.                                                      *)
(***************************************************************************)

(* What of the content is written: all of it, or the ranges.                *)
Pieces(r, ranges) ==
  IF r.kind = "empty" THEN <<>>
  ELSE IF r.kind \notin {"body", "provider"} \/ ranges = <<>> THEN <<<<0, r.size>>>>
  ELSE [i \in DOMAIN ranges |-> OffsetAndLength(ranges[i])]

Total(pieces) ==
  LET sum[k \in 0..Len(pieces)] == IF k = 0 THEN 0 ELSE sum[k - 1] + pieces[k][2]
  IN sum[Len(pieces)]

(* How the header says where the content ends: apply_ranges, and the zero   *)
(* write_response_core adds by itself.                                      *)
Announced(r, ranges, apply) ==
  IF r.kind = "empty" THEN <<"length", 0, 0>>
  ELSE IF r.kind = "chunked" /\ apply THEN <<"chunked">>
  ELSE IF r.kind \in {"body", "provider"} /\ apply
  THEN <<"length", Total(Pieces(r, ranges)), IF Len(ranges) > 1 THEN Len(ranges) ELSE 0>>
  ELSE <<"nothing">>

Written(r, ranges, apply) ==
  [status |-> r.status, head |-> Announced(r, ranges, apply), size |-> r.size,
   pieces |-> IF req.method = "HEAD" THEN <<>> ELSE Pieces(r, ranges)]

(* An assertion fails: for want of a status, when the handler of Expect has *)
(* refused and set none; or of ranges that cannot be applied.               *)
Aborts(r) ==
  /\ pc' = (IF pc = "expect" /\ r.status = Unset THEN "unanswered" ELSE "aborted")
  /\ sent' = sent

(* write_response_core.                                                     *)
Core(r, ranges, needApply) ==
  \E handled \in IF ErrorHandler /\ r.status >= 400 THEN BOOLEAN ELSE {FALSE},
     size \in Sizes :
    LET final == IF handled THEN With(r.status, [kind |-> IF size = 0 THEN "empty" ELSE "body", size |-> size])
                 ELSE r
        apply == needApply \/ handled
    IN IF r.status = Unset \/ (apply /\ final.kind \in {"body", "provider"} /\ ~Applicable(ranges, final.size))
       THEN Aborts(r)
       ELSE pc' = "done" /\ sent' = Append(sent, Written(final, ranges, apply))

(* write_response: ranges are of no use to an error.                        *)
WriteResponse(r) ==
  /\ Core(r, <<>>, FALSE)
  /\ req' = [req EXCEPT !.ranges = <<>>]
  /\ res' = r

WriteResponseWithContent(r, ranges) ==
  /\ Core(r, ranges, TRUE)
  /\ req' = [req EXCEPT !.ranges = ranges] /\ res' = r

-----------------------------------------------------------------------------
(* A line too long, or a line or headers that cannot be parsed, ends it.    *)
BadLine ==
  /\ pc = "line"
  /\ \E status \in {400, 414, 500} : WriteResponse([res EXCEPT !.status = status])
  /\ UNCHANGED asked

Closed ==
  /\ pc = "line" /\ pc' = "closed" /\ UNCHANGED <<req, asked, res, sent>>

RequestLine ==
  /\ pc = "line"
  /\ \E method \in Methods : req' = [req EXCEPT !.method = method]
  /\ pc' = "range" /\ UNCHANGED <<asked, res, sent>>

(* A header that is no range header at all is an error like a bad range.    *)
RangeHeader ==
  /\ pc = "range"
  /\ \/ UNCHANGED <<req, asked, res, sent>> /\ pc' = "expect"
     \/ \E h \in RangeHeaders :
          /\ asked' = h
          /\ IF ParsesRange(h)
             THEN req' = [req EXCEPT !.ranges = h] /\ pc' = "expect" /\ UNCHANGED <<res, sent>>
             ELSE WriteResponse([res EXCEPT !.status = 416])

(* Expect: 100-continue.  The handler returns a status; 100 and 417 are     *)
(* answered and the request handled all the same.  With any other the       *)
(* response goes out as the handler left it: the status it returned is not  *)
(* put there.  (One that lets the request go on leaves the response alone.) *)
Expect ==
  /\ pc = "expect"
  /\ \/ pc' = "route" /\ UNCHANGED <<req, res, sent>>
     \/ /\ pc' = "route" /\ UNCHANGED <<req, res>>
        /\ \E status \in {100, 417} :
             sent' = Append(sent, [status |-> status, head |-> <<"nothing">>, size |-> 0, pieces |-> <<>>])
     \/ \E status \in {Unset, 401, 413}, c \in Bodies : WriteResponse(With(status, c))
  /\ UNCHANGED asked

(* routing: before any handler; a file; a handler that reads the content    *)
(* itself or one that finds it read; nobody.  Sets r to what they leave.    *)
Handled(r) ==
  \E status \in {Unset, 200, 404}, c \in Bodies :
    /\ r = With(status, c)
    /\ status = 404 /\ req.ranges # <<>> => RangedRefusals

FileFound(r) ==
  /\ req.method \in {"GET", "HEAD"}
  /\ \E n \in Sizes \ {0} : r = With(Unset, [kind |-> "provider", size |-> n])

ReadsContent == req.method \in Expecting
Dispatched == req.method \in {"GET", "HEAD", "POST", "OPTIONS"}

(* read_content's failures; a method nobody handles; no handler.  A handler *)
(* that throws may have set content before.                                 *)
Unrouted ==
  (IF ReadsContent THEN {400, 413, 415, 500} ELSE {})
    \cup (IF Dispatched THEN {Unset} ELSE {400})

Status(r) == IF r.status # Unset THEN r.status ELSE IF req.ranges = <<>> THEN 200 ELSE 206

(* range_error fills in the ends of the ranges of a success, no others.     *)
Routed(r) ==
  LET final == [r EXCEPT !.status = Status(r)]
      ranged == req.ranges # <<>> /\ final.status \in 200..299
      ranges == IF ranged THEN FilledAll(req.ranges, r.size) ELSE req.ranges
  IN IF ranged /\ RangeError(ranges, r.size)
     THEN WriteResponse(With(416, [kind |-> "empty", size |-> 0]))
     ELSE WriteResponseWithContent(final, ranges)

Route ==
  /\ pc = "route"
  /\ \/ \E r \in {With(status, c) : status \in {Unset, 200, 404}, c \in Bodies} :
          (Handled(r) \/ FileFound(r)) /\ Routed(r)
     \/ \E status \in Unrouted :
          WriteResponse([res EXCEPT !.status = IF status = Unset THEN 404 ELSE status])
     \/ \E c \in Bodies : WriteResponse(With(500, c))
  /\ UNCHANGED asked

Next == BadLine \/ Closed \/ RequestLine \/ RangeHeader \/ Expect \/ Route

Spec == Init /\ [][Next]_vars
-----------------------------------------------------------------------------
Statuses == {100, 200, 206, 400, 401, 404, 413, 414, 415, 416, 417, 500}

TypeOK ==
  /\ pc \in {"line", "range", "expect", "route", "done", "closed", "aborted", "unanswered"}
  /\ req.method \in Methods /\ asked \in RangeHeaders \cup {<<>>}
  /\ res.status \in Statuses \cup {Unset} /\ res.kind \in Kinds /\ res.size \in Sizes \cup {0}
  /\ \A i \in DOMAIN sent :
       /\ sent[i].status \in Statuses
       /\ sent[i].head[1] = "length" /\ sent[i].size > 0 =>
            \A k \in DOMAIN sent[i].pieces : sent[i].pieces[k][2] \in 1..sent[i].size

(* The bytes a range asks for, of n: read from what HTTP says of first-,    *)
(* first-last and -suffix.                                                  *)
AskedBytes(r, n) ==
  {b \in 0..(n - 1) :
     IF r[1] = Unset THEN b >= n - r[2] ELSE b >= r[1] /\ (r[2] = Unset \/ b <= r[2])}

PieceBytes(p) == p[1]..(p[1] + p[2] - 1)

(* A partial response consists of exactly the bytes that were asked for,    *)
(* range by range and in the order of the request, and none is empty.       *)
ExactlyAsked ==
  \A i \in DOMAIN sent : sent[i].status = 206 /\ req.method # "HEAD" =>
    /\ Len(sent[i].pieces) = Len(asked)
    /\ \A k \in DOMAIN asked :
         /\ PieceBytes(sent[i].pieces[k]) = AskedBytes(asked[k], sent[i].size)
         /\ sent[i].pieces[k][2] > 0

(* However many ranges overlap, a response is less than three times what    *)
(* there is: what the checks of range_error are for.                        *)
Bounded == \A i \in DOMAIN sent : sent[i].size > 0 => Total(sent[i].pieces) < 3 * sent[i].size

(* No assertion of write_response_core or get_range_offset_and_length fails *)
(* but the one below.                                                       *)
AssertsHold == pc # "aborted"

(* A request that the handler of Expect refuses is answered. The code does  *)
(* not keep this: it asserts a status, and only the handler can set it.     *)
RefusalAnswered == pc # "unanswered"

(* The content of an error is sent whole: ranges are asked of what was      *)
(* found, never of the words that say it was not. The code keeps this of    *)
(* errors it finds itself, not of those a handler sets (RangedRefusals).    *)
ErrorsWhole ==
  \A i \in DOMAIN sent : sent[i].status >= 400 /\ sent[i].pieces # <<>> =>
    sent[i].pieces = <<<<0, sent[i].size>>>>
=============================================================================
