---------------------------- MODULE MCHttpServer ----------------------------
(* The server for TLC, part by part: stops of a server that is ready        *)
(* ("stops"); a server that listens twice, whose accept fails and who is    *)
(* stopped at any time ("live"); one turn of process_request ("request"),   *)
(* the transfer of a content ("content"), a form ("form") and the path of a *)
(* request ("path").                                                        *)
EXTENDS HttpServer, Integers

CONSTANTS
  RangeHeaders, Sizes, MaxRanges, ErrorHandler, RangedRefusals,
  Length, Piece, BufSize,
  Contents, MaxParts, ReadSizes, FirstWhole,
  Characters, Patterns, MaxLength

VARIABLES
  part,
  listener2, holding2, round2, svr_sock2, is_running2, done2, closes2,
  connection2, jobs2, shutdown2, worker2, stopper2, taken2, broken2,
  pc, req, asked, res, sent,
  mode, offset, writer, down, wire, cut, reader, left, received, result,
  form, position, parser, outcome,
  pattern, path

Live == INSTANCE HttpServer WITH
  Connections <- {"c1"}, Stoppers <- {"s1"}, Rounds <- 2, MaxQueued <- 0, MaxRequests <- 2,
  WaitFirst <- FALSE, AcceptFails <- TRUE,
  listener <- listener2, holding <- holding2, round <- round2, svr_sock <- svr_sock2,
  is_running <- is_running2, done <- done2, closes <- closes2, connection <- connection2,
  jobs <- jobs2, shutdown <- shutdown2, worker <- worker2,
  stopper <- stopper2, taken <- taken2, broken <- broken2
Request == INSTANCE ServerRequest
Content == INSTANCE ContentTransfer
Form == INSTANCE MultipartParser
Path == INSTANCE PathMatching

ASSUME PartsAssumption ==
  Request!Constants /\ Content!Constants /\ Form!Constants /\ Path!Constants

live == <<listener2, holding2, round2, svr_sock2, is_running2, done2, closes2,
          connection2, jobs2, shutdown2, worker2, stopper2, taken2, broken2>>
turn == <<pc, req, asked, res, sent>>
content == <<mode, offset, writer, down, wire, cut, reader, left, received, result>>
form_ == <<form, position, parser, outcome>>
path_ == <<pattern, path>>
all == <<part, vars, live, turn, content, form_, path_>>

(* A part that does not run begins in one way only.                         *)
MCInit ==
  /\ part \in {"stops", "live", "request", "content", "form", "path"}
  /\ part # "content" => mode = "length"
  /\ part # "form" => form = <<<<>>>>
  /\ part # "path" => pattern = <<"/">>
  /\ Init /\ Live!Init /\ Request!Init /\ Content!Init /\ Form!Init /\ Path!Init

MCNext ==
  /\ UNCHANGED part
  /\ \/ part = "stops" /\ Next /\ UNCHANGED <<live, turn, content, form_, path_>>
     \/ part = "live" /\ Live!Next /\ UNCHANGED <<vars, turn, content, form_, path_>>
     \/ part = "request" /\ Request!Next /\ UNCHANGED <<vars, live, content, form_, path_>>
     \/ part = "content" /\ Content!Next /\ UNCHANGED <<vars, live, turn, form_, path_>>
     \/ part = "form" /\ Form!Next /\ UNCHANGED <<vars, live, turn, content, path_>>
     \/ part = "path" /\ Path!Next /\ UNCHANGED <<vars, live, turn, content, form_>>

(* The fairness of the parts whose ends are asked for.                      *)
MCFairness ==
  /\ WF_live(part = "live" /\ Live!Proceed) /\ WF_live(part = "live" /\ Live!AcceptError /\ svr_sock2 = 0)
  /\ \A w \in Workers : WF_live(part = "live" /\ Live!Worker(w))
  /\ WF_live(part = "live" /\ Live!Stop("s1"))
  /\ WF_content(part = "content" /\ (Content!Read \/ Content!Ended))

MCSpec == MCInit /\ [][MCNext]_all /\ MCFairness

(* Every header of one range or two, and longer ones of ranges that overlap,*)
(* overtake each other or go past the end of five bytes.                    *)
Ends == {-1, 0, 2, 4}
Pairs == Ends \X Ends
Alone == (Ends \cup {5}) \X (Ends \cup {5})
Long == {<<0, 4>>, <<1, 4>>, <<2, 4>>, <<3, -1>>, <<-1, 1>>}
SomeHeaders ==
  [1..1 -> Alone] \cup [1..2 -> Pairs] \cup [1..3 -> Long]
    \cup {f \in [1..5 -> Long] : \A i \in 1..3 : f[i] = <<i - 1, 4>>}
    \cup {[i \in 1..6 |-> <<i - 1, i - 1>>]}

(* Parts that begin, end or go on like a delimiter, and one that is long.   *)
FewContents ==
  {<<>>, <<"x">>, <<"r", "n">>, <<"r", "n", "-", "-">>, <<"n", "-", "-", "B">>, <<"r", "r", "n", "-">>,
   <<"x", "x", "x", "x", "x", "x", "x", "x", "x">>}

(* Reads of any length up to a whole form.                                  *)
SomeSizes == 1..40

(* Routes with no parameter, one and two, in every position.                *)
MCPatterns ==
  {<<"/">>, <<"/", "a">>, <<"/", ":", "x">>, <<"/", "a", "/", ":", "x">>,
   <<"/", ":", "x", "/">>, <<"/", ":", "x", "/", "a">>, <<"/", ":", "x", "/", ":", "y">>,
   <<"/", ":", "x", "/", "a", "/", ":", "y">>}

-----------------------------------------------------------------------------
(* A stop ends the listen it finds running; and the server that listens     *)
(* twice keeps its connections in one pair of hands.                        *)
StopsEnd == Live!StopEnds /\ [](Live!TypeOK /\ Live!ConnectionsOwned)

(* A request is answered with exactly the ranges it asked for, or with an   *)
(* error whole; no assertion about its ranges fails, and none about its     *)
(* status but when the handler of Expect sets none; and however ranges      *)
(* overlap the answer is less than thrice what there is.                    *)
RightAnswer ==
  /\ Request!TypeOK /\ Request!ExactlyAsked /\ Request!AssertsHold
  /\ Request!ErrorsWhole /\ Request!Bounded

(* What was cut, delayed or given up is never taken for a whole content;    *)
(* and the parts of a form come out as they went in, however it is cut, and *)
(* piece by piece.                                                          *)
ContentWhole ==
  /\ Content!TypeOK /\ Content!InOrder /\ Content!ReadIsWhole /\ Content!Understood
  /\ Form!RoundTrip /\ Form!PartsArePrefixes /\ Form!HoldsLittle

(* What a path names is what is found: a route with its segments, give or   *)
(* take a '/' behind the last parameter, and no file outside the directory. *)
RightlyRead == Path!MatchesBySegments /\ Path!ValidStaysInside

(* What the comment on the last line of PathParamsMatcher::match says of    *)
(* it: "Returns false if the path is longer than the pattern".              *)
LongerRefused == Path!LongerRefused
=============================================================================
