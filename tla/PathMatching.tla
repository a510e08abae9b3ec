---------------------------- MODULE PathMatching ----------------------------
(***************************************************************************)
(* What httplib's server makes of the path of a request: whether it matches *)
(* a route with parameters (PathParamsMatcher, pattern and path compared    *)
(* character by character without splitting either), and whether it may     *)
(* name a file (is_valid_path).  A path grows by a character at a time.     *)
(***************************************************************************)
EXTENDS Integers, Sequences, FiniteSets, SequencesExt

CONSTANTS
  Characters,   (* of paths                                                 *)
  Patterns,     (* routes, as sequences of characters                       *)
  MaxLength     (* bound on the length of a path                            *)

Constants ==
  MaxLength \in Nat /\ \A p \in Patterns : p \in Seq(ToSet(p)) /\ "NUL" \notin ToSet(p)

VARIABLES
  pattern,    (* the route                                                  *)
  path        (* Request::path                                              *)

vars == <<pattern, path>>

Init == pattern \in Patterns /\ path = <<>>

(* parse_request_line: any text may be a path.                              *)
Grow ==
  /\ Len(path) < MaxLength
  /\ \E c \in Characters : path' = Append(path, c)
  /\ UNCHANGED pattern

Next == Grow

Spec == Init /\ [][Next]_vars

-----------------------------------------------------------------------------
(* Positions count from 0, as in the code; find gives the length when there *)
(* is nothing to find.                                                      *)
At(s, i) == s[i + 1]
Find(s, c, from) ==
  LET found == {i \in from..(Len(s) - 1) : At(s, i) = c}
  IN IF found = {} THEN Len(s) ELSE CHOOSE i \in found : \A j \in found : i <= j
Part(s, from, to) == SubSeq(s, from + 1, to)        (* from included, to not *)

(* The constructor: where the n-th parameter ends, one past its separator.  *)
Markers(p) == Cardinality({i \in DOMAIN p : p[i] = ":"})
ParamEnd(p) ==
  LET end[n \in 0..Markers(p)] ==
        IF n = 0 THEN 0 ELSE Find(p, "/", Find(p, ":", end[n - 1]) + 1) + 1
  IN end

(* Parameters as far as there are markers after the last one's end: a colon *)
(* within a name is part of it.                                             *)
Params(p) == Cardinality({n \in 1..Markers(p) : Find(p, ":", ParamEnd(p)[n - 1]) < Len(p)})

Fragment(p, n) == Part(p, ParamEnd(p)[n - 1], Find(p, ":", ParamEnd(p)[n - 1]))
Rest(p) == Part(p, ParamEnd(p)[Params(p)], Len(p))

static_fragments_(p) ==
  [n \in 1..Params(p) |-> Fragment(p, n)] \o (IF Rest(p) = <<>> THEN <<>> ELSE <<Rest(p)>>)

(* match: where the comparison goes on after each fragment and the          *)
(* parameter that follows it, or -1 when it has failed.                     *)
Starts(p, s) ==
  LET fragments == static_fragments_(p)
      start[i \in 0..Len(fragments)] ==
        IF i = 0 THEN 0
        ELSE LET from == start[i - 1]
                 to == from + Len(fragments[i])
             IN IF from = -1 \/ to > Len(s) \/ Part(s, from, to) # fragments[i] THEN -1
                ELSE IF i > Params(p) THEN to
                ELSE Find(s, "/", to) + 1
  IN start

matches(p, s) ==
  LET last == Starts(p, s)[Len(static_fragments_(p))]
  IN last # -1 /\ last >= Len(s)

path_params(p, s) ==
  [n \in 1..Params(p) |->
     LET from == Starts(p, s)[n - 1] + Len(Fragment(p, n)) IN Part(s, from, Find(s, "/", from))]

-----------------------------------------------------------------------------
(* The text between slashes; is_valid_path passes over empty ones.  Nth is  *)
(* the n-th of some numbers.                                                *)
Nth(S, n) == CHOOSE x \in S : Cardinality({y \in S : y <= x}) = n
Slashes(s) == {i \in 0..(Len(s) - 1) : At(s, i) = "/"}
Segments(s) ==
  LET all == Slashes(s) \cup {Len(s)}
      ends == [n \in 1..Cardinality(all) |-> Nth(all, n)]
  IN [n \in DOMAIN ends |-> Part(s, IF n = 1 THEN 0 ELSE ends[n - 1] + 1, ends[n])]

Components(s) ==
  LET named == {n \in DOMAIN Segments(s) : Segments(s)[n] # <<>>}
  IN [n \in 1..Cardinality(named) |-> Segments(s)[Nth(named, n)]]

(* Mutant: only where the path ends is looked at.                           *)
LevelsOnly(cs) ==
  LET level[n \in 0..Len(cs)] ==
        IF n = 0 THEN 0
        ELSE IF cs[n] = <<".">> THEN level[n - 1]
        ELSE IF cs[n] = <<".", ".">> THEN level[n - 1] - 1
        ELSE level[n - 1] + 1
  IN level

(* The level after each component, -1 when the path has been refused.       *)
Levels(cs) ==
  LET level[n \in 0..Len(cs)] ==
        IF n = 0 THEN 0
        ELSE IF level[n - 1] = -1 THEN -1
        ELSE IF cs[n] = <<".">> THEN level[n - 1]
        ELSE IF cs[n] = <<".", ".">> THEN level[n - 1] - 1
        ELSE level[n - 1] + 1
  IN level

is_valid_path(s) ==
  /\ {"NUL", "\\"} \cap ToSet(s) = {}
  /\ Levels(Components(s))[Len(Components(s))] # -1

-----------------------------------------------------------------------------
(* What the comment on the class promises, segment by segment: a parameter  *)
(* is what is between two slashes, everything else must be the same.        *)
IsParam(c) == c # <<>> /\ c[1] = ":"
Alike(ps, ss, upTo) == \A n \in 1..upTo : IsParam(ps[n]) \/ ps[n] = ss[n]
SameSegments(ps, ss) == Len(ps) = Len(ss) /\ Alike(ps, ss, Len(ps))

(* Where the code departs from it: match passes over a '/' that ends a      *)
(* parameter without looking whether there is one, so that one too many in  *)
(* the path, which the comment in match denies, or one missing is not seen. *)
OneSlashMore(ps, ss) ==
  /\ Len(ss) = Len(ps) + 1 /\ Last(ss) = <<>>
  /\ IsParam(Last(ps)) /\ Alike(ps, ss, Len(ps))
OneSlashLess(ps, ss) ==
  /\ Len(ps) = Len(ss) + 1 /\ Last(ps) = <<>>
  /\ IsParam(ps[Len(ss)]) /\ Alike(ps, ss, Len(ss))

(* A path with the segments of the route is matched by it, no other one is  *)
(* but for that slash, and the parameters found are whole segments of the   *)
(* path: match and the constructor of PathParamsMatcher together.  That the *)
(* slash should not be passed over is LongerRefused, which is not kept.     *)
MatchesBySegments ==
  LET ps == Segments(pattern)
      ss == Segments(path)
  IN /\ SameSegments(ps, ss) => matches(pattern, path)
     /\ matches(pattern, path) =>
          SameSegments(ps, ss) \/ OneSlashMore(ps, ss) \/ OneSlashLess(ps, ss)
     /\ matches(pattern, path) =>
          path_params(pattern, path) =
            [n \in 1..Params(pattern) |->
               ss[CHOOSE i \in DOMAIN ps : /\ IsParam(ps[i])
                                           /\ Cardinality({j \in 1..i : IsParam(ps[j])}) = n]]

(* Routes as the comment on the class shows them: a segment with a colon    *)
(* begins with one.  The code takes a colon further behind for the start of *)
(* a parameter too, whose value is then no whole segment.                   *)
ColonsBegin ==
  \A p \in Patterns : \A n \in DOMAIN Segments(p) :
    ":" \in ToSet(Segments(p)[n]) => IsParam(Segments(p)[n])

(* A path is valid when it leads nowhere outside the directory it starts    *)
(* from, not even on its way: no beginning of it has more steps up than     *)
(* down, though a later one makes up for it.                                *)
ValidStaysInside ==
  is_valid_path(path) <=>
    /\ {"NUL", "\\"} \cap ToSet(path) = {}
    /\ \A n \in 0..Len(Components(path)) :
         LET begin == SubSeq(Components(path), 1, n)
             Up == {i \in DOMAIN begin : begin[i] = <<".", ".">>}
             Down == {i \in DOMAIN begin : begin[i] \notin {<<".">>, <<".", ".">>}}
         IN Cardinality(Up) <= Cardinality(Down)

(* A path that is longer than its pattern does not match, as the comment on *)
(* the last line of match says.  The code does not keep this of one '/'     *)
(* behind a parameter at the end of the pattern.                            *)
LongerRefused == matches(pattern, path) => Len(Segments(path)) <= Len(Segments(pattern))
=============================================================================
