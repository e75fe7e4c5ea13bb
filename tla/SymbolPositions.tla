---------------------------- MODULE SymbolPositions ----------------------------
(***************************************************************************)
(* The symbol at a position and the symbol that contains one (ls.py        *)
(* _request_symbol_at_location and request_containing_symbol).             *)
(*                                                                         *)
(* A document is the sequence of its symbols in depth-first order; parent  *)
(* is the index of a symbol's parent, 0 for a root.  Positions are pairs   *)
(* of a line and a column, ranges have a start and an end; the end is the  *)
(* first position after the range.                                         *)
(***************************************************************************)
EXTENDS TextEdits

NoSymbol == 0

-----------------------------------------------------------------------------
(* The symbol at a position.                                                 *)

Line(p) == p[1]
Column(p) == p[2]

\* _position_matches_range: both ends are in the range.
MatchesRange(range, p) ==
  /\ Line(range.start) <= Line(p) /\ Line(p) <= Line(range.end)
  /\ Line(p) = Line(range.start) => Column(p) >= Column(range.start)
  /\ Line(p) = Line(range.end) => Column(p) <= Column(range.end)

\* The selection matches, or the range, or as a last resort the symbol begins on the line,
\* at the column or after it; 2 and 3 are for a position that is a start and does not match.
Priority(symbol, p) ==
  LET sel == symbol.selection
      range == symbol.range
      onLine(q) == Line(q) = Line(p) /\ Column(p) <= Column(q)
  IN  CASE MatchesRange(sel, p) -> 0
        [] ~MatchesRange(sel, p) /\ MatchesRange(range, p) -> 1
        [] ~MatchesRange(sel, p) /\ ~MatchesRange(range, p) /\ onLine(sel.start) -> 4
        [] ~MatchesRange(sel, p) /\ ~MatchesRange(range, p) /\ ~onLine(sel.start)
             /\ onLine(range.start) -> 5
        [] OTHER -> 6

\* Faulty variant: the start of the symbol is left out of its span.
SortKeyFlat(symbol, priority) ==
  <<priority, Line(symbol.range.start), Column(symbol.range.start), 0, 0>>
\* _symbol_match_sort_key
SortKey(symbol, priority) ==
  LET from == symbol.range.start
      to == symbol.range.end
      lines == Line(to) - Line(from)
  IN  <<priority, lines, IF lines = 0 THEN Column(to) - Column(from) ELSE Column(to),
        Line(from), Column(from)>>

Less(x, y) == \E n \in DOMAIN x : x[n] < y[n] /\ \A m \in 1 .. n - 1 : x[m] = y[m]

\* The symbol with the least key, the first one of those.
Least(key) ==
  CHOOSE i \in DOMAIN key : \A j \in DOMAIN key \ {i} : Less(key[i] \o <<i>>, key[j] \o <<j>>)

\* _request_symbol_at_location
SymbolAtLocation(doc, p) ==
  LET candidates == {i \in DOMAIN doc : Priority(doc[i], p) < 6}
  IN  IF candidates = {} THEN NoSymbol
      ELSE Least([i \in candidates |-> SortKey(doc[i], Priority(doc[i], p))])

-----------------------------------------------------------------------------
(* The container of a position.                                              *)

Containers == {"function", "class"}

\* is_position_in_range: the end counts by its line alone.
IsPositionInRange(range, p, strict) ==
  /\ Line(p) <= Line(range.end)
  /\ IF strict THEN Line(p) > Line(range.start)
     ELSE \/ Line(p) > Line(range.start)
          \/ Line(p) = Line(range.start) /\ Column(p) >= Column(range.start)

\* request_containing_symbol on a line that is not blank: functions and classes of more
\* than one line, then variables; the one that starts on the greatest line.
ContainingSymbol(doc, p, strict) ==
  LET candidate(i) ==
        \/ doc[i].kind \in Containers /\ Line(doc[i].range.start) # Line(doc[i].range.end)
        \/ doc[i].kind = "variable"
      containing == {i \in DOMAIN doc : candidate(i) /\ IsPositionInRange(doc[i].range, p, strict)}
      order(i) == IF doc[i].kind = "variable" THEN Len(doc) + i ELSE i
  IN  IF containing = {} THEN NoSymbol
      ELSE Least([i \in containing |-> <<-Line(doc[i].range.start), order(i)>>])

-----------------------------------------------------------------------------
(* What these lookups are compared with.                                     *)

\* One symbol lies in another, and the order of matches can tell: not where both span
\* as many lines and end in one place.
ClearlyInside(inner, outer) ==
  LET span(r) == Line(r.end) - Line(r.start)
  IN  /\ inner # outer
      /\ ~Before(inner.start, outer.start) /\ ~Before(outer.end, inner.end)
      /\ ~(span(inner) = span(outer) /\ span(inner) > 0 /\ inner.end = outer.end)

InnermostMatches(doc, p, i) ==
  LET named == {k \in DOMAIN doc : MatchesRange(doc[k].selection, p)}
      around == {k \in DOMAIN doc : MatchesRange(doc[k].range, p)}
      best == IF named # {} THEN named ELSE around
      near == {k \in DOMAIN doc : \E from \in {doc[k].selection.start, doc[k].range.start} :
                                    Line(from) = Line(p) /\ ~Before(from, p)}
  IN  IF best # {} THEN /\ i \in best
                        /\ \A k \in best : ~ClearlyInside(doc[k].range, doc[i].range)
      ELSE IF near = {} THEN i = NoSymbol ELSE i \in near

\* The symbols that may contain a position and do; with strict, not those that begin on
\* its line.
Holders(doc, p, strict) ==
  {k \in DOMAIN doc :
     /\ \/ doc[k].kind = "variable"
        \/ doc[k].kind \in Containers /\ Line(doc[k].range.start) # Line(doc[k].range.end)
     /\ Line(p) <= Line(doc[k].range.end) /\ ~Before(p, doc[k].range.start)
     /\ strict => Line(p) # Line(doc[k].range.start)}
=============================================================================
