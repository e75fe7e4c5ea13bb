-------------------------------- MODULE Queries -------------------------------
(***************************************************************************)
(* Calls that only compute an answer: edits and positions in a text, glob  *)
(* patterns, walks of a directory tree, and lookups among symbols.  A      *)
(* behaviour is one question and its answer; TLC asks every question of    *)
(* Questions, and each answer is compared with one that is found another   *)
(* way: by index instead of by line, by segment instead of by character,   *)
(* by a condition on each path instead of by a walk.                       *)
(***************************************************************************)
EXTENDS TextQueries, SymbolTree, SequencesExt

CONSTANTS MaxSegments,  \* bound: segments of a pattern and of a path
          MaxSymbols    \* bound: symbols of a document

ASSUME BoundsAssumption == {MaxSegments, MaxSymbols} \subseteq Nat

-----------------------------------------------------------------------------
(* Patterns, of segments, with alternatives by braces or commas.             *)

Segments == {<<"*", "*">>, <<"*">>, <<"x">>, <<"?">>, <<"x", "*">>, <<"[", "x", "y", "]">>}
Names == {<<"x">>, <<"y">>, <<"x", "y">>}
Spell(segments) ==
  IF segments = <<>> THEN <<>>
  ELSE FoldLeft(LAMBDA s, t : s \o <<"/">> \o t, segments[1], Tail(segments))
SeqsUpto(S, n) == UNION {[1 .. k -> S] : k \in 1 .. n}

PatternQuestions ==
  [kind : {"pattern"}, form : {"one"}, segments : SeqsUpto(Segments, MaxSegments),
   other : {<<"x">>}, path : SeqsUpto(Names, MaxSegments)]
  \cup [kind : {"pattern"}, form : {"braces", "commas"}, segments : SeqsUpto(Segments, 2),
        other : {<<"y">>, <<"*">>}, path : SeqsUpto(Names, 2)]

\* A pattern with two alternatives for its last segment, or two patterns.
PatternOf(q) ==
  LET n == Len(q.segments)
      either == <<"{">> \o q.segments[n] \o <<",">> \o q.other \o <<"}">>
  IN  CASE q.form = "one" -> Spell(q.segments)
        [] q.form = "braces" -> Spell([q.segments EXCEPT ![n] = either])
        [] q.form = "commas" -> Spell(q.segments) \o <<",">> \o q.other

\* One segment with one name.
RECURSIVE SegmentMatches(_, _)
SegmentMatches(segment, name) ==
  CASE segment = <<>> -> name = <<>>
    [] segment # <<>> /\ segment[1] = "*" ->
         \E n \in 0 .. Len(name) : SegmentMatches(Tail(segment), SubSeq(name, n + 1, Len(name)))
    [] segment # <<>> /\ segment[1] = "[" ->
         name # <<>> /\ name[1] \in {"x", "y"} /\ SegmentMatches(<<>>, Tail(name))
    [] OTHER -> /\ name # <<>> /\ segment[1] \in {"?", name[1]}
                /\ SegmentMatches(Tail(segment), Tail(name))

\* "**" stands for any names, at the end of a pattern for one name or more.
RECURSIVE PathMatches(_, _)
PathMatches(segments, path) ==
  CASE segments = <<>> -> path = <<>>
    [] segments # <<>> /\ segments[1] = <<"*", "*">> ->
         IF Len(segments) = 1 THEN path # <<>>
         ELSE \E n \in 0 .. Len(path) : PathMatches(Tail(segments), SubSeq(path, n + 1, Len(path)))
    [] OTHER -> /\ path # <<>> /\ SegmentMatches(segments[1], path[1])
                /\ PathMatches(Tail(segments), Tail(path))

ShouldMatch(q) ==
  LET n == Len(q.segments)
  IN  \/ PathMatches(q.segments, q.path)
      \/ q.form = "braces" /\ PathMatches([q.segments EXCEPT ![n] = q.other], q.path)
      \/ q.form = "commas" /\ PathMatches(<<q.other>>, q.path)

-----------------------------------------------------------------------------
(* Directory trees: a project p, and q outside of it; p/x and p/y are        *)
(* missing, files, directories, or links to directories.                     *)

Project == <<"p">>
Outside == <<"q">>
Allowed == {Project}
Px == <<"p", "x">>
Py == <<"p", "y">>

Missing == [kind |-> "missing", to |-> <<>>]
Fixed == (<<>> :> Dir) @@ (Project :> Dir) @@ (Outside :> Dir) @@ (<<"q", "x">> :> File)
FileSystems ==
  LET nodes == {f \in [{Px, Py, Append(Px, "x"), Append(Px, "y"), Append(Py, "x")} ->
                         {Missing, File, Dir, Link(Project), Link(Outside), Link(Px)}] :
                  /\ f[Px] # Link(Px) /\ f[Py] # Link(Outside)
                  /\ \A name \in {"x", "y"} :
                       \/ f[Append(Px, name)] = Missing
                       \/ f[Px] = Dir /\ f[Append(Px, name)] \in {File, Link(Project), Dir}
                  /\ f[Append(Px, "y")] # Link(Project)
                  /\ \/ f[Append(Py, "x")] = Missing
                     \/ f[Py] = Dir /\ f[Append(Py, "x")] = File}
  IN  {[path \in {p \in DOMAIN f : f[p] # Missing} |-> f[path]] @@ Fixed : f \in nodes}

\* Paths inside and outside, with and without links, "..", and names that are missing.
PathQuestions ==
  [kind : {"path"}, fs : FileSystems, mustExist : BOOLEAN,
   path : {<<"p">> \o s : s \in SeqsUpto({"x", "y", "q", Up}, 3)} \cup {Project, Outside, <<"q", "y">>}]

WalkQuestions ==
  [kind : {"walk"}, fs : FileSystems,
   path : {Project, Px, Py, Append(Px, Up), Outside, Append(Py, "x")},
   include : {<<"*", "*">>, <<"*">>, <<"x", "/", "*">>, <<"*", "*", "/", "x">>},
   exclude : {<<>>, <<"y">>, <<"x", "/", "*", "*">>},
   type : {"any", "file", "directory"}, maxDepth : NoLimit .. 2, maxResults : {2}]

\* Lines of what grep opens, by link too: whether it is found depends on the name.
LinesOf(fs) ==
  LET lines(real) == CASE ~Exists(fs, real) \/ IsDir(fs, real) -> <<>>
                       [] Exists(fs, real) /\ ~IsDir(fs, real) /\ Last(real) = "x" -> <<TRUE, FALSE, TRUE>>
                       [] OTHER -> <<FALSE, TRUE>>
  IN  [p \in DOMAIN fs |-> lines(Real(fs, p))]

Walked(q) ==
  LET v == Validated(q.fs, Allowed, q.path, TRUE)
      on == [base |-> v.path, include |-> q.include, exclude |-> q.exclude, type |-> q.type,
             maxDepth |-> q.maxDepth, maxResults |-> q.maxResults]
      targets == GrepTargets(q.fs, on)
  IN  IF v.raised # "no" THEN [raised |-> v.raised]
      ELSE [raised |-> "no", base |-> v.path,
            exists |-> ExistsAs(q.fs, Allowed, q.path, q.type),
            found |-> IF IsDir(q.fs, v.path) THEN Found(q.fs, on, v.path) ELSE <<>>,
            result |-> IF IsDir(q.fs, v.path) THEN FindFiles(q.fs, on) ELSE [count |-> 0, matches |-> <<>>],
            targets |-> targets,
            grep |-> Grep(targets, LinesOf(q.fs), q.maxResults, 1),
            listed |-> IF IsDir(q.fs, v.path) THEN Listed(q.fs, v.path, {}) ELSE <<>>,
            shown |-> IF IsDir(q.fs, v.path) THEN TreeLines(q.fs, v.path, q.maxDepth, {"y"}, 0) ELSE <<>>]

\* A path below the base that a walk comes to: it is no link's child, and no directory
\* on the way is excluded.
Reached(q, base, path) ==
  LET above == {SubSeq(path, 1, n) : n \in Len(base) + 1 .. Len(path) - 1}
  IN  /\ IsIn(base, path) /\ path # base
      /\ \A d \in above : q.fs[d].kind = "dir" /\ ~MatchesAny(Spelled(base, d), q.exclude)
      /\ ~MatchesAny(Spelled(base, path), q.exclude)
Wanted(q, base, path) == Reached(q, base, path) /\ MatchesAny(Spelled(base, path), q.include)

\* A path of names that leads somewhere, each link followed, and never out of the project
\* on the way.
Leads(fs, hide, base, names) ==
  \A n \in 1 .. Len(names) :
    LET dir == base \o SubSeq(names, 1, n - 1)
    IN  IsDir(fs, dir) /\ Append(Real(fs, dir), names[n]) \in DOMAIN fs /\ names[n] \notin hide
Stays(fs, base, names) ==
  \A n \in 0 .. Len(names) - 1 : IsIn(Project, Real(fs, base \o SubSeq(names, 1, n)))

-----------------------------------------------------------------------------
(* Symbols.                                                                  *)

\* parent[k] is k - 1 or one of its ancestors, or there is none.
RECURSIVE Parents(_)
Parents(n) ==
  IF n = 0 THEN {<<>>}
  ELSE LET chain[f \in Parents(n - 1), k \in 0 .. n - 1] == IF k = 0 THEN {0} ELSE {k} \cup chain[f, f[k]]
       IN  UNION {{Append(f, k) : k \in chain[f, n - 1]} : f \in Parents(n - 1)}

Symbol(name, kind, parent, from, to) ==
  LET at(k) == <<k \div 2, k % 2>>
      named == IF kind = "function" /\ from + 1 < to THEN from + 1 ELSE from
  IN  [name |-> name, kind |-> kind, parent |-> parent,
       range |-> [start |-> at(from), end |-> at(to)],
       selection |-> [start |-> at(named), end |-> at(named)]]

Positions == (0 .. 2) \X (0 .. 1)

\* Documents by their names, on one range; and by nested ranges of six positions on
\* three lines, where siblings follow each other.
NamedDocuments ==
  {[k \in DOMAIN f |-> Symbol(names[k], "function", f[k], 0, 5)] :
     f \in Parents(MaxSymbols), names \in [1 .. MaxSymbols -> {"A", "B"}]}
RangedDocuments ==
  LET n == MaxSymbols - 1
      ranges == {r \in [1 .. n -> (0 .. 5) \X (0 .. 5)] : \A k \in 1 .. n : r[k][1] < r[k][2]}
      nested(f, r) == \A k \in 1 .. n :
                        /\ f[k] # 0 => r[f[k]][1] <= r[k][1] /\ r[k][2] <= r[f[k]][2]
                        /\ \A j \in 1 .. k - 1 : f[j] = f[k] => r[j][2] <= r[k][1]
  IN  {[k \in 1 .. n |-> Symbol("A", c[1][k], c[2][k], c[3][k][1], c[3][k][2])] :
         c \in {c \in [1 .. n -> {"function", "variable"}] \X Parents(n) \X ranges : nested(c[2], c[3])}}

NameQuestions == [kind : {"name"}, doc : NamedDocuments, path : SeqsUpto({"A", "B"}, 3)]
LocationQuestions ==
  [kind : {"location"}, doc : RangedDocuments, at : Positions, dotted : {"no name", "A"}]
TreeQuestions == [kind : {"symbol tree"}, fs : FileSystems]

\* The server is asked for references without declarations: never for a symbol's own name.
Uses(doc) == {p \in Positions : \A i \in DOMAIN doc : doc[i].selection.start # p}

Located(q) ==
  LET others == SetToSeq(Positions)
  IN  [symbol |-> SymbolAtLocation(q.doc, q.at),
       container |-> ContainingSymbol(q.doc, q.at, FALSE),
       outer |-> ContainingSymbol(q.doc, q.at, TRUE),
       implementing |-> ImplementingSymbols(q.doc, q.at, others),
       references |-> ReferencingSymbols(q.doc, SetToSeq(Uses(q.doc)), q.dotted, TRUE, FALSE)]

Sources == {"x"}
TreeOf(q) ==
  LET files == SymbolFiles(q.fs, Project, Project, {}, Sources, 0)
  IN  [files |-> files,
       accepted |-> IF files = Overflow THEN files ELSE Locations(q.fs, Project, files, {}, Sources)]

\* The symbol's own name and those of its ancestors, outermost first.
RECURSIVE Ancestry(_, _)
Ancestry(doc, i) == IF i = NoSymbol THEN <<>> ELSE Append(Ancestry(doc, doc[i].parent), doc[i].name)
\* The path is the end of the ancestry: a chain of parents and children, without gaps.
IsChained(doc, i, path) == IsSuffix(path, Ancestry(doc, i))
\* The path is some of the names of the ancestry, in order, and ends with the last.
RECURSIVE Embeds(_, _)
Embeds(names, path) ==
  \/ path = <<>>
  \/ /\ names # <<>> /\ Last(names) = Last(path)
     /\ Embeds(Front(names), Front(path))
  \/ names # <<>> /\ path # <<>> /\ Embeds(Front(names), path)
IsNamed(doc, i, path) == doc[i].name = Last(path) /\ Embeds(Ancestry(doc, i), path)

\* Directories of the project that links and entries lead to.
RECURSIVE DirsFrom(_, _)
DirsFrom(fs, dirs) ==
  LET next == dirs \cup {Real(fs, p) : p \in {p \in DOMAIN fs : p # <<>> /\ Front(p) \in dirs
                                                   /\ IsDir(fs, p) /\ IsIn(Project, Real(fs, p))}}
  IN  IF next = dirs THEN dirs ELSE DirsFrom(fs, next)
Below(fs, dir) ==
  DirsFrom(fs, {Real(fs, p) : p \in {p \in DOMAIN fs : p # <<>> /\ Front(p) = dir
                                           /\ IsDir(fs, p) /\ IsIn(Project, Real(fs, p))}})

-----------------------------------------------------------------------------
Init ==
  \/ TextInit
  \/ /\ answer = <<>>
     /\ \/ question \in PatternQuestions \/ question \in WalkQuestions
        \/ question \in NameQuestions \/ question \in LocationQuestions
        \/ question \in TreeQuestions \/ question \in PathQuestions

AskPattern == Asked("pattern") /\ answer' = <<MatchesAny(Spell(question.path), PatternOf(question))>>
AskPath == Asked("path") /\ answer' = <<Validated(question.fs, Allowed, question.path, question.mustExist)>>
AskWalk == Asked("walk") /\ answer' = <<Walked(question)>>
AskName == Asked("name") /\ answer' = <<Find(question.doc, question.path)>>
AskLocation == Asked("location") /\ answer' = <<Located(question)>>
AskTree == Asked("symbol tree") /\ answer' = <<TreeOf(question)>>

Next == TextNext \/ AskPattern \/ AskPath \/ AskWalk \/ AskName \/ AskLocation \/ AskTree

Spec == Init /\ [][Next]_vars

-----------------------------------------------------------------------------
(* Properties.                                                               *)

\* x is present exactly once in a sequence for every x of a set, and nothing else is.
Enumerates(seq, S) == Len(seq) = Cardinality(S) /\ ToSet(seq) = S

\* A pattern matches name by name: "*" and "?" never match a "/", "**" stands for any
\* directories, none too, alternatives are each matched in full, and commas between
\* patterns are seen before those in braces.
PatternsMatchSegments == Answered("pattern") => answer[1] = ShouldMatch(question)

\* A path that is there is answered with where it leads, which has no links and is inside.
\* One that is not there, with itself, and its nearest ancestor that is there is a directory
\* that leads inside; or it was to be there.
PathAgrees(q, a) ==
  LET lexical == Normalized(q.path)
      upto(n) == SubSeq(lexical, 1, n)
      there == {n \in 0 .. Len(lexical) : Exists(q.fs, upto(n))}
      ground == CHOOSE n \in there : \A m \in there : m <= n
      inside == IsIn(Project, Real(q.fs, upto(ground)))
      missing == ground # Len(lexical)
      stopped == missing /\ (q.mustExist \/ ~IsDir(q.fs, upto(ground)))
  IN  /\ a.raised = "denied" <=> ~IsIn(Project, lexical) \/ (~stopped /\ ~inside)
      /\ a.raised = "missing" <=> IsIn(Project, lexical) /\ stopped
      /\ a.raised = "no" /\ missing => a.path = lexical
      /\ a.raised = "no" /\ ~missing =>
           /\ a.path = Real(q.fs, lexical)
           /\ \A n \in 1 .. Len(a.path) : q.fs[SubSeq(a.path, 1, n)].kind # "link"

\* What grep and find say, for a directory.
SearchAgrees(q, a) ==
  LET wanted == {p \in DOMAIN q.fs : Wanted(q, a.base, p)}
      kind(p) == IF IsDir(q.fs, p) THEN "directory" ELSE "file"
      depth == IF q.maxDepth = 0 THEN 1 ELSE q.maxDepth
      near(p) == depth = NoLimit \/ Len(p) - Len(a.base) <= depth
      files == {p \in wanted : kind(p) = "file"}
      hits == {<<p, i>> \in files \X (1 .. 3) : i \in DOMAIN LinesOf(q.fs)[p] /\ LinesOf(q.fs)[p][i]}
  IN  /\ Enumerates(a.found, {p \in wanted : near(p) /\ q.type \in {"any", kind(p)}})
      /\ a.result.count = Len(a.found)
      /\ a.result.matches = SubSeq(a.found, 1, AtMost(Len(a.found), q.maxResults))
      /\ Enumerates(a.targets, files)
      /\ a.grep.total = Cardinality(hits)
      /\ Len(a.grep.matches) = AtMost(Cardinality(hits), q.maxResults)
      /\ \A m \in ToSet(a.grep.matches) : <<m.file, m.line>> \in hits
      /\ \A p \in files : IF p \in DOMAIN a.grep.counts
                            THEN a.grep.counts[p] = Cardinality({h \in hits : h[1] = p})
                            ELSE \A h \in hits : h[1] # p

\* What tree and list_directory show of a directory; nothing is said of what tree shows
\* beyond a link that leads out of the project.
DisplayAgrees(q, a) ==
  LET below == SeqsUpto({"x", "y"}, IF q.maxDepth = NoLimit THEN 3 ELSE q.maxDepth)
      names(p) == SubSeq(p, Len(a.base) + 1, Len(p))
      short == {p \in ToSet(a.shown) : Len(p) - Len(a.base) <= 3 /\ Stays(q.fs, a.base, names(p))}
      listed == {e.path : e \in ToSet(a.listed)}
  IN  /\ short = {a.base \o n : n \in {n \in below : Leads(q.fs, {"y"}, a.base, n)
                                                       /\ Stays(q.fs, a.base, n)}}
      /\ listed = {p \in DOMAIN q.fs : p # <<>> /\ Front(p) = a.base}
      /\ \A e \in ToSet(a.listed) : q.fs[e.path].kind # "link" =>
           ExistsAs(q.fs, Allowed, e.path, e.type) = "yes"

\* Directories from which links and entries lead back to themselves.
Reachable(fs) == DirsFrom(fs, {Project})
Circular(fs) == \E dir \in Reachable(fs) : dir \in Below(fs, dir)
SourcesIn(fs) == {Real(fs, p) : p \in {p \in DOMAIN fs : /\ p # <<>> /\ Front(p) \in Reachable(fs)
                                                         /\ Exists(fs, p) /\ ~IsDir(fs, p)
                                                         /\ IsIn(Project, Real(fs, p))
                                                         /\ Last(Real(fs, p)) \in Sources}}

\* A tool goes on only with a path that leads into an allowed root, or that is missing below
\* a directory that does, and refuses no other; then find_files reports what the patterns,
\* the type and max_depth ask for, each once, and counts more than it lists; grep searches
\* the files find would report without a limit; tree, list_directory and exists agree on
\* what is there; and the symbol tree has the source files that entries and links lead to,
\* where no directory leads back to itself.
WalksAgree ==
  /\ Answered("path") => PathAgrees(question, answer[1])
  /\ Answered("walk") =>
       LET q == question
           a == answer[1]
       IN  a.raised = "no" =>
             /\ IF IsDir(q.fs, a.base) THEN SearchAgrees(q, a) /\ DisplayAgrees(q, a)
                ELSE a.targets = <<a.base>> /\ a.found = <<>>
             /\ a.exists = "yes" <=>
                  q.type = "any" \/ q.type = IF IsDir(q.fs, a.base) THEN "directory" ELSE "file"
  /\ Answered("symbol tree") /\ ~Circular(question.fs) =>
       ToSet(answer[1].files) = SourcesIn(question.fs) /\ answer[1].accepted = answer[1].files

\* The symbols that may contain a position and whose range does, strictly if asked.
Around(doc, p, strict) ==
  {k \in DOMAIN doc :
     /\ \/ doc[k].kind = "variable"
        \/ doc[k].kind \in Containers /\ Line(doc[k].range.start) # Line(doc[k].range.end)
     /\ Before(p, doc[k].range.end)
     /\ IF strict THEN Before(doc[k].range.start, p) ELSE ~Before(p, doc[k].range.start)}

\* The container is the innermost of these, where there is one, they begin on lines of
\* their own, and lines are enough to tell what the position is in.
Encloses(doc, p, i, strict) ==
  LET around == Around(doc, p, strict)
      apart == \A j, k \in around : Line(doc[j].range.start) = Line(doc[k].range.start) => j = k
  IN  around # {} /\ apart /\ around = Holders(doc, p, strict) =>
        i \in around /\ \A k \in around \ {i} : IsBelow(doc, i, k)

Implements(doc, p, result) ==
  LET target == SymbolAtLocation(doc, p)
      like(k) == doc[k].name = doc[target].name /\ doc[k].kind = doc[target].kind
  IN  /\ \A m, n \in DOMAIN result :
           doc[result[m]].kind = doc[result[n]].kind
             /\ doc[result[m]].range.start = doc[result[n]].range.start => m = n
      /\ \A i \in ToSet(result) : /\ i # NoSymbol
                                  /\ target # NoSymbol /\ doc[target].kind = "function" /\ ~like(i) =>
                                       \A k \in DOMAIN doc : IsBelow(doc, k, i) => ~like(k)

\* Each use in a symbol that may contain one is reported, with a symbol that holds it.
Reports(doc, result) ==
  LET held == {p \in Uses(doc) : Holders(doc, p, FALSE) # {}}
  IN  /\ Len(result) >= Cardinality(held)
      /\ \A p \in held : Holders(doc, p, FALSE) \cap ToSet(result) # {}

\* A name path finds the first symbol, in the order of the document, that is the end of a
\* chain of parents and children with these names, where none has them with others in
\* between; a position finds the innermost symbol that matches it and the innermost that
\* contains it; an implementation is the member of the name that was asked for, where the
\* server names its class, and is found once; and every use in a symbol is reported.
SymbolsAreFound ==
  /\ Answered("name") =>
       LET doc == question.doc
           chained == {i \in DOMAIN doc : IsChained(doc, i, question.path)}
           named == {i \in DOMAIN doc : IsNamed(doc, i, question.path)}
       IN  named = chained =>
             answer[1] = IF chained = {} THEN NoSymbol
                         ELSE CHOOSE i \in chained : \A k \in chained : i <= k
  /\ Answered("location") =>
       LET doc == question.doc
           a == answer[1]
       IN  /\ InnermostMatches(doc, question.at, a.symbol)
           /\ Encloses(doc, question.at, a.container, FALSE) /\ Encloses(doc, question.at, a.outer, TRUE)
           /\ Implements(doc, question.at, a.implementing)
           /\ Reports(doc, a.references)
=============================================================================
