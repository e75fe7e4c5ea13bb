----------------------------- MODULE FileQueries ------------------------------
(***************************************************************************)
(* The tools that look at a directory tree without changing it             *)
(* (fs_tools.py): validate_path, glob patterns, find_files, the targets of *)
(* grep, grep, tree, list_directory and exists.                            *)
(*                                                                         *)
(* A file system is a function from absolute paths to nodes; a path is the *)
(* sequence of its names, <<>> the root of the file system.  Names are     *)
(* single characters, so that a path relative to some directory can be     *)
(* spelled out for the patterns.                                           *)
(***************************************************************************)
EXTENDS Integers, Sequences, SequencesExt

Dir == [kind |-> "dir", to |-> <<>>]
File == [kind |-> "file", to |-> <<>>]
Link(path) == [kind |-> "link", to |-> path]

None == <<"none">>
IsIn(dir, path) == IsPrefix(dir, path)

-----------------------------------------------------------------------------
(* Paths: what the operating system does, and validate_path.                 *)

Up == ".."
\* normpath: lexical, before any link is followed.
Normalized(path) ==
  FoldLeft(LAMBDA done, name : IF name # Up THEN Append(done, name)
                               ELSE IF done = <<>> THEN <<>> ELSE Front(done),
           <<>>, path)

\* realpath: links are followed from the root on; None for a missing path, or after
\* more links than the system follows.
LinkLimit == 3
RECURSIVE Followed(_, _, _, _)
Followed(fs, done, rest, links) ==
  IF rest = <<>> THEN done
  ELSE LET next == Append(done, Head(rest))
       IN  IF next \notin DOMAIN fs \/ links > LinkLimit THEN None
           ELSE IF fs[next].kind = "link"
             THEN Followed(fs, <<>>, fs[next].to \o Tail(rest), links + 1)
           ELSE IF fs[next].kind = "file" /\ Len(rest) > 1 THEN None
           ELSE Followed(fs, next, Tail(rest), links)
Real(fs, path) == Followed(fs, <<>>, path, 0)

Exists(fs, path) == Real(fs, path) # None
IsDir(fs, path) == Exists(fs, path) /\ (Real(fs, path) = <<>> \/ fs[Real(fs, path)].kind = "dir")

IsWithinAllowed(allowed, path) == \E dir \in allowed : IsIn(dir, path)

\* The nearest ancestor that exists.
NearestAncestor(fs, path) ==
  LET there == {n \in 0 .. Len(path) - 1 : Exists(fs, SubSeq(path, 1, n))}
  IN  SubSeq(path, 1, CHOOSE n \in there : \A m \in there : m <= n)

\* validate_path: the path that the tool goes on with, or what it raises.
Validated(fs, allowed, path, mustExist) ==
  LET resolved == Normalized(path)
      ancestor == NearestAncestor(fs, resolved)
      real == IF Exists(fs, resolved) THEN Real(fs, resolved) ELSE Real(fs, ancestor)
  IN  CASE ~IsWithinAllowed(allowed, resolved) -> [raised |-> "denied", path |-> None]
        [] IsWithinAllowed(allowed, resolved) /\ ~Exists(fs, resolved)
             /\ (mustExist \/ ~IsDir(fs, ancestor)) -> [raised |-> "missing", path |-> None]
        [] OTHER ->
             IF ~IsWithinAllowed(allowed, real) THEN [raised |-> "denied", path |-> None]
             ELSE [raised |-> "no", path |-> IF Exists(fs, resolved) THEN real ELSE resolved]

\* exists: a missing path is an answer, not an error; the type follows links.
ExistsAs(fs, allowed, path, type) ==
  LET v == Validated(fs, allowed, path, TRUE)
  IN  CASE v.raised = "denied" -> "denied"
        [] v.raised = "missing" -> "no"
        [] OTHER -> IF type = "any" \/ (type = "directory") = IsDir(fs, v.path) THEN "yes" ELSE "no"

-----------------------------------------------------------------------------
(* Glob patterns; a pattern and what it is matched with are spelled out.     *)

\* _split_top_level_commas
SplitTopLevel(pattern) ==
  LET step(s, c) ==
        CASE c = "{" -> [s EXCEPT !.depth = @ + 1, !.current = Append(@, c)]
          [] c = "}" -> [s EXCEPT !.depth = IF @ = 0 THEN 0 ELSE @ - 1, !.current = Append(@, c)]
          [] c = "," /\ s.depth = 0 -> [s EXCEPT !.parts = Append(@, s.current), !.current = <<>>]
          [] OTHER -> [s EXCEPT !.current = Append(@, c)]
      end == FoldLeft(step, [parts |-> <<>>, depth |-> 0, current |-> <<>>], pattern)
  IN  Append(end.parts, end.current)

\* str.split(",")
SplitCommas(text) ==
  LET step(s, c) == IF c = "," THEN Append(s, <<>>) ELSE [s EXCEPT ![Len(s)] = Append(@, c)]
  IN  FoldLeft(step, <<<<>>>>, text)

\* The index of the brace that closes the one at i, or 0.
Closing(pattern, i) ==
  LET count(c, j) == Len(SelectSeq(SubSeq(pattern, i, j), LAMBDA d : d = c))
      balanced == {j \in i .. Len(pattern) : count("{", j) = count("}", j)}
  IN  IF balanced = {} THEN 0 ELSE CHOOSE j \in balanced : \A k \in balanced : j <= k

\* _expand_braces: the first group is split at every comma, nested ones too.
RECURSIVE ExpandBraces(_)
ExpandBraces(pattern) ==
  LET opens == {i \in 1 .. Len(pattern) : pattern[i] = "{"}
      open == CHOOSE i \in opens : \A j \in opens : i <= j
      close == Closing(pattern, open)
      options == SplitCommas(SubSeq(pattern, open + 1, close - 1))
      with(option) == SubSeq(pattern, 1, open - 1) \o option
                        \o SubSeq(pattern, close + 1, Len(pattern))
  IN  IF opens = {} THEN <<pattern>>
      ELSE IF close = 0 THEN <<pattern>>
      ELSE FlattenSeq([i \in DOMAIN options |-> ExpandBraces(with(options[i]))])

\* Faulty variant: the directories that "**/" stands for are one or more.
SlashedSome(ends, slashed) == slashed
\* "**/" stands for any directories, none too.
Slashed(ends, slashed) == ends \cup slashed

Token(op) == [op |-> op, of |-> {}]
OneOf(chars) == [op |-> "char", of |-> ToSet(chars)]

\* _glob_to_regex, as the sequence of what the regular expression is made of.
Tokens(pattern) ==
  LET n == Len(pattern)
      is(i, c) == i <= n /\ pattern[i] = c
      ends(i) == {j \in i + 1 .. n : pattern[j] = "]"}
      end(i) == CHOOSE j \in ends(i) : \A k \in ends(i) : j <= k
      from[i \in 1 .. n + 1] ==
        CASE i > n -> <<>>
          [] is(i, "*") /\ is(i + 1, "*") /\ is(i + 2, "/") -> <<Token("dirs")>> \o from[i + 3]
          [] is(i, "*") /\ is(i + 1, "*") /\ ~is(i + 2, "/") -> <<Token("all")>> \o from[i + 2]
          [] is(i, "*") /\ ~is(i + 1, "*") -> <<Token("name")>> \o from[i + 1]
          [] is(i, "?") -> <<Token("one")>> \o from[i + 1]
          [] is(i, "[") /\ ends(i) # {} -> <<OneOf(SubSeq(pattern, i + 1, end(i) - 1))>> \o from[end(i) + 1]
          [] OTHER -> <<OneOf(<<pattern[i]>>)>> \o from[i + 1]
  IN  from[1]

\* The ends of what the expression so far can match, after one more part of it.
Match(text, ends, token) ==
  LET plain(i, j) == \A k \in i + 1 .. j : text[k] # "/"
      all == 0 .. Len(text)
      slashed == {j \in all : j > 0 /\ text[j] = "/" /\ \E i \in ends : i < j}
      next == {j \in all : j - 1 \in ends}
  IN  CASE token.op = "dirs" -> Slashed(ends, slashed)
        [] token.op = "all" -> {j \in all : \E i \in ends : i <= j}
        [] token.op = "name" -> {j \in all : \E i \in ends : i <= j /\ plain(i, j)}
        [] token.op = "one" -> {j \in next : text[j] # "/"}
        [] token.op = "char" -> {j \in next : text[j] \in token.of}

\* _compile_glob_patterns and _matches_any
Patterns(pattern) ==
  FlattenSeq([i \in DOMAIN SplitTopLevel(pattern) |->
               LET raw == SplitTopLevel(pattern)[i] IN IF raw = <<>> THEN <<>> ELSE ExpandBraces(raw)])
MatchesAny(text, pattern) ==
  \E one \in ToSet(Patterns(pattern)) :
    Len(text) \in FoldLeft(LAMBDA ends, token : Match(text, ends, token), {0}, Tokens(one))

-----------------------------------------------------------------------------
(* Walks.                                                                    *)

\* How the path of a node is spelled for the patterns, relative to the base.
Spelled(base, path) ==
  LET rel == SubSeq(path, Len(base) + 1, Len(path))
  IN  IF rel = <<>> THEN <<>> ELSE FoldLeft(LAMBDA s, name : s \o <<"/", name>>, <<rel[1]>>, Tail(rel))

\* Entries of a directory, in some order.
Entries(fs, dir) ==
  SetToSeq({path \in DOMAIN fs : Len(path) = Len(dir) + 1 /\ IsPrefix(dir, path)})
\* os.walk tells directories, also by link, from the rest.
Dirs(fs, dir) == SelectSeq(Entries(fs, dir), LAMBDA p : IsDir(fs, p))
Others(fs, dir) == SelectSeq(Entries(fs, dir), LAMBDA p : ~IsDir(fs, p))

\* A max_depth of None; 0 is a depth like any other.
NoLimit == -1

\* Faulty variant: what is at max_depth is not even reported.
ReportedHere(fs, q, dirs) ==
  SelectSeq(dirs, LAMBDA p : q.maxDepth = NoLimit \/ Len(p) - Len(q.base) < q.maxDepth)
\* All directories of a level are reported, whether the walk goes into them or not.
Reported(fs, q, dirs) == dirs

\* find_files: a level is reported, then the walk goes into the directories that are
\* not excluded, not beyond max_depth and not links; the first level is always reported.
RECURSIVE Found(_, _, _)
Found(fs, q, dir) ==
  LET excluded(p) == MatchesAny(Spelled(q.base, p), q.exclude)
      kind(p) == IF IsDir(fs, p) THEN "directory" ELSE "file"
      level == SelectSeq(Reported(fs, q, Dirs(fs, dir)) \o Others(fs, dir),
                         LAMBDA p : /\ ~excluded(p)
                                    /\ q.type \in {"any", kind(p)}
                                    /\ MatchesAny(Spelled(q.base, p), q.include))
      deeper == q.maxDepth = NoLimit \/ Len(dir) - Len(q.base) + 1 < q.maxDepth
      into == SelectSeq(Dirs(fs, dir), LAMBDA p : deeper /\ ~excluded(p) /\ fs[p].kind = "dir")
  IN  level \o FlattenSeq([i \in DOMAIN into |-> Found(fs, q, into[i])])

FindFiles(fs, q) ==
  LET found == Found(fs, q, q.base)
  IN  [count |-> Len(found),
       matches |-> SubSeq(found, 1, IF Len(found) < q.maxResults THEN Len(found) ELSE q.maxResults)]

\* _iter_grep_targets: a file is its own target, whatever the patterns say.
RECURSIVE GrepBelow(_, _, _)
GrepBelow(fs, q, dir) ==
  LET excluded(p) == MatchesAny(Spelled(q.base, p), q.exclude)
      files == SelectSeq(Others(fs, dir), LAMBDA p : ~excluded(p) /\ MatchesAny(Spelled(q.base, p), q.include))
      into == SelectSeq(Dirs(fs, dir), LAMBDA p : ~excluded(p) /\ fs[p].kind = "dir")
  IN  files \o FlattenSeq([i \in DOMAIN into |-> GrepBelow(fs, q, into[i])])
GrepTargets(fs, q) == IF IsDir(fs, q.base) THEN GrepBelow(fs, q, q.base) ELSE <<q.base>>

\* grep over the lines of its targets, TRUE where the pattern is found; a target that
\* cannot be read, or is binary, has none.  The context of a match are its neighbours.
Grep(targets, lines, maxResults, context) ==
  LET hits(p) == SetToSortSeq({i \in DOMAIN lines[p] : lines[p][i]}, <)
      window(p, i) == {j \in DOMAIN lines[p] : i - context <= j /\ j <= i + context}
      of(p) == [k \in DOMAIN hits(p) |-> [file |-> p, line |-> hits(p)[k], context |-> window(p, hits(p)[k])]]
      all == FlattenSeq([i \in DOMAIN targets |-> of(targets[i])])
  IN  [total |-> Len(all), matches |-> SubSeq(all, 1, IF Len(all) < maxResults THEN Len(all) ELSE maxResults),
       counts |-> [p \in {q \in ToSet(targets) : hits(q) # <<>>} |-> Len(hits(p))]]

\* tree: the paths shown, links to directories followed by their names, wherever they
\* lead.
RECURSIVE TreeLines(_, _, _, _, _)
TreeLines(fs, dir, maxDepth, hide, depth) ==
  LET real == Real(fs, dir)
      names == SelectSeq(Entries(fs, real), LAMBDA p : Last(p) \notin hide)
      shown == [i \in DOMAIN names |-> Append(dir, Last(names[i]))]
      of(p) == <<p>> \o (IF IsDir(fs, p) THEN TreeLines(fs, p, maxDepth, hide, depth + 1) ELSE <<>>)
  IN  IF maxDepth # NoLimit /\ depth >= maxDepth THEN <<>>
      ELSE FlattenSeq([i \in DOMAIN shown |-> of(shown[i])])

\* list_directory: an entry is a directory also by link, else a link or a file.
Listed(fs, dir, hide) ==
  LET entries == SelectSeq(Entries(fs, dir), LAMBDA p : Last(p) \notin hide)
      type(p) == IF IsDir(fs, p) THEN "directory" ELSE IF fs[p].kind = "link" THEN "symlink" ELSE "file"
  IN  [i \in DOMAIN entries |-> [path |-> entries[i], type |-> type(entries[i])]]

=============================================================================
