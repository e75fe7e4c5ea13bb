------------------------------ MODULE SymbolTree ------------------------------
(***************************************************************************)
(* Lookups in the symbols of a document and of a directory (ls.py          *)
(* request_document_symbols to request_implementing_symbols, and           *)
(* semantic_tools.py _find_in_tree), but for those by position.            *)
(***************************************************************************)
EXTENDS FileQueries, SymbolPositions

\* Symbols whose parent is i, in order; the roots for 0.
Children(doc, i) == SelectSeq([k \in DOMAIN doc |-> k], LAMBDA k : doc[k].parent = i)

RECURSIVE IsBelow(_, _, _)
IsBelow(doc, k, i) == k # NoSymbol /\ (doc[k].parent = i \/ IsBelow(doc, doc[k].parent, i))
\* _iter_symbol_descendants, depth first.
Descendants(doc, i) == SelectSeq([k \in DOMAIN doc |-> k], LAMBDA k : IsBelow(doc, k, i))

\* overload_idx: among siblings of one name, the number before; -1 where there is one.
OverloadIndex(doc, i) ==
  LET same == {k \in DOMAIN doc : doc[k].parent = doc[i].parent /\ doc[k].name = doc[i].name}
  IN  IF same = {i} THEN -1 ELSE Len(SelectSeq([k \in 1 .. i - 1 |-> k], LAMBDA k : k \in same))

-----------------------------------------------------------------------------
(* Name paths.                                                               *)

\* The first of the results that is a symbol.
FirstSymbol(results) ==
  LET found == SelectSeq(results, LAMBDA r : r # NoSymbol) IN IF found = <<>> THEN NoSymbol ELSE found[1]

\* _find_in_tree: the rest of the path may start at any depth below its beginning.
RECURSIVE FindInTree(_, _, _)
FindInTree(doc, symbols, path) ==
  LET at(i) ==
        IF doc[i].name = path[1] /\ Len(path) = 1 THEN i
        ELSE FirstSymbol(<<IF doc[i].name = path[1]
                             THEN FindInTree(doc, Children(doc, i), Tail(path)) ELSE NoSymbol,
                           FindInTree(doc, Children(doc, i), path)>>)
  IN  FirstSymbol([k \in DOMAIN symbols |-> at(symbols[k])])

Find(doc, path) == FindInTree(doc, Children(doc, 0), path)

-----------------------------------------------------------------------------
(* Implementations and references.                                           *)

\* _refine_implementing_symbol: a member of the target's name and kind is preferred.
Refined(doc, target, i) ==
  LET like(k) == doc[k].name = doc[target].name /\ doc[k].kind = doc[target].kind
      members == {k \in ToSet(Descendants(doc, i)) : like(k)}
  IN  IF target = NoSymbol THEN i
      ELSE IF doc[target].kind # "function" \/ like(i) \/ members = {} THEN i
      ELSE Least([k \in members |-> SortKey(doc[k], 0)])

\* request_implementing_symbols, its locations in the same document; two results with
\* one start and kind are one.
ImplementingSymbols(doc, p, locations) ==
  LET target == SymbolAtLocation(doc, p)
      key(i) == <<doc[i].range.start, doc[i].kind>>
      add(result, q) ==
        LET i == Refined(doc, target, SymbolAtLocation(doc, q))
        IN  IF SymbolAtLocation(doc, q) = NoSymbol THEN result
            ELSE IF key(i) \in {key(k) : k \in ToSet(result)} THEN result ELSE Append(result, i)
  IN  FoldLeft(add, <<>>, locations)

\* request_referencing_symbols without file symbols.  A reference in no container, on a
\* line with a dot, belongs to the variable that is named before the dot.  The symbol
\* that the references are of is known only once one of them is its own name; what has its
\* name and kind counts as an import from then on.
ReferencingSymbols(doc, references, dotted, includeImports, includeSelf) ==
  LET named == SelectSeq([k \in DOMAIN doc |-> k],
                         LAMBDA k : doc[k].kind = "variable" /\ doc[k].name = dotted)
      owner(p) == FirstSymbol(<<ContainingSymbol(doc, p, FALSE)>> \o named)
      own(i, p) == doc[i].selection.start = p
      import(s, i) == /\ ~includeImports /\ s.incoming # NoSymbol
                      /\ doc[i].name = doc[s.incoming].name /\ doc[i].kind = doc[s.incoming].kind
      kept(s, i, p) == i # NoSymbol /\ IF own(i, p) THEN includeSelf ELSE ~import(s, i)
      step(s, p) ==
        [incoming |-> IF owner(p) # NoSymbol /\ own(owner(p), p) THEN owner(p) ELSE s.incoming,
         result |-> IF kept(s, owner(p), p) THEN Append(s.result, owner(p)) ELSE s.result]
  IN  FoldLeft(step, [incoming |-> NoSymbol, result |-> <<>>], references).result

-----------------------------------------------------------------------------
(* Locations in the server's answers.                                        *)

\* is_ignored_path: a directory of the path is ignored by name, or the file is not a
\* source file; the ignore patterns of the configuration are left out.
IsIgnored(fs, root, rel, ignoredNames, sources) ==
  LET path == root \o rel
      isFile == Exists(fs, path) /\ ~IsDir(fs, path)
      parts == IF isFile THEN Front(rel) ELSE rel
  IN  \/ ToSet(parts) \cap ignoredNames # {}
      \/ isFile /\ Last(path) \notin sources

\* convert_location_item: locations outside the project, at missing or at ignored
\* paths are skipped.
Locations(fs, root, items, ignoredNames, sources) ==
  SelectSeq(items, LAMBDA path :
    /\ IsIn(root, path) /\ Exists(fs, path)
    /\ ~IsIgnored(fs, root, SubSeq(path, Len(root) + 1, Len(path)), ignoredNames, sources))

-----------------------------------------------------------------------------
(* request_full_symbol_tree.                                                 *)

Overflow == <<<<"RecursionError">>>>
RecursionLimit == 6     \* the interpreter's, which is much greater than any tree is deep

\* The real paths of the files whose symbols make up the tree.  Directories are
\* followed to their real path, again and again where a link leads back up.
RECURSIVE SymbolFiles(_, _, _, _, _, _)
SymbolFiles(fs, root, dir, ignoredNames, sources, depth) ==
  LET ignored(p) == IsIgnored(fs, root, SubSeq(p, Len(root) + 1, Len(p)), ignoredNames, sources)
      inside == SelectSeq(Entries(fs, dir), LAMBDA p : Exists(fs, p) /\ IsIn(root, Real(fs, p)))
      reals == [i \in DOMAIN inside |-> Real(fs, inside[i])]
      files(p) == IF IsDir(fs, p) THEN SymbolFiles(fs, root, p, ignoredNames, sources, depth + 1)
                  ELSE <<p>>
      kept == SelectSeq(reals, LAMBDA p : ~ignored(p))
      parts == [i \in DOMAIN kept |-> files(kept[i])]
  IN  IF depth > RecursionLimit \/ Overflow \in ToSet(parts) THEN Overflow ELSE FlattenSeq(parts)
=============================================================================
