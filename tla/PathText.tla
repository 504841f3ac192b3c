-------------------------------- MODULE PathText --------------------------------
(***************************************************************************)
(* The algorithms on the text of absolute paths: formater::paths_overlap,  *)
(* the pattern by which SQLite finds what is below a root, and the text    *)
(* work of index_reader.cpp for the summary of the index.                  *)
(*                                                                         *)
(* A text is the sequence of its bytes; what the algorithms do depends on  *)
(* '/' and on how the byte after a name compares with it.                  *)
(***************************************************************************)
EXTENDS Integers, SequencesExt

Slash == 47
Star == 42

Texts == Seq(1 .. 255)

-----------------------------------------------------------------------------
(* formater::paths_overlap *)

\* Mutant: only a root above one that is blocked is refused.
overlap_above(a, b) == a = b \/ IsPrefix(a \o <<Slash>>, b)

paths_overlap(a, b) ==
  \/ a = b
  \/ IsPrefix(b \o <<Slash>>, a) \/ IsPrefix(a \o <<Slash>>, b)

-----------------------------------------------------------------------------
(* path GLOB pattern, for roots that have no wildcards of their own        *)

\* Mutant: the separator is forgotten.
glob_prefix(root) == root \o <<Star>>

glob_pattern(root) == root \o <<Slash, Star>>

\* The one star is the last byte, and matches anything.
GLOB(text, pattern) == IsPrefix(Front(pattern), text)

-----------------------------------------------------------------------------
(* IndexReader *)

\* BINARY collation: a prefix comes first, then the first byte that differs.
text_less(a, b) ==
  LET i == Len(LongestCommonPrefix({a, b})) + 1
  IN IF i > Len(a) THEN i <= Len(b) ELSE i <= Len(b) /\ a[i] < b[i]

MinText(S) == CHOOSE a \in S : \A b \in S : ~text_less(b, a)
MaxText(S) == CHOOSE a \in S : \A b \in S : ~text_less(a, b)

\* What precedes the last '/' of a text, nothing when there is none.
before_last_slash(text) ==
  SubSeq(text, 1, SelectLastInSeq(text, LAMBDA c : c = Slash) - 1)

ends_name(text, i) == i > Len(text) \/ text[i] = Slash

\* Mutant: a name that both texts begin with is taken for a common directory.
common_prefix(a, b) == LongestCommonPrefix({a, b})

get_common_parent(a, b) ==
  LET prefix == LongestCommonPrefix({a, b})
      next == Len(prefix) + 1
      parent == IF ends_name(a, next) /\ ends_name(b, next) THEN prefix
                ELSE before_last_slash(prefix)
  IN IF Len(parent) > 1 /\ Last(parent) = Slash THEN Front(parent) ELSE parent

get_top_root_in_index(texts) ==
  IF texts = {} THEN <<>> ELSE get_common_parent(MinText(texts), MaxText(texts))

\* The entry of the root that a path below it is in, or is.
get_snd_layer(text, root) ==
  LET rest == SubSeq(text, Len(root) + 2, Len(text))
      pos == SelectInSeq(rest, LAMBDA c : c = Slash)
  IN IF pos = 0 THEN text ELSE root \o <<Slash>> \o SubSeq(rest, 1, pos - 1)

=============================================================================
