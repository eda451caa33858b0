------------------------------- MODULE RefMap -------------------------------
(***************************************************************************)
(* The map of link reference definitions (src/src/references.c): a table   *)
(* of chains, keyed by a hash of the normalised label. A label is a        *)
(* sequence of tokens.                                                     *)
(*                                                                         *)
(* A definition named like one after it with something added, such as      *)
(* HasByHash, is not the code: it is a plausible mistake, and some         *)
(* property must fail when it takes the place of the code's definition.    *)
(***************************************************************************)
EXTENDS Integers, SequencesExt

CONSTANTS Fold,     \* case folding, as a function on the tokens it changes
          HashOf,   \* refhash, as a function on the first token of a label
          Width,    \* the length of the tokens that are not one character
          MaxLabel  \* MAX_LINK_LABEL_LENGTH
ASSUME MaxLabelAssumption == MaxLabel \in Nat
TableSize == 2      \* REFMAP_SIZE

VARIABLE table      \* bucket -> the chain, newest first

Space == {" ", "nl"}

Length(label) ==
  FoldLeft(LAMBDA n, t : n + IF t \in DOMAIN Width THEN Width[t] ELSE 1, 0, label)
\* cmark_strbuf_trim
Trimmed(label) ==
  LET text == {i \in DOMAIN label : label[i] \notin Space}
  IN  IF text = {} THEN <<>>
      ELSE SubSeq(label, CHOOSE i \in text : \A j \in text : i <= j,
                         CHOOSE i \in text : \A j \in text : i >= j)
\* normalize_reference
Normalize(label) ==
  FoldLeft(LAMBDA out, t : IF t \in Space
                           THEN IF Last(out) = " " THEN out ELSE Append(out, " ")
                           ELSE Append(out, IF t \in DOMAIN Fold THEN Fold[t] ELSE t),
           <<>>, Trimmed(label))

Refhash(norm) == IF norm[1] \in DOMAIN HashOf THEN HashOf[norm[1]] ELSE 0
Chain(norm)   == table[Refhash(norm) % TableSize]
Same(ref, norm) == ref.hash = Refhash(norm) /\ ref.label = norm

HasByHash(norm) == \E i \in DOMAIN Chain(norm) : Chain(norm)[i].hash = Refhash(norm)
\* The loop of add_reference: the label is in its chain already.
Has(norm) == \E i \in DOMAIN Chain(norm) : Same(Chain(norm)[i], norm)

MapInit == table = [b \in 0 .. TableSize - 1 |-> <<>>]

\* cmark_reference_create and add_reference
CreateReference(label, url) ==
  LET norm == Normalize(label) IN
  table' = IF norm = <<>> \/ Has(norm) THEN table
           ELSE [table EXCEPT ![Refhash(norm) % TableSize] =
                   <<[label |-> norm, hash |-> Refhash(norm), url |-> url]>> \o @]

\* cmark_reference_lookup: the url, or 0 for NULL
Lookup(label) ==
  LET norm  == Normalize(label)
      found == SelectInSeq(Chain(norm), LAMBDA ref : Same(ref, norm))
  IN  IF Length(label) \notin 1 .. MaxLabel \/ norm = <<>> THEN 0
      ELSE IF found = 0 THEN 0 ELSE Chain(norm)[found].url
=============================================================================
