------------------------------ MODULE Inlines ------------------------------
(***************************************************************************)
(* Phase 2 of CommonMark parsing: how src/src/inlines.c turns the text of  *)
(* one block into inline nodes. parse_inline calls one handler for each    *)
(* special character; handle_delim and the opening brackets leave text     *)
(* nodes behind that process_emphasis and handle_close_bracket may turn    *)
(* into emphasis, links and images, moving what is between them. A handler *)
(* is one action, and so is each turn of the loop of process_emphasis.     *)
(*                                                                         *)
(* The text is a sequence of tokens: a character, a run of backticks, the  *)
(* autolink "<u>", or "(u)", the rest of an inline link after its text. A  *)
(* run of backticks never stands next to another.                          *)
(*                                                                         *)
(* A definition named like one after it with something added, such as      *)
(* SearchPast, is not the code: it is a plausible mistake, and some        *)
(* property must fail when it takes the place of the code's definition.    *)
(***************************************************************************)
EXTENDS RefMap, FiniteSetsExt

CONSTANTS Corpora,      \* bound: sets of texts, each given by the pieces that a
                        \* text is made of, their greatest number, the labels
                        \* of the definitions, and the option CMARK_OPT_SMART
          MaxBackticks  \* MAXBACKTICKS
ASSUME MaxBackticksAssumption == MaxBackticks \in Nat \ {0}

VARIABLES
  input,     \* the text, the labels of the definitions, the smart option
  defined,   \* how many of the definitions are in the map
  pos,       \* subj->pos: the token to parse next
  nodes,     \* the inlines made so far; the first node is the block
  delims,    \* the delimiter list, subj->last_delim is its last
  brackets,  \* the bracket stack, subj->last_bracket is its last
  memo,      \* subj->backticks: where a run of each length was seen
  scanned,   \* subj->scanned_for_backticks
  pc,        \* "define", "parse", "emphasis" or "done"
  emph,      \* locals of process_emphasis: closer, stack_bottom, openers_bottom,
             \* and whether it was called for a link
  hasty,     \* history: the characters whose openers_bottom was raised although
             \* an opener was odd, because the last one looked at was another
  span,      \* history: the last decision about a run of backticks,
  lowered    \* and the lengths whose memo was set back after a complete scan
ticks == <<memo, scanned, span, lowered>>
tree  == <<nodes, delims, brackets>>
vars  == <<input, table, defined, pos, tree, ticks, pc, emph, hasty>>

Text  == input.text
Block == 1
None  == 0

-----------------------------------------------------------------------------
(* Characters. *)

TickLen   == [tick |-> 1, tick2 |-> 2, tick3 |-> 3, tick4 |-> 4]
Ticks     == DOMAIN TickLen
DelimChar == {"*", "_", "'"}
\* cmark_ispunct, for the tokens of one character
Punct     == DelimChar \cup {"[", "]", ".", "bs", "tick"}
\* subject_find_special_char
Special   == {"nl", "bs", "*", "_", "[", "![", "]", "<u>"} \cup Ticks
               \cup IF input.smart THEN {"'", "."} ELSE {}
At(i)     == IF i \in DOMAIN Text THEN Text[i] ELSE "nl"
Blank(t)  == t \in Space
\* cmark_utf8proc_is_punctuation of the first or last character of a token
Punctuation(t) == t \notin Space \cup {"a", "A", "b"}
\* The first place from i on where a token outside S stands.
Past(i, S) == Min({j \in i .. Len(Text) + 1 : At(j) \notin S \/ j > Len(Text)})
\* The backslash before j, if any, is not itself escaped; i is before all of them.
Escaped(i, j) == (j - 1 - Max({k \in i .. j - 1 : Text[k] # "bs"})) % 2 = 1

-----------------------------------------------------------------------------
(* The tree: a sequence of nodes, each with the tokens that it was made    *)
(* from, and its children in order.                                        *)

Node(k, s, c) == [kind |-> k, src |-> s, kids |-> c]
\* make_literal and make_simple: calloc gives a node that is not in use.
Fresh == Len(nodes) + 1
Parent(t, n) == CHOOSE p \in DOMAIN t : Contains(t[p].kids, n)
IndexOf(s, x) == SelectInSeq(s, LAMBDA y : y = x)
\* A leaf, appended to the block.
Grown(k, s) == Append([nodes EXCEPT ![Block].kids = Append(@, Fresh)], Node(k, s, <<>>))
Gone(t, n) == [t EXCEPT ![Parent(t, n)].kids = Remove(@, n), ![n].kind = "freed"]

WrapBefore(t, k, s, from, to) ==
  LET p == Parent(t, from)
      i == IndexOf(t[p].kids, from)
      j == IF to = None THEN Len(t[p].kids) + 1 ELSE IndexOf(t[p].kids, to)
  IN  Append([t EXCEPT ![p].kids = SubSeq(@, 1, i - 1) \o <<Len(t) + 1, from>> \o SubSeq(@, j, Len(@))],
             Node(k, s, SubSeq(t[p].kids, i + 1, j - 1)))
\* A new node after the node from, around what is between it and the node to,
\* or after it.
Wrap(t, k, s, from, to) ==
  LET p == Parent(t, from)
      i == IndexOf(t[p].kids, from)
      j == IF to = None THEN Len(t[p].kids) + 1 ELSE IndexOf(t[p].kids, to)
  IN  Append([t EXCEPT ![p].kids = SubSeq(@, 1, i) \o <<Len(t) + 1>> \o SubSeq(@, j, Len(@))],
             Node(k, s, SubSeq(t[p].kids, i + 1, j - 1)))

-----------------------------------------------------------------------------
(* Leaves: each handler takes the tokens before stop and makes a node.     *)

Parsing(S) == pc = "parse" /\ pos <= Len(Text) /\ Text[pos] \in S
Take(k, stop) ==
  /\ nodes' = Grown(k, SubSeq(Text, pos, stop - 1))
  /\ pos' = stop
  /\ UNCHANGED <<input, table, defined, pc, emph, hasty>>
Leaf(k, stop) == Take(k, stop) /\ UNCHANGED <<delims, brackets, ticks>>

\* A definition of the document; all were parsed before.
Define ==
  /\ pc = "define"
  /\ CreateReference(input.defs[defined + 1], defined + 1)
  /\ defined' = defined + 1
  /\ pc' = IF defined' = Len(input.defs) THEN "parse" ELSE "define"
  /\ UNCHANGED <<input, pos, tree, ticks, emph, hasty>>

\* The default of parse_inline: text up to a special character.
PlainText ==
  /\ pc = "parse" /\ pos <= Len(Text)
  /\ Text[pos] \notin Special \cup {"'", "."}
  /\ LET stop == Min({j \in pos + 1 .. Len(Text) + 1 : j > Len(Text) \/ At(j) \in Special})
         last == IF At(stop) = "nl" THEN Max({pos - 1} \cup {j \in pos .. stop - 1 : ~Blank(Text[j])})
                 ELSE stop - 1
     IN  /\ nodes' = Grown("text", SubSeq(Text, pos, last))
         /\ pos' = stop
  /\ UNCHANGED <<input, table, defined, delims, brackets, ticks, pc, emph, hasty>>

\* handle_newline
Newline ==
  /\ Parsing({"nl"})
  /\ Leaf(IF At(pos - 1) = " " /\ At(pos - 2) = " " THEN "linebreak" ELSE "softbreak",
          Past(pos + 1, {" "}))

\* handle_backslash
Backslash ==
  /\ Parsing({"bs"})
  /\ Leaf(IF pos < Len(Text) /\ At(pos + 1) = "nl" THEN "linebreak" ELSE "text",
          IF pos < Len(Text) /\ At(pos + 1) \in Punct \cup {"nl"} THEN pos + 2 ELSE pos + 1)

\* handle_period
Period == /\ Parsing({"."})
          /\ Leaf("text", IF input.smart THEN Min({pos + 3, Past(pos, {"."})}) ELSE pos + 1)

\* handle_pointy_brace, at an autolink
Autolink == Parsing({"<u>"}) /\ Leaf("autolink", pos + 1)

-----------------------------------------------------------------------------
(* Backticks. *)

Runs(from, n) == {i \in from .. Len(Text) : At(i) \in Ticks /\ TickLen[At(i)] = n}
ScannedAll(n, start) == scanned
\* "return if we already know there's no closer"
NoCloser(n, start) == scanned /\ memo[n] <= start

\* handle_backticks and scan_to_closing_backticks
Backticks ==
  /\ Parsing(Ticks)
  /\ LET n       == TickLen[Text[pos]]
         refused == n > MaxBackticks \/ NoCloser(n, pos + 1)
         closer  == IF refused \/ Runs(pos + 1, n) = {} THEN None ELSE Min(Runs(pos + 1, n))
         seen(m) == {i \in Runs(pos + 1, m) : closer = None \/ i <= closer}
     IN  /\ Take(IF closer = None THEN "text" ELSE "code",
                 IF closer = None THEN pos + 1 ELSE closer + 1)
         /\ memo' = [m \in DOMAIN memo |->
                       IF refused \/ seen(m) = {} THEN memo[m] ELSE Max(seen(m))]
         /\ scanned' = (scanned \/ (~refused /\ closer = None))
         /\ span' = [at |-> pos, len |-> n, end |-> closer]
         /\ lowered' = lowered \cup {m \in DOMAIN memo : scanned /\ memo'[m] < memo[m]}
  /\ UNCHANGED <<delims, brackets>>

-----------------------------------------------------------------------------
(* Delimiters. *)

Where(n) == SelectInSeq(delims, LAMBDA d : d.inl = n)
InlAt(i) == IF i \in DOMAIN delims THEN delims[i].inl ELSE None
\* The length of the literal; a quote is three bytes of UTF-8.
Size(d)  == IF d.char = "'" THEN 3 ELSE Len(nodes[d.inl].src)

LeftFlanking(before, after) ==
  ~Blank(after) /\ (Punctuation(after) => Blank(before) \/ Punctuation(before))
\* scan_delims, for a run of c from i to just before j
Flanking(c, i, j) ==
  LET before == At(i - 1)
      after  == At(j)
      left   == LeftFlanking(before, after)
      right  == LeftFlanking(after, before)
  IN  CASE c = "_" -> [open  |-> left /\ (right => Punctuation(before)),
                       close |-> right /\ (left => Punctuation(after))]
        [] c = "'" -> [open |-> left /\ ~right, close |-> right]
        [] OTHER   -> [open |-> left, close |-> right]

\* handle_delim
Delim ==
  /\ Parsing(DelimChar)
  /\ LET c    == Text[pos]
         stop == IF c = "'" THEN pos + 1 ELSE Past(pos, {c})
         f    == Flanking(c, pos, stop)
     IN  /\ Take(IF c = "'" /\ input.smart THEN "right" ELSE "text", stop)
         /\ delims' = IF (f.open \/ f.close) /\ (c = "'" => input.smart)
                      THEN Append(delims, [inl |-> Fresh, char |-> c, open |-> f.open,
                                           close |-> f.close])
                      ELSE delims
  /\ UNCHANGED <<brackets, ticks>>

\* process_emphasis, up to its loop.
Emphasis(bottom, link) ==
  /\ pc' = "emphasis"
  /\ emph' = [closer |-> InlAt(Where(bottom) + 1), bottom |-> bottom,
              low |-> [c \in DelimChar |-> bottom], link |-> link]
  /\ hasty' = {}

\* "interior closer of size 2 can't match opener of size 1 or of size 1 can't match 2"
Odd(o, c) == (c.open \/ o.close) /\ (Size(o) + Size(c)) % 3 = 0
Matches(o, c) == o.char = c.char /\ o.open /\ ~Odd(o, c)

\* What the search for an opener of the i-th delimiter looks at.
Search(i) == Max({Where(emph.bottom), Where(emph.low[delims[i].char])}) + 1 .. i - 1
Found(i) == {j \in Search(i) : Matches(delims[j], delims[i])}
NeverOdd(i) == FALSE
\* odd_match after a search that found nothing: what its last turn left there.
OddMatch(i) == Search(i) # {} /\ Odd(delims[Min(Search(i))], delims[i])

\* use_delims
UseDelims(o, c) == IF o < 3 \/ c < 3 THEN Min({o, c}) ELSE IF c % 2 = 0 THEN 2 ELSE 1

\* A turn of the loop; i is the place of the closer.
Closing(i) == pc = "emphasis" /\ emph.closer # None /\ Where(emph.closer) = i

NextOfRetrying(i) ==
  IF delims[i].open /\ Where(emph.bottom) < i - 1 THEN InlAt(i - 1) ELSE InlAt(i + 1)
\* closer->next
NextOf(i) == InlAt(i + 1)

NotCloser ==
  \E i \in DOMAIN delims :
    /\ Closing(i) /\ ~delims[i].close
    /\ emph' = [emph EXCEPT !.closer = NextOf(i)]
    /\ UNCHANGED <<input, table, defined, pos, tree, ticks, pc, hasty>>

KeepBetween(i, o, done) == SelectSeq(delims, LAMBDA d : d.inl \notin done)
\* The delimiters without those between o and i, and without the used up.
Unlisted(i, o, done) ==
  SelectSeq(SubSeq(delims, 1, o) \o SubSeq(delims, i, Len(delims)),
            LAMBDA d : d.inl \notin done)

\* S_insert_emph
InsertEmph ==
  \E i \in DOMAIN delims :
    /\ Closing(i) /\ delims[i].close /\ delims[i].char # "'" /\ Found(i) # {}
    /\ LET o    == Max(Found(i))
           on   == delims[o].inl
           cn   == delims[i].inl
           use  == UseDelims(Size(delims[o]), Size(delims[i]))
           mark == SubSeq(nodes[cn].src, 1, use)
           done == {n \in {on, cn} : Len(nodes[n].src) = use}
           used == [nodes EXCEPT ![on].src = SubSeq(@, use + 1, Len(@)),
                                 ![cn].src = SubSeq(@, use + 1, Len(@))]
           kind == IF use = 1 THEN "emph" ELSE "strong"
       IN  /\ nodes' = FoldSet(LAMBDA n, t : Gone(t, n), Wrap(used, kind, mark, on, cn), done)
           /\ delims' = Unlisted(i, o, done)
           /\ emph' = [emph EXCEPT !.closer = IF cn \in done THEN InlAt(i + 1) ELSE cn]
    /\ UNCHANGED <<input, table, defined, pos, brackets, ticks, pc, hasty>>

\* A pair of smart quotes.
MatchQuotes ==
  \E i \in DOMAIN delims :
    /\ Closing(i) /\ delims[i].close /\ delims[i].char = "'" /\ Found(i) # {}
    /\ nodes' = [nodes EXCEPT ![delims[Max(Found(i))].inl].kind = "left"]
    /\ emph' = [emph EXCEPT !.closer = NextOf(i)]
    /\ UNCHANGED <<input, table, defined, pos, delims, brackets, ticks, pc, hasty>>

\* "set lower bound for future searches for openers"
NoOpener ==
  \E i \in DOMAIN delims :
    /\ Closing(i) /\ delims[i].close /\ Found(i) = {}
    /\ LET c == delims[i].char IN
       IF OddMatch(i)
       THEN /\ emph' = [emph EXCEPT !.closer = NextOf(i)]
            /\ UNCHANGED <<delims, hasty>>
       ELSE /\ emph' = [emph EXCEPT !.closer = NextOf(i), !.low[c] = InlAt(i - 1)]
            /\ delims' = IF delims[i].open THEN delims ELSE RemoveAt(delims, i)
            /\ hasty' = IF /\ \E j \in Search(i) : delims[j].char = c /\ delims[j].open
                           /\ ~(delims[Min(Search(i))].char = c /\ delims[Min(Search(i))].open)
                        THEN hasty \cup {c} ELSE hasty
    /\ UNCHANGED <<input, table, defined, pos, nodes, brackets, ticks, pc>>

-----------------------------------------------------------------------------
(* Brackets. *)

\* The cases of parse_inline for [ and ![, push_bracket
OpenBracket ==
  /\ Parsing({"[", "!["})
  /\ Take("text", pos + 1)
  /\ brackets' = Append([i \in DOMAIN brackets |->
                          [brackets[i] EXCEPT !.after = @ \/ i = Len(brackets)]],
                        [inl |-> Fresh, image |-> Text[pos] = "![", active |-> TRUE,
                         below |-> InlAt(Len(delims)), position |-> pos + 1, after |-> FALSE])
  /\ UNCHANGED <<delims, ticks>>

\* link_label, from the bracket at i: where the label ends, or 0
LabelEnd(i) ==
  LET stops == {j \in i + 1 .. Len(Text) : Text[j] \in {"[", "![", "]"} /\ ~Escaped(i, j)} IN
  IF At(i) # "[" THEN 0
  ELSE IF stops = {} THEN 0
  ELSE IF Text[Min(stops)] # "]" \/ Length(SubSeq(Text, i + 1, Min(stops) - 1)) > MaxLabel THEN 0
  ELSE Min(stops)

\* Where a link with bracket b goes that may end before i, 0 for nowhere, and
\* where the text goes on after it.
Target(b, i) ==
  LET end   == LabelEnd(i)
      given == IF end = 0 THEN <<>> ELSE Trimmed(SubSeq(Text, i + 1, end - 1))
      label == IF given = <<>> /\ ~b.after THEN SubSeq(Text, b.position, i - 2) ELSE given
  IN  IF At(i) = "(u)" THEN [url |-> Len(input.defs) + 1, next |-> i + 1]
      ELSE [url |-> Lookup(label), next |-> IF end = 0 THEN i ELSE end + 1]

LinkHere == /\ brackets # <<>>
            /\ Last(brackets).active
            /\ Target(Last(brackets), pos + 1).url # 0

\* handle_close_bracket, not a link
LiteralBracket ==
  /\ Parsing({"]"}) /\ ~LinkHere
  /\ Take("text", pos + 1)
  /\ brackets' = IF brackets = <<>> THEN brackets ELSE Front(brackets)
  /\ UNCHANGED <<delims, ticks>>

\* handle_close_bracket at a match, up to its call of process_emphasis
CloseLink ==
  /\ Parsing({"]"}) /\ LinkHere
  /\ LET b    == Last(brackets)
         to   == Target(b, pos + 1).next
         src  == <<Text[b.position - 1]>> \o SubSeq(Text, pos, to - 1)
         kind == IF b.image THEN "image" ELSE "link"
     IN  /\ nodes' = Gone(Wrap(nodes, kind, src, b.inl, None), b.inl)
         /\ pos' = to
         /\ Emphasis(b.below, TRUE)
  /\ UNCHANGED <<input, table, defined, delims, brackets, ticks>>

DeactivateLast(s) == [i \in DOMAIN s |-> [s[i] EXCEPT !.active = @ /\ i # Len(s)]]
\* "we also want to deactivate earlier link delimiters"
Deactivate(s) ==
  LET off == Max({0} \cup {i \in DOMAIN s : ~s[i].image /\ ~s[i].active})
  IN  [i \in DOMAIN s |-> [s[i] EXCEPT !.active = @ /\ (i < off \/ s[i].image)]]

\* cmark_parse_inlines after its loop, up to the end of process_emphasis
EndText ==
  /\ pc = "parse" /\ pos > Len(Text)
  /\ Emphasis(None, FALSE)
  /\ UNCHANGED <<input, table, defined, pos, tree, ticks>>

\* The end of process_emphasis, and what its caller does after it.
EndEmphasis ==
  /\ pc = "emphasis" /\ emph.closer = None
  /\ emph.bottom = None \/ Where(emph.bottom) # 0
  /\ delims' = SubSeq(delims, 1, Where(emph.bottom))
  /\ IF emph.link
     THEN /\ pc' = "parse"
          /\ brackets' = IF Last(brackets).image THEN Front(brackets)
                         ELSE Deactivate(Front(brackets))
     ELSE pc' = "done" /\ brackets' = <<>>
  /\ UNCHANGED <<input, table, defined, pos, nodes, ticks, emph, hasty>>

-----------------------------------------------------------------------------
Done == pc = "done" /\ UNCHANGED vars

\* A run of backticks stands alone, what follows a backslash is one character,
\* and the block parser has removed leading white space.
IsText(t) ==
  /\ ~Blank(t[1])
  /\ \A i \in 2 .. Len(t) : /\ t[i - 1] \in Ticks => t[i] \notin Ticks
                            /\ t[i - 1] = "bs" => t[i] \notin {"tick2", "tick3", "tick4", "<u>", "(u)", "!["}

RECURSIVE Joined(_)
Joined(s) == IF s = <<>> THEN <<>> ELSE Head(s) \o Joined(Tail(s))

Init ==
  /\ \E c \in Corpora : \E n \in 1 .. c.max : \E pieces \in [1 .. n -> c.pieces] :
       LET text == Joined(pieces) IN
       IsText(text) /\ input = [text |-> Trimmed(text), defs |-> c.defs, smart |-> c.smart]
  /\ MapInit /\ defined = 0 /\ pos = 1
  /\ nodes = <<Node("block", <<>>, <<>>)>> /\ delims = <<>> /\ brackets = <<>>
  /\ memo = [n \in 1 .. MaxBackticks |-> 0] /\ scanned = FALSE
  /\ span = [at |-> 0, len |-> 0, end |-> None] /\ lowered = {}
  /\ pc = IF input.defs = <<>> THEN "parse" ELSE "define"
  /\ emph = [closer |-> None, bottom |-> None, low |-> [c \in DelimChar |-> None],
             link |-> FALSE]
  /\ hasty = {}
Work ==
  \/ Define
  \/ PlainText \/ Newline \/ Backslash \/ Period \/ Autolink \/ Backticks \/ Delim
  \/ OpenBracket \/ LiteralBracket \/ CloseLink \/ EndText
  \/ NotCloser \/ InsertEmph \/ MatchQuotes \/ NoOpener \/ EndEmphasis
\* A turn of a loop that changed nothing would be an endless loop; here it is no
\* step, so that it shows as a deadlock.
Next == (Work /\ vars' # vars) \/ Done
Spec == Init /\ [][Next]_vars
\* Weak fairness of Next, in which pc = "done" stands for ~ENABLED <<Next>>_vars;
\* without deadlocks they are the same, and TLC evaluates the former faster.
FairSpec == Spec /\ ([]<>(pc = "done") \/ []<><<Next>>_vars)

-----------------------------------------------------------------------------
(* Properties. *)

RECURSIVE Flat(_), Flats(_), Under(_)
\* The tokens that nodes were made from, each with what is in it.
Flats(s) == IF s = <<>> THEN <<>> ELSE Flat(Head(s)) \o Flats(Tail(s))
Flat(n) ==
  LET inner == Flats(nodes[n].kids)
      src   == nodes[n].src
  IN  CASE nodes[n].kind \in {"emph", "strong"} -> src \o inner \o src
        [] nodes[n].kind \in {"link", "image"}  -> <<src[1]>> \o inner \o Tail(src)
        [] OTHER -> src \o inner
Under(n) == UNION {{k} \cup Under(k) : k \in ToSet(nodes[n].kids)}
OfKind(K) == {n \in Under(Block) : nodes[n].kind \in K}
Solid(s) == SelectSeq(s, LAMBDA t : t # " ")

\* The tree read from left to right is the text parsed so far, but for
\* spaces: whatever is moved under new nodes, split or removed, nothing is
\* lost, repeated or out of order.
SourceKept == Solid(Flat(Block)) = Solid(SubSeq(Text, 1, pos - 1))

\* A delimiter stands for a text that is still a child of the block, in the
\* order of the list; so does a bracket while text is parsed, and the
\* delimiter below it has not been freed. handle_close_bracket and
\* process_emphasis follow these pointers.
StacksMatchTree ==
  LET place(n) == IndexOf(nodes[Block].kids, n)
      InOrder(s) == \A i \in DOMAIN s : IF i = 1 THEN place(s[i].inl) # 0
                                        ELSE place(s[i - 1].inl) < place(s[i].inl)
      owner(n) == nodes[Parent(nodes, n)]
  IN  /\ pc = "parse" => InOrder(delims) /\ InOrder(brackets)
      /\ pc = "emphasis" =>
           /\ \A d \in ToSet(delims) : nodes[d.inl].kind # "freed" /\ nodes[d.inl].src # <<>>
           /\ \A i, j \in DOMAIN delims :
                Where(emph.bottom) < i /\ i < j => owner(delims[i].inl) = owner(delims[j].inl)
      /\ pc = "parse" =>
           \A b \in ToSet(brackets) :
             b.below # None => Where(b.below) # 0 /\ place(b.below) < place(b.inl)

\* openers_bottom never hides an opener from a closer that it matches, except
\* (the finding in README) after it was raised in haste.
BottomsSound ==
  \A i \in DOMAIN delims :
    Closing(i) /\ delims[i].close /\ delims[i].char \notin hasty =>
      \A j \in Where(emph.bottom) + 1 .. i - 1 :
        Matches(delims[j], delims[i]) => j \in Search(i)

\* A run of backticks starts a code span just when a run of the same length
\* follows, and the span ends at the first: what the memo remembers of earlier
\* scans is still true. Runs longer than MAXBACKTICKS are literal, and (the
\* finding in README) so may be those whose memo a later scan has set back.
CodeSpansAsSpecified ==
  LET later == IF span.at = 0 THEN {} ELSE Runs(span.at + 1, span.len) IN
  IF span.end # None THEN span.end \in later /\ \A i \in later : span.end <= i
  ELSE later = {} \/ span.len > MaxBackticks \/ span.len \in lowered

\* What the two searches leave out for speed they would not have found: the lower bounds
\* of process_emphasis and the memo of scan_to_closing_backticks.
ShortcutsSound == BottomsSound /\ CodeSpansAsSpecified

\* The definition a label finds is the first of the document with the same
\* words, case apart, whatever else is in its chain.
FirstDefinitionWins ==
  LET Fold1(t) == IF t \in DOMAIN Fold THEN Fold[t] ELSE t
      words(l) == {<<Cardinality({j \in 1 .. i : ~Blank(l[j])}), Fold1(l[i]),
                     i > 1 /\ Blank(l[i - 1]) /\ \E j \in 1 .. i : ~Blank(l[j]) /\ j < i>> :
                   i \in {j \in DOMAIN l : ~Blank(l[j])}}
      asked == ToSet(input.defs) \cup {Text} \cup {<<" ">> \o d \o <<"nl">> : d \in ToSet(input.defs)}
  IN  pc = "parse" /\ pos = 1 =>
        \A l \in asked :
          LET same == {i \in DOMAIN input.defs : words(input.defs[i]) = words(l)} IN
          Lookup(l) = IF same = {} \/ words(l) = {} \/ Length(l) > MaxLabel THEN 0 ELSE Min(same)

\* "Links may not contain other links, at any level of nesting" (spec.txt),
\* for links in brackets: every opener before a link is found inactive, also
\* past the images.
NoLinkInLink ==
  \A n \in OfKind({"link"}) : \A m \in Under(n) : nodes[m].kind # "link"

\* The literal brackets in the text of a link or image come in matched pairs:
\* each closing bracket has used up one opener, link or not.
BracketsBalanced ==
  \A n \in OfKind({"link", "image"}) :
    LET in     == Under(n)
        open   == {m \in in : nodes[m].kind = "text" /\ nodes[m].src \in {<<"[">>, <<"![">>}}
        closed == {m \in in : nodes[m].kind = "text" /\ nodes[m].src = <<"]">>}
        upto(S, m) == Cardinality({k \in S : k <= m})
    IN  /\ Cardinality(open) = Cardinality(closed)
        /\ \A m \in closed : upto(open, m) >= upto(closed, m)

\* Emphasis is never empty and has no white space next to its delimiters,
\* however often a run has been split.
EmphasisTight ==
  \A n \in OfKind({"emph", "strong"}) :
    LET inner == Flats(nodes[n].kids) IN
    inner # <<>> /\ ~Blank(inner[1]) /\ ~Blank(Last(inner))

\* Whatever was deactivated, removed, split or moved, the nodes are nested as
\* the specification has it: no link in a link, brackets in pairs, and
\* emphasis around text.
NestedAsSpecified == NoLinkInLink /\ BracketsBalanced /\ EmphasisTight

\* Every text is parsed to its end: a handler always goes on in the text, and
\* process_emphasis in its list.
ParseEnds == <>(pc = "done")
=============================================================================
