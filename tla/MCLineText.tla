----------------------------- MODULE MCLineText -----------------------------
(***************************************************************************)
(* LineText for TLC. The bytes of the lines are those at which a rule of   *)
(* UTF-8 or of references turns, and in the table some names begin others. *)
(***************************************************************************)
EXTENDS LineText

Entry(s, b) == [name |-> s, bytes |-> b]
MCTable == <<Entry(<<71, 84>>, <<62>>),               \* GT
             Entry(<<97, 98>>, <<1>>),                \* ab
             Entry(<<97, 98, 97>>, <<2>>),            \* aba
             Entry(<<97, 98, 97, 97>>, <<2, 3>>),     \* abaa
             Entry(<<97, 98, 98>>, <<4>>),            \* abb
             Entry(<<98, 49>>, <<5>>),                \* b1
             Entry(<<98, 97>>, <<38>>)>>              \* ba
\* Entry b1 and numbers share the 1; a text can hold two references.
UpTo(S, n) == UNION {[1 .. m -> S] : m \in 0 .. n}
Short == LET any == UpTo({32, 35, 38, 49, 59, 97, 98}, 4) IN any \cup {<<38>> \o s : s \in any}
Ref(s) == <<38>> \o s \o <<59>>
InText == {Ref(s) \o t : s \in UpTo({35, 49, 97, 98}, 4), t \in {<<97>>, <<38>>, <<59>>}}
            \cup {<<97, 38>> \o Ref(s) \o Ref(t) : s, t \in UpTo({97, 98}, 3)}
Dec == {<<48>>, <<49>>, <<53, 53, 50, 57, 53>>, <<53, 53, 50, 57, 54>>,       \* 55295 55296
        <<53, 55, 51, 52, 51>>, <<53, 55, 51, 52, 52>>,                        \* 57343 57344
        <<49, 49, 49, 52, 49, 49, 49>>, <<49, 49, 49, 52, 49, 49, 50>>,        \* 1114111 1114112
        <<57, 57, 57, 57, 57, 57, 57, 57>>, <<57, 57, 57, 57, 57, 57, 57, 57, 57>>,
        <<49, 50, 56>>, <<50, 48, 52, 56>>, <<48, 48, 48, 48, 48, 49, 50, 55>>}
Hex == {<<48>>, <<97>>, <<65>>, <<68, 55, 102, 102>>, <<100, 56, 48, 48>>, <<101, 48, 48, 48>>,
        <<102, 102, 102, 100>>, <<49, 48, 48, 48, 48>>, <<49, 48, 102, 70, 102, 102>>,
        <<49, 49, 48, 48, 48, 48>>, <<102, 102, 102, 102, 102, 102, 102, 102>>,
        <<102, 102, 102, 102, 102, 102, 102, 102, 102>>, <<103>>, <<>>}
Numbers == {Ref(<<35>> \o d) : d \in Dec} \cup {Ref(<<35, x>> \o d) : d \in Hex, x \in {88, 120}}
             \cup {<<38, 35, 120>>, <<38, 35, 49>>, <<38, 35, 120, 49>>}
References == Short \cup InText \cup Numbers

Edges == {65, 128, 143, 144, 159, 160, 191, 193, 194, 224, 237, 240, 244, 245}
FourForOne == <<240, 128, 128, 128>>
Euro == <<226, 130, 172>>
\* Up to three bytes, sequences of four and what ends them too early, what is around
\* characters of three bytes, and what a reference may take with it
Encoded == UpTo(Edges, 3)
             \cup {<<b>> \o s : b \in Edges \ 65 .. 193, s \in [1 .. 3 -> Edges]}
             \cup {s \o Euro \o t : s, t \in UpTo(Edges, 1)}
             \cup {Euro \o s \o <<240, 144, 128, 191>> : s \in UpTo(Edges, 2)}
             \cup {<<38>> \o s \o Ref(t) \o s : s \in UpTo(Edges, 1), t \in {<<97, 98>>, <<35, 49, 50, 56>>}}
TwoLines == {<<s, t>> : s, t \in {<<>>, <<65>>, <<65, 66, 67, 68>>, <<255, 65>>, FourForOne}}
MCDocuments == {<<s>> : s \in References \cup Encoded} \cup TwoLines

\* A line of characters, then one that gets shorter by two
Shortened == {<<s, FourForOne \o FourForOne>> : s \in {[n \in 1 .. m |-> 65] : m \in 7 .. 8}}
=============================================================================
