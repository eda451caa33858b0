------------------------------ MODULE Strings ------------------------------
(***************************************************************************)
(* What string buffers and chunks promise: each is a variable that holds a *)
(* string, and an operation on one of them leaves the others alone. There  *)
(* is no memory here, except that it may run out and end the program.      *)
(***************************************************************************)
EXTENDS StringFunctions

CONSTANTS Bufs, Chunks,
          Texts   \* the strings the operations are given

VARIABLES val,   \* the string of each buffer
          text,  \* the string of each chunk
          asked  \* the function called last
strings == <<val, text, asked>>

Init == val = [b \in Bufs |-> <<>>] /\ text = [c \in Chunks |-> <<>>] /\ asked = "init"

Becomes(f, b, s) == asked' = f /\ val' = [val EXCEPT ![b] = s] /\ UNCHANGED text
Change(b) ==
  LET s == val[b] IN
  \/ \E t \in Texts : Becomes("put", b, s \o t) \/ Becomes("set", b, t)
  \/ Becomes("grow", b, s)
  \/ Becomes("clear", b, <<>>) \/ Becomes("free", b, <<>>)
  \/ \E n \in 0 .. Len(s) : \/ Becomes("truncate", b, SubSeq(s, 1, n))
                            \/ Becomes("drop", b, SubSeq(s, n + 1, Len(s)))
  \/ Becomes("trim", b, Trimmed(s))
  \/ Becomes("normalize", b, Normalized(s))
  \/ Becomes("unescape", b, Unescaped(s))
Swap(a, b) == /\ asked' = "swap"
              /\ val' = [val EXCEPT ![a] = val[b], ![b] = val[a]] /\ UNCHANGED text
Detach(b, c) == /\ asked' = "detach"
                /\ val' = [val EXCEPT ![b] = <<>>] /\ text' = [text EXCEPT ![c] = val[b]]

IsText(f, c, s) == asked' = f /\ text' = [text EXCEPT ![c] = s] /\ UNCHANGED val
Reword(c) == \/ \E t \in Texts : IsText("literal", c, t) \/ IsText("set_cstr", c, t)
             \/ IsText("set_own", c, text[c])
             \/ IsText("to_cstr", c, text[c])
             \/ IsText("chunk_trim", c, Trimmed(text[c]))
             \/ IsText("chunk_free", c, <<>>) \/ IsText("set_cstr", c, <<>>)

Next == \/ \E b \in Bufs : Change(b)
        \/ \E a, b \in Bufs : Swap(a, b)
        \/ \E b \in Bufs, c \in Chunks : Detach(b, c)
        \/ \E c \in Chunks : Reword(c)
Spec == Init /\ [][Next]_strings
=============================================================================
