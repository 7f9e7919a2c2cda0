---------------------------- MODULE HttpFraming ----------------------------
(***************************************************************************)
(* How a connection cuts requests out of its receive buffer                *)
(* (extractContentLength and handleRead in src/src/Connection.cpp) and how *)
(* HttpRequest::parse reads the text that was cut out                      *)
(* (src/src/HttpRequest.cpp).  The two read the headers differently.       *)
(*                                                                         *)
(* A text is a sequence of tokens, each of size 1: a request line; a       *)
(* Content-Length header; a line without a colon ("junk"); the empty line  *)
(* that ends the header; a byte of a body.  Headers that neither of the    *)
(* two looks at are left out, and Content-Length in another spelling; with *)
(* a tab beside the name, which extractContentLength trims and parse, that *)
(* trims spaces only, does not, one of the two would see it alone.  Bodies *)
(* have no blanks, so that bytes in front of a request line only spoil its *)
(* method.                                                                 *)
(***************************************************************************)
EXTENDS Naturals, SequencesExt

CONSTANT Size     \* 2^64: lengths are computed modulo Size

ASSUME SizeAssumption == Size \in Nat \ {0}

NotANumber == Size              \* a value stoul throws on: text, or 2^64 and more
Lengths == 0 .. Size

Token(kind) == [kind |-> kind, value |-> 0]
Length(n) == [kind |-> "length", value |-> n]
Tokens == {Token(kind) : kind \in {"line", "junk", "end", "byte"}} \cup {Length(n) : n \in Lengths}

\* The first of the tokens from `from` on that has one of the kinds; one past
\* the end if there is none.
First(text, from, kinds) ==
    CHOOSE i \in from .. Len(text) + 1 :
        /\ i > Len(text) \/ text[i].kind \in kinds
        /\ \A j \in from .. i - 1 : text[j].kind \notin kinds

\* The Content-Length headers among the tokens from `from` to `to`.
LengthHeaders(text, from, to) == {i \in from .. to : text[i].kind = "length"}

\* recv_buf.find("\r\n\r\n"): an empty line with a line in front of it.
HasHeader(text) == \E i \in 2 .. Len(text) : text[i].kind = "end"
HeaderEnd(text) == First(text, 2, {"end"})

\* The first Content-Length below the first line; 0 if it is not a number.
ExtractContentLength(text) ==
    LET found == LengthHeaders(text, 2, HeaderEnd(text))
    IN  IF found = {} \/ text[Min(found)].value = NotANumber THEN 0 ELSE text[Min(found)].value

\* request_len.
RequestLen(text) == (HeaderEnd(text) + ExtractContentLength(text)) % Size

NoLength == Size + 1            \* no Content-Length among the stored headers

\* parseRequestLine: the first line ends with a request line and has, at most,
\* stray bytes in front of it.
GoodLine(text) ==
    \E i \in DOMAIN text : text[i].kind = "line" /\ \A j \in 1 .. i - 1 : text[j].kind = "byte"
MethodKnown(text) == First(text, 1, {"byte"}) > 1

\* The header lines parse reads: up to a junk one, or to the end of the header.
HeaderStop(text) == First(text, 1, {"junk", "end"})

\* The Content-Length among the headers after parse: the last one read, or what
\* was stored before.
StoredLength(text, stored) ==
    LET read == LengthHeaders(text, 1, HeaderStop(text) - 1)
    IN  IF GoodLine(text) /\ read # {} THEN text[Max(read)].value ELSE stored

\* Whether parse accepts the text.
Accepted(text, stored) ==
    LET n == StoredLength(text, stored)
    IN  /\ GoodLine(text) /\ HasHeader(text)
        /\ HeaderStop(text) = HeaderEnd(text)
        /\ n = NoLength \/ (n # NotANumber /\ Len(text) >= (HeaderEnd(text) + n) % Size)

\* What processRequest then works on: is it a GET or POST, and how long is the body.
Parsed(text, stored) ==
    LET n == StoredLength(text, stored)
        rest == Len(text) - HeaderEnd(text)
    IN  [known |-> MethodKnown(text),
         body |-> IF n = NoLength \/ n > rest THEN rest ELSE n]

-----------------------------------------------------------------------------
(* Messages, as a client means them.                                       *)

Bytes(n) == [i \in 1 .. n |-> Token("byte")]
Render(m) ==
    <<Token("line")>> \o [i \in DOMAIN m.lengths |-> Length(m.lengths[i])]
        \o (IF m.junk THEN <<Token("junk")>> ELSE <<>>) \o <<Token("end")>> \o Bytes(m.body)

\* The messages there are: the lengths announced, whether there is a line that is
\* no header, and the size of the body.  None is as long as Size.
Message ==
    {m \in [lengths : Seq(Lengths), junk : BOOLEAN, body : Nat] : Len(Render(m)) < Size}

\* A message a server has to take as it is.
Plain(m) == ~ m.junk /\ m.lengths = (IF m.body = 0 THEN <<>> ELSE <<m.body>>)
Meaning(m) == [known |-> TRUE, body |-> m.body]

=============================================================================
