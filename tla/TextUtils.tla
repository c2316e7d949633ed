----------------------------- MODULE TextUtils -----------------------------
(***************************************************************************)
(* The pure functions of http/template.hpp and get_form_value() of         *)
(* http/auth.cpp, and the browser's side of each: what encodes a form and  *)
(* what reads a page.                                                      *)
(*                                                                         *)
(* A text is a sequence of characters.  A run of them that only matters as *)
(* a whole (a form's key, the name of an entity or a tag, a template's     *)
(* {{KEY}}, the dashes of a comment) is one character here; hexadecimal    *)
(* digits, which url_decode() looks at one by one, are not.  A character   *)
(* that nothing treats in a way of its own stands for its escapes too.     *)
(***************************************************************************)
EXTENDS Naturals, Sequences, SequencesExt

Upper ==
  [c \in {"a", "b", "c", "d", "e", "f"} |->
     CASE c = "a" -> "A" [] c = "b" -> "B" [] c = "c" -> "C"
       [] c = "d" -> "D" [] c = "e" -> "E" [] c = "f" -> "F"]

(* std::isxdigit() *)
HexDigit == {"0", "1", "2", "3", "4", "5", "6", "7", "8", "9",
             "A", "B", "C", "D", "E", "F"} \cup DOMAIN Upper

(* The characters that a browser escapes in a form, with their codes. *)
Hex ==
  [c \in {"&", "=", "+", "%", ";", "<", ">", "\"", "'", "\\", "\t", "\n", "\r"} |->
     CASE c = "&" -> <<"2", "6">> [] c = "=" -> <<"3", "D">> [] c = "+" -> <<"2", "B">>
       [] c = "%" -> <<"2", "5">> [] c = ";" -> <<"3", "B">> [] c = "<" -> <<"3", "C">>
       [] c = ">" -> <<"3", "E">> [] c = "\"" -> <<"2", "2">> [] c = "'" -> <<"2", "7">>
       [] c = "\\" -> <<"5", "C">> [] c = "\t" -> <<"0", "9">>
       [] c = "\n" -> <<"0", "A">> [] c = "\r" -> <<"0", "D">>]

(* strtol(hex, nullptr, 16): a code outside the table is a character that  *)
(* no text has.                                                            *)
Digit(c) == IF c \in DOMAIN Upper THEN Upper[c] ELSE c

Byte(high, low) ==
  LET code == <<Digit(high), Digit(low)>>
  IN  IF \E c \in DOMAIN Hex : Hex[c] = code
      THEN CHOOSE c \in DOMAIN Hex : Hex[c] = code
      ELSE "other"

(* The entities html_escape() makes: the name between & and ; *)
Entity ==
  [c \in {"&", "<", ">", "\"", "'"} |->
     CASE c = "&" -> "amp" [] c = "<" -> "lt" [] c = ">" -> "gt"
       [] c = "\"" -> "quot" [] c = "'" -> "#39"]

(* What escape_json() puts behind a backslash. *)
Escape ==
  [c \in {"\"", "\\", "\n", "\r", "\t"} |->
     CASE c = "\"" -> "\"" [] c = "\\" -> "\\" [] c = "\n" -> "n"
       [] c = "\r" -> "r" [] c = "\t" -> "t"]

-----------------------------------------------------------------------------
(* template.hpp and get_form_value()                                       *)

(* The text with every character mapped to a text. *)
MapText(s, F(_)) == FlattenSeq([i \in DOMAIN s |-> F(s[i])])

(* Mutant: an escape at the very end is left as it is. *)
UrlDecodeShort(s) ==
  LET rest[i \in 1..(Len(s) + 3)] ==
        IF i > Len(s) THEN <<>>
        ELSE IF s[i] = "+" THEN <<" ">> \o rest[i + 1]
        ELSE IF s[i] = "%" /\ i + 2 < Len(s) /\ {s[i + 1], s[i + 2]} \subseteq HexDigit
             THEN <<Byte(s[i + 1], s[i + 2])>> \o rest[i + 3]
        ELSE <<s[i]>> \o rest[i + 1]
  IN  rest[1]

(* url_decode() *)
UrlDecode(s) ==
  LET rest[i \in 1..(Len(s) + 3)] ==
        IF i > Len(s) THEN <<>>
        ELSE IF s[i] = "+" THEN <<" ">> \o rest[i + 1]
        ELSE IF s[i] = "%" /\ i + 2 <= Len(s) /\ {s[i + 1], s[i + 2]} \subseteq HexDigit
             THEN <<Byte(s[i + 1], s[i + 2])>> \o rest[i + 3]
        ELSE <<s[i]>> \o rest[i + 1]
  IN  rest[1]

(* html_escape() *)
HtmlEscape(s) ==
  MapText(s, LAMBDA c : IF c \in DOMAIN Entity THEN <<"&", Entity[c], ";">> ELSE <<c>>)

(* escape_json() *)
EscapeJson(s) ==
  MapText(s, LAMBDA c : IF c \in DOMAIN Escape THEN <<"\\", Escape[c]>> ELSE <<c>>)

(* replace_placeholder(), which does not look into the value it inserts. *)
ReplacePlaceholder(tmpl, marker, value) ==
  MapText(tmpl, LAMBDA c : IF c = marker THEN value ELSE <<c>>)

(* get_form_value(): the value of the first part "key=value" of the body. *)
GetFormValue(body, key) ==
  LET starts == {p \in 1..(Len(body) + 1) : p = 1 \/ body[p - 1] = "&"}
      end(p) == Min({i \in p..Len(body) : body[i] = "&"} \cup {Len(body) + 1})
      eq(p) == Min({i \in p..(end(p) - 1) : body[i] = "="} \cup {end(p)})
      found == {p \in starts : eq(p) < end(p) /\ SubSeq(body, p, eq(p) - 1) = <<key>>}
  IN  IF found = {} THEN <<>>
      ELSE SubSeq(body, eq(Min(found)) + 1, end(Min(found)) - 1)

-----------------------------------------------------------------------------
(* The browser.                                                            *)

(* A field of a form, in application/x-www-form-urlencoded. *)
FormEncode(s) ==
  MapText(s, LAMBDA c : IF c = " " THEN <<"+">>
                        ELSE IF c \in DOMAIN Hex THEN <<"%">> \o Hex[c] ELSE <<c>>)

(* The fields of editor.html, in their order. *)
FormBody(fields) ==
  <<"title", "=">> \o FormEncode(fields.title)
  \o <<"&", "category", "=">> \o FormEncode(fields.category)
  \o <<"&", "content", "=">> \o FormEncode(fields.content)

(* What a page's text or attribute value shows, a line break as it is      *)
(* written; a raw quote or < may end it, and is where nothing is said.     *)
HtmlShows(s) ==
  LET rest[i \in 1..(Len(s) + 3)] ==
        IF i > Len(s) THEN <<>>
        ELSE IF s[i] = "&" /\ i + 2 <= Len(s) /\ s[i + 2] = ";"
                  /\ \E c \in DOMAIN Entity : Entity[c] = s[i + 1]
             THEN <<CHOOSE c \in DOMAIN Entity : Entity[c] = s[i + 1]>> \o rest[i + 3]
        ELSE IF s[i] \in {"\"", "<"} THEN <<"broken">>
        ELSE <<s[i]>> \o rest[i + 1]
  IN  rest[1]

(* A line break right behind <pre> or <textarea> is skipped. *)
BreakLength(s) ==
  IF Len(s) > 1 /\ s[1] = "\r" /\ s[2] = "\n" THEN 2
  ELSE IF Len(s) > 0 /\ s[1] \in {"\r", "\n"} THEN 1 ELSE 0

SkipBreak(s) == SubSeq(s, BreakLength(s) + 1, Len(s))

BlockShows(s) == HtmlShows(SkipBreak(s))

(* What the browser takes the text of a <script> for, at the end of s: it  *)
(* ends with the first </script>, also in the middle of a literal; but     *)
(* between <!-- and --> a <script> makes it pass over one </script>.       *)
TagEnd == {">", " ", "/", "\t", "\n", "\r"}

ScriptState(s) ==
  LET opens(i, name) == i > 1 /\ s[i - 1] = "<" /\ s[i] = name
      tag(i, name) == opens(i, name) /\ i < Len(s) /\ s[i + 1] \in TagEnd
      step(state, i) ==
        CASE state = "ended" -> "ended"
          [] state = "nested" /\ tag(i, "/script") -> "comment"
          [] state # "nested" /\ tag(i, "/script") -> "ended"
          [] state = "plain" /\ opens(i, "!--") -> "comment"
          [] state = "comment" /\ tag(i, "script") -> "nested"
          [] state # "ended" /\ i > 1 /\ s[i - 1] \in {"--", "!--"} /\ s[i] = ">" -> "plain"
          [] OTHER -> state
      after[i \in 0..Len(s)] == IF i = 0 THEN "plain" ELSE step(after[i - 1], i)
  IN  after[Len(s)]

(* The value of a string literal; a raw quote or line break ends it.       *)
LiteralValue(s) ==
  LET rest[i \in 1..(Len(s) + 2)] ==
        IF i > Len(s) THEN <<>>
        ELSE IF s[i] = "\\" /\ i + 1 <= Len(s)
             THEN <<IF \E c \in DOMAIN Escape : Escape[c] = s[i + 1]
                    THEN CHOOSE c \in DOMAIN Escape : Escape[c] = s[i + 1]
                    ELSE s[i + 1]>> \o rest[i + 2]
        ELSE IF s[i] \in {"\"", "\\", "\n", "\r"} THEN <<"broken">>
        ELSE <<s[i]>> \o rest[i + 1]
  IN  rest[1]

(* The value of a literal that is the whole text s of a <script> between   *)
(* its quotes: none where the script does not end behind it.               *)
ScriptValue(s) ==
  IF ScriptState(s) \in {"plain", "comment"} THEN LiteralValue(s) ELSE <<"broken">>

(* Whether s has what escape_json() leaves as it is and the browser does   *)
(* not: an end tag (a tab or line break in it is escaped), or a comment.   *)
LeavesScript(s) ==
  \E i \in 1..(Len(s) - 1) :
    /\ s[i] = "<"
    /\ \/ s[i + 1] = "!--"
       \/ s[i + 1] = "/script" /\ i + 2 <= Len(s) /\ s[i + 2] \in TagEnd \ DOMAIN Escape

-----------------------------------------------------------------------------
(* Nothing for url_decode() to decode. *)
NoEscape(s) ==
  \A i \in DOMAIN s :
    /\ s[i] # "+"
    /\ ~(s[i] = "%" /\ i + 2 <= Len(s) /\ {s[i + 1], s[i + 2]} \subseteq HexDigit)

(* Every text comes through the form, and through html_escape() into a     *)
(* page, unchanged; through escape_json() into a script if it does not end *)
(* the script; and url_decode() leaves alone an escape that is not whole   *)
(* or has other digits (tests/test_utils.cpp:31-32).                       *)
TextSurvives(s) ==
  /\ LET body == FormBody([title |-> s, category |-> s, content |-> s])
     IN  \A key \in {"title", "category", "content"} : UrlDecode(GetFormValue(body, key)) = s
  /\ HtmlShows(HtmlEscape(s)) = s
  /\ ~LeavesScript(s) => ScriptValue(EscapeJson(s)) = s
  /\ NoEscape(s) => UrlDecode(s) = s
=============================================================================
