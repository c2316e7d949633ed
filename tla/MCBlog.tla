------------------------------- MODULE MCBlog -------------------------------
(* Blog instantiated for TLC. *)
EXTENDS Blog

Symmetry ==
  Permutations(Browser) \cup Permutations(Name) \cup Permutations(Password) \cup
  Permutations(Token)

(* Two articles, told apart by their titles; the second is not shown as    *)
(* it is, but in the list and the editor.                                  *)
ShortTitles == {<<"&", "<">>, <<"{{DATE}}">>}
ShortCategories == {<<>>}
ShortContents == {<<"%", "\\", "\"">>}

(* Characters that one function or another treats in a way of its own, or  *)
(* writes; the text functions are checked on every sequence of up to       *)
(* MaxText of them.                                                        *)
PageChar ==
  {"a", "2", "B", "b", "%", "+", " ", "&", "=", "amp", ";", "<", ">", "\"", "'", "\\", "n",
   "\r", "\n", "/script", "!--", "script"}
  \cup DetailMarkers \cup EditorMarkers \cup ListMarkers

(* Texts of the pages, each with a marker of some page or with what a      *)
(* browser reads in a way of its own.                                      *)
PageTexts ==
  {<<>>, <<"&", "amp", ";", "'">>, <<"\r", "\n", "\"", "%", "2", "b">>, <<"+", "\\", "n", "\n">>,
   <<"{{CONTENT_JSON}}", "{{CONTENT_VALUE}}">>, <<"{{CATEGORY}}", "{{ARTICLES}}">>,
   <<"{{CATEGORY_VALUE}}">>, <<"{{ID}}", "{{DATE}}">>, <<"{{DELETE_HTML}}">>,
   <<"<", "/script", ">">>, <<"<", "!--", "<", "script", ">">>}

(* An article whose title holds a marker of the reader's page, and whose   *)
(* content ends its script.                                                *)
RawChar == {"a", "{{DATE}}", "<", "/script", ">"}
RawTitles == {<<"{{DATE}}">>}
RawCategories == {<<"a">>}
RawContents == {<<"<", "/script", ">", "a">>}
=============================================================================
