--------------------------- MODULE MCHttpSession ---------------------------
(* HttpSession instantiated for TLC: one request of every kind that the    *)
(* limits, the parser and the validation tell apart.                       *)
EXTENDS HttpSession

CONSTANTS get, long, post, wide, late, wrap, loop, huge, bad, put, close, old, s1

Plain ==
  [parts |-> 1, wf |-> TRUE, method |-> "GET", version |-> "1.1", host |-> TRUE,
   connection |-> "", slash |-> TRUE, cl |-> 0, body |-> 0]
Post(n) == [Plain EXCEPT !.parts = 0, !.method = "POST", !.cl = n, !.body = n]

(* long: its header is over the limit; wide: its body is; late: a GET with *)
(* a body; wrap, loop: an announced length that takes the end around into  *)
(* the header, or to its start; huge: the same in a header that does not   *)
(* parse; bad: not HTTP; old: an HTTP/1.0 request that asks to be kept.    *)
MCRequest ==
  (get :> [Plain EXCEPT !.parts = 0]) @@ (long :> [Plain EXCEPT !.parts = HeadLimit]) @@
  (post :> Post(BodyLimit)) @@
  (wide :> Post(BodyLimit + RecvMax + 1)) @@
  (late :> [Plain EXCEPT !.cl = 1, !.body = 1]) @@
  (wrap :> [Post(SizeMod - 1) EXCEPT !.parts = 1, !.body = 1]) @@
  (loop :> [Post(SizeMod - 1) EXCEPT !.body = 1]) @@
  (huge :> [Post(SizeMod - 1) EXCEPT !.body = 1, !.wf = FALSE]) @@
  (bad :> [Plain EXCEPT !.wf = FALSE]) @@ (put :> [Plain EXCEPT !.method = "other"]) @@
  (close :> [Plain EXCEPT !.connection = "close"]) @@
  (old :> [Plain EXCEPT !.version = "1.0", !.connection = "keep-alive"])

(* Every pair of requests, and two triples. *)
MCScripts ==
  {<<a, b>> : a, b \in Req} \cup {<<post, get, post>>, <<get, late, get>>, <<get, get, wide>>}
=============================================================================
