---------------------------- MODULE MCWebServer ----------------------------
(* WebServer instantiated for TLC: a few well-formed requests, and what    *)
(* each client sends.  Limits and framing errors are HttpSession's.        *)
EXTENDS WebServer

CONSTANTS c1, c2, r1, r2, r3

Get(connection) ==
  [parts |-> 0, wf |-> TRUE, method |-> "GET", version |-> "1.1", host |-> TRUE,
   connection |-> connection, slash |-> TRUE, cl |-> 0, body |-> 0]

(* r1 comes in one unit and keeps the connection; r2 comes in two units    *)
(* and keeps it; r3 comes in one unit and closes it.                       *)
MCRequest ==
  (r1 :> Get("")) @@ (r2 :> [Get("") EXCEPT !.parts = 1]) @@ (r3 :> Get("close"))

(* Two clients that share one descriptor after one another. *)
ReuseScript == (c1 :> <<r1, r2>>) @@ (c2 :> <<r3>>)

(* The same, one request each. *)
OneEach == (c1 :> <<r2>>) @@ (c2 :> <<r3>>)

(* One client, two requests on a kept-alive connection. *)
TwoRequests == c1 :> <<r1, r2>>

OneRequest == c1 :> <<r2>>
=============================================================================
