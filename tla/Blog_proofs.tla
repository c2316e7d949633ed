---------------------------- MODULE Blog_proofs ----------------------------
(***************************************************************************)
(* Proofs about Blog, for every set of browsers, users, passwords, tokens  *)
(* and texts, every number of articles and faults and every size of the    *)
(* pool, and about the functions of TextUtils, for every text.             *)
(*                                                                         *)
(* The first part, on sessions, guards and who changes an article, needs   *)
(* nothing of the texts.  The second shows, function by function, that the *)
(* reader undoes the writer: each of them reads its text from the front,   *)
(* and what the writer makes of one character is read in one go.  The      *)
(* third puts both together: what the pages say and show.                  *)
(***************************************************************************)
EXTENDS Blog, SequenceLemmas, TLAPS

(* A request that is being handled is one that a browser sent. *)
RequestOK ==
  pc # "idle" =>
    /\ by \in Browser
    /\ req.op \in {"register", "login"} => req.name \in Name /\ req.password \in Password
    /\ pc = "token" => req.op = "login"

(* A handler that is about to change an article has found its browser's    *)
(* session, and its title is not empty.                                    *)
CheckedBefore ==
  /\ pc = "session" => cookie[by] # NoToken
  /\ pc = "work" /\ req.op \in {"create", "update", "delete"} =>
       cookie[by] # NoToken /\ sessions[cookie[by]] # NoUser
  /\ pc = "work" /\ req.op \in {"create", "update"} => Row(req.fields).title # <<>>

BlogInv ==
  /\ TypeOK
  /\ nextId \in Nat
  /\ RequestOK
  /\ CheckedBefore
  /\ CookieIsOwnSession

-----------------------------------------------------------------------------
(* What the forms of a browser contain. *)
LEMMA RequestShape ==
  ASSUME NEW r \in Request, r.op \in {"register", "login"}
  PROVE  "name" \in DOMAIN r /\ r.name \in Name \cup {""} /\ r.password \in Password \cup {""}
  BY DEF Request, Account, Update

LEMMA BlogInit == Init => BlogInv
  <1> SUFFICES ASSUME Init PROVE BlogInv
    OBVIOUS
  <1> USE BlogAssumption DEF Init
  <1>1. TypeOK
    BY DEF TypeOK, Id
  <1>2. nextId \in Nat /\ RequestOK /\ CheckedBefore /\ CookieIsOwnSession
    BY DEF RequestOK, CheckedBefore, CookieIsOwnSession
  <1> QED BY <1>1, <1>2 DEF BlogInv

-----------------------------------------------------------------------------
(* What one step can do to each part of the state; the lemmas on the       *)
(* invariant need no more of an action than one of these.                  *)

(* A request comes in, and all but the handler's own state stays. *)
Arrives(b, r) ==
  /\ b \in Browser
  /\ by' = b /\ req' = r
  /\ pc = "idle" /\ held' = held /\ idle' = idle
  /\ UNCHANGED <<users, sessions, articles, nextId, cookie, owner, typed>>
  /\ cached' \subseteq cached \cup {"list", "detail", "editor"}
  /\ pc' \in {"idle", "session", "work"}
  /\ pc' = "session" => cookie[b] # NoToken /\ r.op \in NeedsSession
  /\ pc' = "work" => r.op \notin NeedsSession
  /\ pc' = "work" /\ r.op \in {"register", "login"} => r.name # "" /\ r.password # ""

LEMMA ReadFileKeeps ==
  ASSUME NEW f \in {"list", "detail", "editor"}, NEW found \in BOOLEAN, ReadFile(f, found)
  PROVE  cached' \subseteq cached \cup {"list", "detail", "editor"}
  BY DEF ReadFile

LEMMA AfterSessionDoes ==
  ASSUME NEW r, NEW known \in BOOLEAN, AfterSession(r, known)
  PROVE  /\ cached' \subseteq cached \cup {"list", "detail", "editor"}
         /\ pc' \in {"idle", "work"}
         /\ pc' = "work" => known
         /\ pc' = "work" /\ r.op \in {"create", "update"} => Row(r.fields).title # <<>>
  <1>1. CASE ~known /\ AnswerKind("login first") /\ UNCHANGED cached
    BY <1>1 DEF AnswerKind, Answer
  <1>2. CASE /\ known /\ r.op = "new" /\ AnswerKind("blank editor")
             /\ \E found \in BOOLEAN : ReadFile("editor", found)
    BY <1>2, ReadFileKeeps DEF AnswerKind, Answer
  <1>3. CASE AnswerKind("fields empty") /\ UNCHANGED cached
    BY <1>3 DEF AnswerKind, Answer
  <1>4. CASE /\ known
             /\ r.op \in {"create", "update"} => Row(r.fields).title # <<>>
             /\ pc' = "work" /\ UNCHANGED cached
    BY <1>4
  <1> QED BY <1>1, <1>2, <1>3, <1>4 DEF AfterSession

LEMMA DispatchArrives ==
  ASSUME NEW b \in Browser, NEW r, Dispatch(b, r),
         r.op \in {"register", "login"} => "name" \in DOMAIN r
  PROVE  Arrives(b, r)
  <1>1. /\ by' = b /\ req' = r /\ pc = "idle" /\ held' = held /\ idle' = idle
        /\ UNCHANGED <<users, sessions, articles, nextId, cookie, owner, typed>>
    BY DEF Dispatch, db, browsers
  <1>2. CASE \E k \in {"not found", "name empty"} : AnswerKind(k) /\ UNCHANGED cached
    BY <1>1, <1>2 DEF AnswerKind, Answer, Arrives
  <1>3. CASE cookie[b] = NoToken /\ AfterSession(r, FALSE)
    <2>1. pc' = "idle" /\ cached' \subseteq cached \cup {"list", "detail", "editor"}
      BY <1>3, AfterSessionDoes
    <2> QED BY <1>1, <2>1 DEF Arrives
  <1>4. CASE /\ cookie[b] # NoToken /\ r.op \in NeedsSession
             /\ pc' = "session" /\ UNCHANGED cached
    BY <1>1, <1>4 DEF Arrives
  <1>5. CASE /\ "name" \in DOMAIN r => r.name # "" /\ r.password # ""
             /\ r.op \notin NeedsSession
             /\ pc' = "work" /\ UNCHANGED cached
    BY <1>1, <1>5 DEF Arrives
  <1> QED BY <1>2, <1>3, <1>4, <1>5 DEF Dispatch

(* Every request comes from a form or from the editor. *)
LEMMA StepArrives ==
  ASSUME NEW b \in Browser, Send(b) \/ Save(b)
  PROVE  \E r : /\ Arrives(b, r)
                /\ r.op \in {"register", "login"} =>
                     r.name \in Name \cup {""} /\ r.password \in Password \cup {""}
  <1>1. CASE Send(b)
    <2>1. PICK r \in Request : Dispatch(b, r)
      BY <1>1 DEF Send
    <2>2. /\ r.op \in {"register", "login"} => "name" \in DOMAIN r
          /\ r.op \in {"register", "login"} =>
               r.name \in Name \cup {""} /\ r.password \in Password \cup {""}
      BY RequestShape
    <2>3. Arrives(b, r)
      BY <2>1, <2>2, DispatchArrives
    <2> QED BY <2>2, <2>3
  <1>2. CASE Save(b)
    <2> DEFINE r == [op |-> "update", id |-> page.id, fields |-> page.fields]
    <2>1. Dispatch(b, r) /\ r.op = "update"
      BY <1>2 DEF Save
    <2> HIDE DEF r
    <2>2. Arrives(b, r)
      BY <2>1, DispatchArrives
    <2> QED BY <2>1, <2>2
  <1> QED BY <1>1, <1>2

LEMMA ArrivalStep ==
  ASSUME BlogInv, NEW b \in Browser, NEW r, Arrives(b, r),
         r.op \in {"register", "login"} =>
           r.name \in Name \cup {""} /\ r.password \in Password \cup {""}
  PROVE  BlogInv'
  <1> USE BlogAssumption DEF BlogInv, Arrives
  <1>1. TypeOK'
    BY DEF TypeOK
  <1>2. nextId' \in Nat
    OBVIOUS
  <1>3. RequestOK'
    BY DEF RequestOK, NeedsSession
  <1>4. CheckedBefore' /\ CookieIsOwnSession'
    BY DEF CheckedBefore, NeedsSession, CookieIsOwnSession
  <1> QED BY <1>1, <1>2, <1>3, <1>4

-----------------------------------------------------------------------------
(* A statement at place p is done, and the handler gives its guard back.   *)
Done(p, ops) ==
  /\ pc = p /\ held = TRUE /\ req.op \in ops
  /\ req' = req /\ by' = by
  /\ held' = FALSE /\ idle' = idle + 1

LEMMA StatementDone ==
  ASSUME BlogInv, NEW p, NEW ops, NEW o, Statement(p, ops, o), Release
  PROVE  Done(p, ops)
  BY DEF Statement, Release, Done, BlogInv, TypeOK

(* The pool's part of the type invariant, after any statement. *)
LEMMA PoolKept ==
  ASSUME BlogInv, NEW p, NEW ops, Done(p, ops)
  PROVE  held' = FALSE /\ idle' \in 0..PoolSize /\ idle' = PoolSize
  BY BlogAssumption DEF BlogInv, TypeOK, Done

(* The type invariant after a statement, from that of what it changed. *)
LEMMA StatementTypes ==
  ASSUME BlogInv, NEW p, NEW ops, Done(p, ops),
         users' \in [Name -> Password \cup {NoPassword}],
         sessions' \in [Token -> Name \cup {NoUser}],
         DOMAIN articles' = Id, DOMAIN typed' = Id,
         \A i \in Id : articles'[i] # NoRow => i < nextId' /\ articles'[i].title # <<>>,
         cached' \subseteq cached \cup {"list", "detail", "editor"},
         pc' \in {"idle", "session", "work", "token"},
         cookie' \in [Browser -> Token \cup {NoToken}],
         owner' \in [Browser -> Name \cup {NoUser}]
  PROVE  TypeOK'
  <1>1. held' = FALSE /\ idle' \in 0..PoolSize /\ idle' = PoolSize
    BY PoolKept
  <1>2. idle' + (IF held' THEN 1 ELSE 0) = PoolSize
    BY <1>1, BlogAssumption
  <1>3. cached' \subseteq {"list", "detail", "editor"}
    BY DEF BlogInv, TypeOK
  <1> QED BY <1>1, <1>2, <1>3 DEF TypeOK

LEMMA AnswerIdle == ASSUME NEW p, Answer(p) PROVE pc' = "idle"
  BY DEF Answer

LEMMA AnswerKindIdle == ASSUME NEW k, AnswerKind(k) PROVE pc' = "idle"
  BY DEF AnswerKind, Answer

(* After a statement that changes no session and answers. *)
LEMMA AnsweredKeeps ==
  ASSUME BlogInv, pc' = "idle", UNCHANGED <<sessions, cookie, owner>>
  PROVE  RequestOK' /\ CheckedBefore' /\ CookieIsOwnSession'
  BY DEF BlogInv, RequestOK, CheckedBefore, CookieIsOwnSession

LEMMA AcquireStep == BlogInv /\ Acquire => BlogInv'
  <1> SUFFICES ASSUME BlogInv, Acquire PROVE BlogInv'
    OBVIOUS
  <1> USE BlogAssumption DEF BlogInv, Acquire, request, db, browsers
  <1>1. TypeOK'
    BY DEF TypeOK
  <1>2. nextId' \in Nat /\ RequestOK' /\ CheckedBefore' /\ CookieIsOwnSession'
    BY DEF RequestOK, CheckedBefore, CookieIsOwnSession
  <1> QED BY <1>1, <1>2

LEMMA FindSessionStep == BlogInv /\ FindSession => BlogInv'
  <1> SUFFICES ASSUME BlogInv, FindSession PROVE BlogInv'
    OBVIOUS
  <1> USE BlogAssumption
  <1>1. PICK o \in Query :
          /\ Statement("session", NeedsSession, o) /\ Release
          /\ AfterSession(req, o = "ok" /\ sessions[cookie[by]] # NoUser)
          /\ UNCHANGED <<db, browsers, typed>>
    BY DEF FindSession
  <1>2. Done("session", NeedsSession)
    BY <1>1, StatementDone
  <1>3. /\ cached' \subseteq cached \cup {"list", "detail", "editor"}
        /\ pc' \in {"idle", "work"}
        /\ pc' = "work" => sessions[cookie[by]] # NoUser
        /\ pc' = "work" /\ req.op \in {"create", "update"} => Row(req.fields).title # <<>>
    <2> DEFINE known == o = "ok" /\ sessions[cookie[by]] # NoUser
    <2>1. known \in BOOLEAN /\ AfterSession(req, known)
      BY <1>1
    <2>2. known => sessions[cookie[by]] # NoUser
      OBVIOUS
    <2> HIDE DEF known
    <2> QED BY <2>1, <2>2, AfterSessionDoes
  <1>4. UNCHANGED <<users, sessions, articles, nextId, cookie, owner, typed>>
    BY <1>1 DEF db, browsers
  <1>5. TypeOK'
    BY <1>2, <1>3, <1>4, StatementTypes DEF BlogInv, TypeOK
  <1>6. nextId' \in Nat /\ RequestOK'
    BY <1>2, <1>3, <1>4 DEF BlogInv, RequestOK, Done, NeedsSession
  <1>7. CheckedBefore'
    BY <1>2, <1>3, <1>4 DEF BlogInv, CheckedBefore, Done
  <1>8. CookieIsOwnSession'
    BY <1>4 DEF BlogInv, CookieIsOwnSession
  <1> QED BY <1>5, <1>6, <1>7, <1>8 DEF BlogInv

LEMMA InsertUserStep == BlogInv /\ InsertUser => BlogInv'
  <1> SUFFICES ASSUME BlogInv, InsertUser PROVE BlogInv'
    OBVIOUS
  <1> USE BlogAssumption
  <1>1. /\ Done("work", {"register"}) /\ pc' = "idle"
        /\ UNCHANGED <<sessions, articles, nextId, cached, cookie, owner, typed>>
        /\ users' \in {users, [users EXCEPT ![req.name] = req.password]}
    BY StatementDone, AnswerKindIdle DEF InsertUser, browsers
  <1>2. req.name \in Name /\ req.password \in Password
    BY <1>1 DEF Done, BlogInv, RequestOK
  <1>3. users' \in [Name -> Password \cup {NoPassword}]
    BY <1>1, <1>2 DEF BlogInv, TypeOK
  <1>4. TypeOK'
    BY <1>1, <1>3, StatementTypes DEF BlogInv, TypeOK
  <1> QED BY <1>1, <1>4, AnsweredKeeps DEF BlogInv

LEMMA CheckPasswordStep == BlogInv /\ CheckPassword => BlogInv'
  <1> SUFFICES ASSUME BlogInv, CheckPassword PROVE BlogInv'
    OBVIOUS
  <1> USE BlogAssumption
  <1>1. /\ Done("work", {"login"}) /\ pc' \in {"idle", "token"}
        /\ UNCHANGED <<users, sessions, articles, nextId, cached, cookie, owner, typed>>
    BY StatementDone, AnswerKindIdle DEF CheckPassword, db, browsers
  <1>2. TypeOK'
    BY <1>1, StatementTypes DEF BlogInv, TypeOK
  <1>3. nextId' \in Nat /\ RequestOK' /\ CheckedBefore' /\ CookieIsOwnSession'
    BY <1>1 DEF BlogInv, Done, RequestOK, CheckedBefore, CookieIsOwnSession
  <1> QED BY <1>2, <1>3 DEF BlogInv

(* The step that matters for CookieIsOwnSession: the token that login puts *)
(* into the table and into the cookie is in no other browser's cookie.     *)
LEMMA InsertSessionStep == BlogInv /\ InsertSession => BlogInv'
  <1> SUFFICES ASSUME BlogInv, InsertSession PROVE BlogInv'
    OBVIOUS
  <1> USE BlogAssumption
  <1>1. PICK t \in Fresh :
          /\ Done("token", {"login"}) /\ pc' = "idle"
          /\ sessions' \in {sessions, [sessions EXCEPT ![t] = req.name]}
          /\ cookie' = [cookie EXCEPT ![by] = t]
          /\ owner' = [owner EXCEPT ![by] = req.name]
          /\ UNCHANGED <<users, articles, nextId, cached, typed>>
    BY StatementDone, AnswerKindIdle DEF InsertSession
  <1>2. /\ t \in Token /\ sessions[t] = NoUser
        /\ \A b \in Browser : cookie[b] # t
        /\ by \in Browser /\ req.name \in Name
    BY <1>1 DEF Fresh, Done, BlogInv, RequestOK
  <1>3. /\ sessions \in [Token -> Name \cup {NoUser}]
        /\ cookie \in [Browser -> Token \cup {NoToken}]
        /\ owner \in [Browser -> Name \cup {NoUser}]
    BY DEF BlogInv, TypeOK
  <1>4. /\ sessions' \in [Token -> Name \cup {NoUser}]
        /\ cookie' \in [Browser -> Token \cup {NoToken}]
        /\ owner' \in [Browser -> Name \cup {NoUser}]
    BY <1>1, <1>2, <1>3
  <1>5. TypeOK'
    BY <1>1, <1>4, StatementTypes DEF BlogInv, TypeOK
  <1>6. CookieIsOwnSession'
    <2> SUFFICES ASSUME NEW b \in Browser, cookie'[b] # NoToken
                 PROVE  sessions'[cookie'[b]] \in {NoUser, owner'[b]}
      BY DEF CookieIsOwnSession
    <2>1. CASE b = by
      <3>1. cookie'[b] = t /\ owner'[b] = req.name
        BY <1>1, <1>2, <1>3, <2>1
      <3>2. sessions'[t] \in {NoUser, req.name}
        BY <1>1, <1>2, <1>3
      <3> QED BY <3>1, <3>2
    <2>2. CASE b # by
      <3>1. cookie'[b] = cookie[b] /\ owner'[b] = owner[b] /\ cookie[b] # t
        BY <1>1, <1>2, <1>3, <2>2
      <3>2. cookie[b] \in Token
        BY <1>3, <3>1
      <3>3. sessions'[cookie[b]] = sessions[cookie[b]]
        BY <1>1, <1>3, <3>1, <3>2
      <3> QED BY <3>1, <3>3 DEF BlogInv, CookieIsOwnSession
    <2> QED BY <2>1, <2>2
  <1>7. nextId' \in Nat /\ RequestOK' /\ CheckedBefore'
    BY <1>1 DEF BlogInv, RequestOK, CheckedBefore
  <1> QED BY <1>5, <1>6, <1>7 DEF BlogInv

(* The three pages that are read from the table. *)
LEMMA SelectStep == BlogInv /\ (SelectList \/ SelectDetail \/ SelectEdit) => BlogInv'
  <1> SUFFICES ASSUME BlogInv, SelectList \/ SelectDetail \/ SelectEdit PROVE BlogInv'
    OBVIOUS
  <1> USE BlogAssumption
  <1>1. /\ \E ops : Done("work", ops)
        /\ pc' = "idle"
        /\ UNCHANGED <<users, sessions, articles, nextId, cookie, owner, typed>>
        /\ cached' \subseteq cached \cup {"list", "detail", "editor"}
    <2>1. CASE SelectList
      BY <2>1, StatementDone, AnswerIdle, ReadFileKeeps DEF SelectList, db, browsers
    <2>2. CASE SelectDetail
      BY <2>2, StatementDone, AnswerIdle, AnswerKindIdle, ReadFileKeeps
      DEF SelectDetail, db, browsers
    <2>3. CASE SelectEdit
      BY <2>3, StatementDone, AnswerIdle, AnswerKindIdle, ReadFileKeeps
      DEF SelectEdit, db, browsers
    <2> QED BY <2>1, <2>2, <2>3
  <1>2. TypeOK'
    BY <1>1, StatementTypes DEF BlogInv, TypeOK
  <1> QED BY <1>1, <1>2, AnsweredKeeps DEF BlogInv

(* The three that change it. *)
Changes(id) ==
  /\ articles' \in {[articles EXCEPT ![id] = Row(req.fields)],
                    [articles EXCEPT ![id] = NoRow]}
  /\ \E r : typed' = [typed EXCEPT ![id] = r]

LEMMA ChangeStep ==
  BlogInv /\ (InsertArticle \/ UpdateArticle \/ DeleteArticle) => BlogInv'
  <1> SUFFICES ASSUME BlogInv, InsertArticle \/ UpdateArticle \/ DeleteArticle
               PROVE  BlogInv'
    OBVIOUS
  <1> USE BlogAssumption
  <1>0. /\ DOMAIN articles = Id /\ DOMAIN typed = Id /\ nextId \in Nat
        /\ \A i \in Id : i \in Nat
        /\ \A i \in Id : articles[i] # NoRow => i < nextId /\ articles[i].title # <<>>
    BY DEF BlogInv, TypeOK, Id
  <1>1. /\ \E ops : Done("work", ops)
        /\ pc' = "idle"
        /\ UNCHANGED <<users, sessions, cached, cookie, owner>>
    <2>1. CASE InsertArticle
      BY <2>1, StatementDone, AnswerKindIdle DEF InsertArticle, browsers
    <2>2. CASE UpdateArticle
      BY <2>2, StatementDone, AnswerKindIdle DEF UpdateArticle, browsers
    <2>3. CASE DeleteArticle
      BY <2>3, StatementDone, AnswerKindIdle DEF DeleteArticle, browsers
    <2> QED BY <2>1, <2>2, <2>3
  <1>2. /\ DOMAIN articles' = Id /\ DOMAIN typed' = Id /\ nextId' \in Nat
        /\ \A i \in Id : articles'[i] # NoRow => i < nextId' /\ articles'[i].title # <<>>
    <2>1. CASE InsertArticle
      <3>1. PICK o \in Change :
              /\ Statement("work", {"create"}, o)
              /\ IF o = "fails" THEN UNCHANGED <<articles, typed, nextId>>
                 ELSE Store(nextId) /\ nextId' = nextId + 1
        BY <2>1 DEF InsertArticle
      <3>2. Row(req.fields).title # <<>>
        BY <3>1 DEF Statement, BlogInv, CheckedBefore
      <3> QED BY <1>0, <3>1, <3>2 DEF Store
    <2>2. CASE UpdateArticle
      <3>1. PICK o \in Change :
              /\ Statement("work", {"update"}, o)
              /\ IF o = "fails" \/ articles[req.id] = NoRow THEN UNCHANGED <<articles, typed>>
                 ELSE Store(req.id)
              /\ nextId' = nextId
        BY <2>2 DEF UpdateArticle
      <3>2. Row(req.fields).title # <<>>
        BY <3>1 DEF Statement, BlogInv, CheckedBefore
      <3> QED BY <1>0, <3>1, <3>2 DEF Store
    <2>3. CASE DeleteArticle
      <3>1. /\ nextId' = nextId
            /\ \/ UNCHANGED <<articles, typed>>
               \/ /\ articles' = [articles EXCEPT ![req.id] = NoRow]
                  /\ typed' = [typed EXCEPT ![req.id] = NoRow]
        BY <2>3 DEF DeleteArticle
      <3> QED BY <1>0, <3>1
    <2> QED BY <2>1, <2>2, <2>3
  <1>3. TypeOK'
    BY <1>1, <1>2, StatementTypes DEF BlogInv, TypeOK
  <1> QED BY <1>1, <1>2, <1>3, AnsweredKeeps DEF BlogInv

LEMMA StutterStep == BlogInv /\ UNCHANGED vars => BlogInv'
  BY DEF BlogInv, vars, db, request, browsers, TypeOK, RequestOK, CheckedBefore,
         CookieIsOwnSession

THEOREM BlogInvariant == Spec => []BlogInv
  <1>1. BlogInv /\ [Next]_vars => BlogInv'
    <2> SUFFICES ASSUME BlogInv, [Next]_vars PROVE BlogInv'
      OBVIOUS
    <2>1. ASSUME NEW b \in Browser, Send(b) \/ Save(b) PROVE BlogInv'
      BY <2>1, StepArrives, ArrivalStep
    <2>2. ASSUME HandlerStep PROVE BlogInv'
      BY <2>2, AcquireStep, FindSessionStep, InsertUserStep, CheckPasswordStep,
         InsertSessionStep, SelectStep, ChangeStep
      DEF HandlerStep
    <2> QED BY <2>1, <2>2, StutterStep DEF Next
  <1> QED BY BlogInit, <1>1, PTL DEF Spec

-----------------------------------------------------------------------------
(* The tables, the guard and the cookies keep their types. *)
THEOREM BlogTypeCorrect == Spec => []TypeOK
  BY BlogInvariant, PTL DEF BlogInv

(* With any positive number of connections the handlers, which hold        *)
(* users_mutex_, never wait for one.                                       *)
THEOREM BlogNeverWaits == Spec => []HandlerNeverWaits
  <1>1. BlogInv => HandlerNeverWaits
    BY BlogAssumption DEF BlogInv, TypeOK, HandlerNeverWaits
  <1> QED BY BlogInvariant, <1>1, PTL

(* No interleaving of logins, failures and retries gives a browser a       *)
(* cookie of somebody else's session.                                      *)
THEOREM BlogCookies == Spec => []CookieIsOwnSession
  BY BlogInvariant, PTL DEF BlogInv

(* Only a browser with a session changes an article, and only the row that *)
(* its request names.                                                      *)
THEOREM BlogChangesOwnRow == Spec => ChangesOwnRowLoggedIn
  <1> DEFINE Own == \A i \in Id : articles'[i] # articles[i] =>
                      /\ i = IF req.op = "create" THEN nextId ELSE req.id
                      /\ req.op \in {"create", "update", "delete"}
                      /\ cookie[by] # NoToken /\ sessions[cookie[by]] # NoUser
  <1>1. BlogInv /\ [Next]_vars => [Own]_vars
    <2> SUFFICES ASSUME BlogInv, Next PROVE Own
      OBVIOUS
    <2>0. ASSUME articles' = articles PROVE Own
      BY <2>0
    <2>1. ASSUME NEW b \in Browser, Send(b) \/ Save(b) PROVE articles' = articles
      BY <2>1, StepArrives DEF Arrives
    <2>2. CASE InsertArticle
      <3>1. /\ pc = "work" /\ req.op = "create"
            /\ articles' \in {articles, [articles EXCEPT ![nextId] = Row(req.fields)]}
        BY <2>2 DEF InsertArticle, Statement, Store
      <3> QED BY <3>1 DEF BlogInv, TypeOK, CheckedBefore
    <2>3. CASE UpdateArticle
      <3>1. /\ pc = "work" /\ req.op = "update"
            /\ articles' \in {articles, [articles EXCEPT ![req.id] = Row(req.fields)]}
        BY <2>3 DEF UpdateArticle, Statement, Store
      <3> QED BY <3>1 DEF BlogInv, TypeOK, CheckedBefore
    <2>4. CASE DeleteArticle
      <3>1. /\ pc = "work" /\ req.op = "delete"
            /\ articles' \in {articles, [articles EXCEPT ![req.id] = NoRow]}
        BY <2>4 DEF DeleteArticle, Statement
      <3> QED BY <3>1 DEF BlogInv, TypeOK, CheckedBefore
    <2>5. CASE \/ Acquire \/ FindSession \/ InsertUser \/ CheckPassword \/ InsertSession
               \/ SelectList \/ SelectDetail \/ SelectEdit
      <3>1. articles' = articles
        BY <2>5 DEF Acquire, FindSession, InsertUser, CheckPassword, InsertSession,
                    SelectList, SelectDetail, SelectEdit, db
      <3> QED BY <2>0, <3>1
    <2> HIDE DEF Own
    <2> QED BY <2>0, <2>1, <2>2, <2>3, <2>4, <2>5 DEF Next, HandlerStep
  <1> QED BY BlogInvariant, <1>1, PTL DEF Spec, ChangesOwnRowLoggedIn

-----------------------------------------------------------------------------
(* The texts.                                                              *)

(* The tables of codes, entities and escapes can be read backwards. *)
LEMMA HexTable ==
  /\ DOMAIN Hex = {"&", "=", "+", "%", ";", "<", ">", "\"", "'", "\\", "\t", "\n", "\r"}
  /\ \A c \in DOMAIN Hex : Hex[c] \in (HexDigit \ DOMAIN Upper) \X (HexDigit \ DOMAIN Upper)
  /\ \A c, d \in DOMAIN Hex : Hex[c] = Hex[d] => c = d
  <1>1. DOMAIN Hex = {"&", "=", "+", "%", ";", "<", ">", "\"", "'", "\\", "\t", "\n", "\r"}
    BY DEF Hex
  <1>2. \A c \in DOMAIN Hex : Hex[c] \in (HexDigit \ DOMAIN Upper) \X (HexDigit \ DOMAIN Upper)
    <2>1. DOMAIN Upper = {"a", "b", "c", "d", "e", "f"}
      BY DEF Upper
    <2> QED BY <2>1 DEF Hex, HexDigit
  <1>3. ASSUME NEW c \in DOMAIN Hex, NEW d \in DOMAIN Hex, Hex[c] = Hex[d] PROVE c = d
    <2>1. CASE c = "&"
      BY <1>3, <2>1 DEF Hex
    <2>2. CASE c = "="
      BY <1>3, <2>2 DEF Hex
    <2>3. CASE c = "+"
      BY <1>3, <2>3 DEF Hex
    <2>4. CASE c = "%"
      BY <1>3, <2>4 DEF Hex
    <2>5. CASE c = ";"
      BY <1>3, <2>5 DEF Hex
    <2>6. CASE c = "<"
      BY <1>3, <2>6 DEF Hex
    <2>7. CASE c = ">"
      BY <1>3, <2>7 DEF Hex
    <2>8. CASE c = "\""
      BY <1>3, <2>8 DEF Hex
    <2>9. CASE c = "'"
      BY <1>3, <2>9 DEF Hex
    <2>10. CASE c = "\\"
      BY <1>3, <2>10 DEF Hex
    <2>11. CASE c = "\t"
      BY <1>3, <2>11 DEF Hex
    <2>12. CASE c = "\n"
      BY <1>3, <2>12 DEF Hex
    <2>13. CASE c = "\r"
      BY <1>3, <2>13 DEF Hex
    <2> QED BY <1>1, <2>1, <2>2, <2>3, <2>4, <2>5, <2>6, <2>7, <2>8, <2>9, <2>10, <2>11, <2>12, <2>13
  <1> QED BY <1>1, <1>2, <1>3

LEMMA EntityTable ==
  /\ DOMAIN Entity = {"&", "<", ">", "\"", "'"}
  /\ \A c \in DOMAIN Entity : Entity[c] \in {"amp", "lt", "gt", "quot", "#39"}
  /\ \A c, d \in DOMAIN Entity : Entity[c] = Entity[d] => c = d
  BY DEF Entity

LEMMA EscapeTable ==
  /\ DOMAIN Escape = {"\"", "\\", "\n", "\r", "\t"}
  /\ \A c \in DOMAIN Escape : Escape[c] \in {"\"", "\\", "n", "r", "t"}
  /\ \A c, d \in DOMAIN Escape : Escape[c] = Escape[d] => c = d
  BY DEF Escape

-----------------------------------------------------------------------------
(* url_decode(), place by place. *)
WholeEscape(s, i) == s[i] = "%" /\ i + 2 <= Len(s) /\ {s[i + 1], s[i + 2]} \subseteq HexDigit

UrlHead(s) ==
  [i \in 1..Len(s) |-> IF s[i] = "+" THEN <<" ">>
                      ELSE IF WholeEscape(s, i) THEN <<Byte(s[i + 1], s[i + 2])>> ELSE <<s[i]>>]
UrlNext(s) == [i \in 1..Len(s) |-> IF WholeEscape(s, i) THEN i + 3 ELSE i + 1]

LEMMA UrlScan ==
  ASSUME NEW S, NEW s \in Seq(S)
  PROVE  /\ Len(s) \in Nat /\ \A i \in 1..Len(s) : UrlNext(s)[i] \in (i + 1)..(Len(s) + 3)
         /\ \E f : Scans(f, Len(s), Len(s) + 3, UrlHead(s), UrlNext(s)) /\ UrlDecode(s) = f[1]
  <1> DEFINE n == Len(s)
             body(f, i) ==
               IF i > n THEN <<>>
               ELSE IF s[i] = "+" THEN <<" ">> \o f[i + 1]
               ELSE IF s[i] = "%" /\ i + 2 <= n /\ {s[i + 1], s[i + 2]} \subseteq HexDigit
                    THEN <<Byte(s[i + 1], s[i + 2])>> \o f[i + 3]
               ELSE <<s[i]>> \o f[i + 1]
             rest == CHOOSE f : f = [i \in 1..(n + 3) |-> body(f, i)]
  <1>1. n \in Nat
    OBVIOUS
  <1>2. UrlDecode(s) = rest[1]
    BY DEF UrlDecode
  <1> HIDE DEF rest, n
  <1>3. \A i \in 1..n : UrlNext(s)[i] \in (i + 1)..(n + 3)
    BY <1>1 DEF UrlNext, n
  <1>4. ASSUME NEW f, NEW i \in 1..(n + 3)
        PROVE  body(f, i) = IF i > n THEN <<>> ELSE UrlHead(s)[i] \o f[UrlNext(s)[i]]
    <2>1. i > n \/ i \in 1..n
      BY <1>1
    <2> QED BY <1>1, <2>1 DEF UrlHead, UrlNext, WholeEscape, n
  <1> HIDE DEF body
  <1>5. \A f : [i \in 1..(n + 3) |-> body(f, i)]
              = [i \in 1..(n + 3) |-> IF i > n THEN <<>> ELSE UrlHead(s)[i] \o f[UrlNext(s)[i]]]
    BY <1>4, Zenon
  <1>6. PICK f : Scans(f, n, n + 3, UrlHead(s), UrlNext(s))
    <2>1. n + 3 \in Nat /\ n < n + 3
      BY <1>1
    <2> QED BY <1>1, <1>3, <2>1, ScanExists
  <1>7. f = [i \in 1..(n + 3) |-> body(f, i)]
    BY <1>5, <1>6 DEF Scans
  <1>8. rest = [i \in 1..(n + 3) |-> body(rest, i)]
    BY <1>7 DEF rest
  <1>9. Scans(rest, n, n + 3, UrlHead(s), UrlNext(s))
    BY <1>5, <1>8 DEF Scans
  <1> QED BY <1>1, <1>2, <1>3, <1>9 DEF n

(* What url_decode() makes of x and what is behind it, if it goes there.   *)
LEMMA UrlToken ==
  ASSUME NEW S, NEW x \in Seq(S), NEW y \in Seq(S), x # <<>>,
         UrlNext(x \o y)[1] = Len(x) + 1
  PROVE  UrlDecode(x \o y) = UrlHead(x \o y)[1] \o UrlDecode(y)
  <1> DEFINE d == Len(x)
             n == Len(y)
             z == x \o y
  <1>1. d \in Nat \ {0} /\ n \in Nat /\ z \in Seq(S) /\ Len(z) = d + n
    OBVIOUS
  <1>2. \A i \in 1..n : d + i \in 1..Len(z) /\ z[d + i] = y[i]
    OBVIOUS
  <1>3. PICK f : Scans(f, Len(z), Len(z) + 3, UrlHead(z), UrlNext(z)) /\ UrlDecode(z) = f[1]
    <2> HIDE DEF z
    <2> QED BY <1>1, UrlScan
  <1>4. PICK g : Scans(g, n, n + 3, UrlHead(y), UrlNext(y)) /\ UrlDecode(y) = g[1]
    BY UrlScan
  <1>5. ASSUME NEW i \in 1..n
        PROVE  /\ UrlHead(z)[d + i] = UrlHead(y)[i] /\ UrlNext(z)[d + i] = d + UrlNext(y)[i]
               /\ UrlNext(y)[i] \in (i + 1)..(n + 3)
    <2>1. UrlNext(y)[i] \in (i + 1)..(n + 3)
      BY UrlScan
    <2> HIDE DEF z, d
    <2>2. z[d + i] = y[i] /\ d + i \in 1..Len(z)
      BY <1>2
    <2>3. d + i + 2 <= Len(z) <=> i + 2 <= n
      BY <1>1
    <2>4. i + 2 <= n => z[d + i + 1] = y[i + 1] /\ z[d + i + 2] = y[i + 2]
      <3>1. i + 2 <= n => i + 1 \in 1..n /\ i + 2 \in 1..n /\ d + (i + 1) = d + i + 1 /\ d + (i + 2) = d + i + 2
        BY <1>1
      <3> QED BY <1>2, <3>1
    <2>5. WholeEscape(z, d + i) <=> WholeEscape(y, i)
      BY <2>2, <2>3, <2>4 DEF WholeEscape
    <2>6. WholeEscape(y, i) => i + 2 <= n
      BY DEF WholeEscape
    <2>7. UrlHead(z)[d + i] = UrlHead(y)[i]
      <3> HIDE DEF n
      <3>1. i \in 1..Len(y)
        BY DEF n
      <3> QED BY <2>2, <2>4, <2>5, <2>6, <3>1 DEF UrlHead
    <2>8. UrlNext(z)[d + i] = d + UrlNext(y)[i]
      <3>1. UrlNext(z)[d + i] = IF WholeEscape(y, i) THEN d + i + 3 ELSE d + i + 1
        BY <2>2, <2>5 DEF UrlNext
      <3>2. UrlNext(y)[i] = IF WholeEscape(y, i) THEN i + 3 ELSE i + 1
        BY DEF UrlNext
      <3> QED BY <1>1, <3>1, <3>2
    <2> QED BY <2>1, <2>7, <2>8
  <1>6. UrlNext(z)[1] = d + 1
    OBVIOUS
  <1> HIDE DEF z, d, n
  <1>7. n + 3 \in Nat /\ n < n + 3 /\ Len(z) = d + n /\ Len(z) + 3 = d + (n + 3)
    BY <1>1
  <1>8. Ahead(f, UrlHead(z), UrlNext(z), d, g, n, n + 3, UrlHead(y), UrlNext(y))
    BY <1>1, <1>3, <1>4, <1>5, <1>6, <1>7 DEF Ahead
  <1>9. OneHead(f, UrlHead(z), g)
    BY <1>8, ScanToken
  <1> QED BY <1>3, <1>4, <1>9 DEF z, OneHead

-----------------------------------------------------------------------------
(* What a page shows, place by place. *)
EntityChar(e) == CHOOSE c \in DOMAIN Entity : Entity[c] = e

EntityAt(s, i) ==
  s[i] = "&" /\ i + 2 <= Len(s) /\ s[i + 2] = ";" /\ \E c \in DOMAIN Entity : Entity[c] = s[i + 1]

HtmlHead(s) ==
  [i \in 1..Len(s) |-> IF EntityAt(s, i) THEN <<EntityChar(s[i + 1])>>
                      ELSE IF s[i] \in {"\"", "<"} THEN <<"broken">> ELSE <<s[i]>>]

HtmlNext(s) ==
  [i \in 1..Len(s) |-> IF EntityAt(s, i) THEN i + 3
                      ELSE IF s[i] \in {"\"", "<"} THEN Len(s) + 3 ELSE i + 1]

LEMMA HtmlScan ==
  ASSUME NEW S, NEW s \in Seq(S)
  PROVE  /\ Len(s) \in Nat /\ \A i \in 1..Len(s) : HtmlNext(s)[i] \in (i + 1)..(Len(s) + 3)
         /\ \E f : Scans(f, Len(s), Len(s) + 3, HtmlHead(s), HtmlNext(s)) /\ HtmlShows(s) = f[1]
  <1> DEFINE n == Len(s)
             body(f, i) ==
               IF i > n THEN <<>>
               ELSE IF s[i] = "&" /\ i + 2 <= n /\ s[i + 2] = ";"
                         /\ \E c \in DOMAIN Entity : Entity[c] = s[i + 1]
                    THEN <<CHOOSE c \in DOMAIN Entity : Entity[c] = s[i + 1]>> \o f[i + 3]
               ELSE IF s[i] \in {"\"", "<"} THEN <<"broken">>
               ELSE <<s[i]>> \o f[i + 1]
             rest == CHOOSE f : f = [i \in 1..(n + 3) |-> body(f, i)]
  <1>1. n \in Nat
    OBVIOUS
  <1>2. HtmlShows(s) = rest[1]
    BY DEF HtmlShows
  <1> HIDE DEF rest, n
  <1>3. ASSUME NEW i \in 1..n PROVE HtmlNext(s)[i] \in (i + 1)..(n + 3)
    <2>1. EntityAt(s, i) => i + 2 <= n
      BY DEF EntityAt, n
    <2>2. (HtmlNext(s)[i] = i + 3 /\ EntityAt(s, i)) \/ HtmlNext(s)[i] \in {n + 3, i + 1}
      BY DEF HtmlNext, n
    <2> QED BY <1>1, <2>1, <2>2
  <1>4. ASSUME NEW f, NEW i \in 1..(n + 3), f[n + 3] = <<>>
        PROVE  body(f, i) = IF i > n THEN <<>> ELSE HtmlHead(s)[i] \o f[HtmlNext(s)[i]]
    <2>1. i > n \/ i \in 1..n
      BY <1>1
    <2>2. <<"broken">> \o <<>> = <<"broken">>
      OBVIOUS
    <2> QED BY <1>1, <1>4, <2>1, <2>2 DEF HtmlHead, HtmlNext, EntityAt, EntityChar, n
  <1> HIDE DEF body
  <1>5. ASSUME NEW f, f[n + 3] = <<>>
        PROVE  [i \in 1..(n + 3) |-> body(f, i)]
                = [i \in 1..(n + 3) |-> IF i > n THEN <<>> ELSE HtmlHead(s)[i] \o f[HtmlNext(s)[i]]]
    BY <1>4, <1>5, Zenon
  <1>6. PICK f : Scans(f, n, n + 3, HtmlHead(s), HtmlNext(s))
    <2>1. n + 3 \in Nat /\ n < n + 3
      BY <1>1
    <2> QED BY <1>1, <1>3, <2>1, ScanExists
  <1>7. n + 3 \in 1..(n + 3) /\ n + 3 > n
    BY <1>1
  <1>8. f[n + 3] = <<>>
    BY <1>6, <1>7 DEF Scans
  <1>9. f = [i \in 1..(n + 3) |-> body(f, i)]
    BY <1>5, <1>6, <1>8 DEF Scans
  <1>10. rest = [i \in 1..(n + 3) |-> body(rest, i)]
    BY <1>9 DEF rest
  <1>11. rest[n + 3] = <<>>
    BY <1>7, <1>10 DEF body
  <1>12. Scans(rest, n, n + 3, HtmlHead(s), HtmlNext(s))
    BY <1>5, <1>10, <1>11 DEF Scans
  <1> QED BY <1>1, <1>2, <1>3, <1>12 DEF n

LEMMA HtmlToken ==
  ASSUME NEW S, NEW x \in Seq(S), NEW y \in Seq(S), x # <<>>,
         HtmlNext(x \o y)[1] = Len(x) + 1
  PROVE  HtmlShows(x \o y) = HtmlHead(x \o y)[1] \o HtmlShows(y)
  <1> DEFINE d == Len(x)
             n == Len(y)
             z == x \o y
  <1>1. d \in Nat \ {0} /\ n \in Nat /\ z \in Seq(S) /\ Len(z) = d + n
    OBVIOUS
  <1>2. \A i \in 1..n : d + i \in 1..Len(z) /\ z[d + i] = y[i]
    OBVIOUS
  <1>3. PICK f : Scans(f, Len(z), Len(z) + 3, HtmlHead(z), HtmlNext(z)) /\ HtmlShows(z) = f[1]
    <2> HIDE DEF z
    <2> QED BY <1>1, HtmlScan
  <1>4. PICK g : Scans(g, n, n + 3, HtmlHead(y), HtmlNext(y)) /\ HtmlShows(y) = g[1]
    BY HtmlScan
  <1>5. ASSUME NEW i \in 1..n
        PROVE  /\ HtmlHead(z)[d + i] = HtmlHead(y)[i] /\ HtmlNext(z)[d + i] = d + HtmlNext(y)[i]
               /\ HtmlNext(y)[i] \in (i + 1)..(n + 3)
    <2>1. HtmlNext(y)[i] \in (i + 1)..(n + 3)
      BY HtmlScan
    <2> HIDE DEF z, d
    <2>2. z[d + i] = y[i] /\ d + i \in 1..Len(z)
      BY <1>2
    <2>3. d + i + 2 <= Len(z) <=> i + 2 <= n
      BY <1>1
    <2>4. i + 2 <= n => z[d + i + 1] = y[i + 1] /\ z[d + i + 2] = y[i + 2]
      <3>1. i + 2 <= n => i + 1 \in 1..n /\ i + 2 \in 1..n /\ d + (i + 1) = d + i + 1 /\ d + (i + 2) = d + i + 2
        BY <1>1
      <3> QED BY <1>2, <3>1
    <2>5. EntityAt(z, d + i) <=> EntityAt(y, i)
      BY <2>2, <2>3, <2>4 DEF EntityAt
    <2>6. EntityAt(y, i) => z[d + i + 1] = y[i + 1]
      BY <2>4 DEF EntityAt
    <2>7. HtmlHead(z)[d + i] = HtmlHead(y)[i]
      <3> HIDE DEF n
      <3>1. i \in 1..Len(y)
        BY DEF n
      <3> QED BY <2>2, <2>5, <2>6, <3>1 DEF HtmlHead
    <2>8. HtmlNext(z)[d + i] = d + HtmlNext(y)[i]
      <3>1. HtmlNext(z)[d + i] = IF EntityAt(y, i) THEN d + i + 3
                               ELSE IF y[i] \in {"\"", "<"} THEN Len(z) + 3 ELSE d + i + 1
        BY <2>2, <2>5 DEF HtmlNext
      <3>2. HtmlNext(y)[i] = IF EntityAt(y, i) THEN i + 3
                             ELSE IF y[i] \in {"\"", "<"} THEN n + 3 ELSE i + 1
        BY DEF HtmlNext
      <3>3. CASE EntityAt(y, i)
        BY <1>1, <3>1, <3>2, <3>3
      <3>4. CASE ~EntityAt(y, i) /\ y[i] \in {"\"", "<"}
        <4>1. HtmlNext(z)[d + i] = Len(z) + 3 /\ HtmlNext(y)[i] = n + 3
          BY <3>1, <3>2, <3>4
        <4> QED BY <1>1, <4>1
      <3>5. CASE ~EntityAt(y, i) /\ y[i] \notin {"\"", "<"}
        <4>1. HtmlNext(z)[d + i] = d + i + 1 /\ HtmlNext(y)[i] = i + 1
          BY <3>1, <3>2, <3>5
        <4> QED BY <1>1, <4>1
      <3> QED BY <3>3, <3>4, <3>5
    <2> QED BY <2>1, <2>7, <2>8
  <1>6. HtmlNext(z)[1] = d + 1
    OBVIOUS
  <1> HIDE DEF z, d, n
  <1>7. n + 3 \in Nat /\ n < n + 3 /\ Len(z) = d + n /\ Len(z) + 3 = d + (n + 3)
    BY <1>1
  <1>8. Ahead(f, HtmlHead(z), HtmlNext(z), d, g, n, n + 3, HtmlHead(y), HtmlNext(y))
    BY <1>1, <1>3, <1>4, <1>5, <1>6, <1>7 DEF Ahead
  <1>9. OneHead(f, HtmlHead(z), g)
    BY <1>8, ScanToken
  <1> QED BY <1>3, <1>4, <1>9 DEF z, OneHead

-----------------------------------------------------------------------------
(* The value of a string literal, place by place. *)
EscapedChar(e) ==
  IF \E c \in DOMAIN Escape : Escape[c] = e THEN CHOOSE c \in DOMAIN Escape : Escape[c] = e ELSE e

BackslashAt(s, i) == s[i] = "\\" /\ i + 1 <= Len(s)

LiteralHead(s) ==
  [i \in 1..Len(s) |->
     IF BackslashAt(s, i)
     THEN <<EscapedChar(s[i + 1])>>
     ELSE IF s[i] \in {"\"", "\\", "\n", "\r"} THEN <<"broken">> ELSE <<s[i]>>]

LiteralNext(s) ==
  [i \in 1..Len(s) |-> IF BackslashAt(s, i) THEN i + 2
                      ELSE IF s[i] \in {"\"", "\\", "\n", "\r"} THEN Len(s) + 2 ELSE i + 1]

LEMMA LiteralScan ==
  ASSUME NEW S, NEW s \in Seq(S)
  PROVE  /\ Len(s) \in Nat /\ \A i \in 1..Len(s) : LiteralNext(s)[i] \in (i + 1)..(Len(s) + 2)
         /\ \E f : Scans(f, Len(s), Len(s) + 2, LiteralHead(s), LiteralNext(s)) /\ LiteralValue(s) = f[1]
  <1> DEFINE n == Len(s)
             body(f, i) ==
               IF i > n THEN <<>>
               ELSE IF s[i] = "\\" /\ i + 1 <= n
                    THEN <<IF \E c \in DOMAIN Escape : Escape[c] = s[i + 1]
                           THEN CHOOSE c \in DOMAIN Escape : Escape[c] = s[i + 1]
                           ELSE s[i + 1]>> \o f[i + 2]
               ELSE IF s[i] \in {"\"", "\\", "\n", "\r"} THEN <<"broken">>
               ELSE <<s[i]>> \o f[i + 1]
             rest == CHOOSE f : f = [i \in 1..(n + 2) |-> body(f, i)]
  <1>1. n \in Nat
    OBVIOUS
  <1>2. LiteralValue(s) = rest[1]
    BY DEF LiteralValue
  <1> HIDE DEF rest, n
  <1>3. ASSUME NEW i \in 1..n PROVE LiteralNext(s)[i] \in (i + 1)..(n + 2)
    <2>1. BackslashAt(s, i) => i + 1 <= n
      BY DEF BackslashAt, n
    <2>2. (LiteralNext(s)[i] = i + 2 /\ BackslashAt(s, i)) \/ LiteralNext(s)[i] \in {n + 2, i + 1}
      BY DEF LiteralNext, n
    <2> QED BY <1>1, <2>1, <2>2
  <1>4. ASSUME NEW f, NEW i \in 1..(n + 2), f[n + 2] = <<>>
        PROVE  body(f, i) = IF i > n THEN <<>> ELSE LiteralHead(s)[i] \o f[LiteralNext(s)[i]]
    <2>1. i > n \/ i \in 1..n
      BY <1>1
    <2>2. <<"broken">> \o <<>> = <<"broken">>
      OBVIOUS
    <2> QED BY <1>1, <1>4, <2>1, <2>2 DEF LiteralHead, LiteralNext, BackslashAt, EscapedChar, n
  <1> HIDE DEF body
  <1>5. ASSUME NEW f, f[n + 2] = <<>>
        PROVE  [i \in 1..(n + 2) |-> body(f, i)]
                = [i \in 1..(n + 2) |-> IF i > n THEN <<>> ELSE LiteralHead(s)[i] \o f[LiteralNext(s)[i]]]
    BY <1>4, <1>5, Zenon
  <1>6. PICK f : Scans(f, n, n + 2, LiteralHead(s), LiteralNext(s))
    <2>1. n + 2 \in Nat /\ n < n + 2
      BY <1>1
    <2> QED BY <1>1, <1>3, <2>1, ScanExists
  <1>7. n + 2 \in 1..(n + 2) /\ n + 2 > n
    BY <1>1
  <1>8. f[n + 2] = <<>>
    BY <1>6, <1>7 DEF Scans
  <1>9. f = [i \in 1..(n + 2) |-> body(f, i)]
    BY <1>5, <1>6, <1>8 DEF Scans
  <1>10. rest = [i \in 1..(n + 2) |-> body(rest, i)]
    BY <1>9 DEF rest
  <1>11. rest[n + 2] = <<>>
    BY <1>7, <1>10 DEF body
  <1>12. Scans(rest, n, n + 2, LiteralHead(s), LiteralNext(s))
    BY <1>5, <1>10, <1>11 DEF Scans
  <1> QED BY <1>1, <1>2, <1>3, <1>12 DEF n

LEMMA LiteralToken ==
  ASSUME NEW S, NEW x \in Seq(S), NEW y \in Seq(S), x # <<>>,
         LiteralNext(x \o y)[1] = Len(x) + 1
  PROVE  LiteralValue(x \o y) = LiteralHead(x \o y)[1] \o LiteralValue(y)
  <1> DEFINE d == Len(x)
             n == Len(y)
             z == x \o y
  <1>1. d \in Nat \ {0} /\ n \in Nat /\ z \in Seq(S) /\ Len(z) = d + n
    OBVIOUS
  <1>2. \A i \in 1..n : d + i \in 1..Len(z) /\ z[d + i] = y[i]
    OBVIOUS
  <1>3. PICK f : Scans(f, Len(z), Len(z) + 2, LiteralHead(z), LiteralNext(z)) /\ LiteralValue(z) = f[1]
    <2> HIDE DEF z
    <2> QED BY <1>1, LiteralScan
  <1>4. PICK g : Scans(g, n, n + 2, LiteralHead(y), LiteralNext(y)) /\ LiteralValue(y) = g[1]
    BY LiteralScan
  <1>5. ASSUME NEW i \in 1..n
        PROVE  /\ LiteralHead(z)[d + i] = LiteralHead(y)[i] /\ LiteralNext(z)[d + i] = d + LiteralNext(y)[i]
               /\ LiteralNext(y)[i] \in (i + 1)..(n + 2)
    <2>1. LiteralNext(y)[i] \in (i + 1)..(n + 2)
      BY LiteralScan
    <2> HIDE DEF z, d
    <2>2. z[d + i] = y[i] /\ d + i \in 1..Len(z)
      BY <1>2
    <2>3. d + i + 1 <= Len(z) <=> i + 1 <= n
      BY <1>1
    <2>4. i + 1 <= n => z[d + i + 1] = y[i + 1]
      <3>1. i + 1 <= n => i + 1 \in 1..n /\ d + (i + 1) = d + i + 1
        BY <1>1
      <3> QED BY <1>2, <3>1
    <2>5. BackslashAt(z, d + i) <=> BackslashAt(y, i)
      BY <2>2, <2>3 DEF BackslashAt
    <2>6. BackslashAt(y, i) => z[d + i + 1] = y[i + 1]
      BY <2>4 DEF BackslashAt
    <2>7. LiteralHead(z)[d + i] = LiteralHead(y)[i]
      <3> HIDE DEF n
      <3>1. i \in 1..Len(y)
        BY DEF n
      <3> QED BY <2>2, <2>5, <2>6, <3>1 DEF LiteralHead
    <2>8. LiteralNext(z)[d + i] = d + LiteralNext(y)[i]
      <3>1. LiteralNext(z)[d + i] = IF BackslashAt(y, i) THEN d + i + 2
                 ELSE IF y[i] \in {"\"", "\\", "\n", "\r"} THEN Len(z) + 2 ELSE d + i + 1
        BY <2>2, <2>5 DEF LiteralNext
      <3>2. LiteralNext(y)[i] = IF BackslashAt(y, i) THEN i + 2
                 ELSE IF y[i] \in {"\"", "\\", "\n", "\r"} THEN n + 2 ELSE i + 1
        BY DEF LiteralNext
      <3>3. CASE BackslashAt(y, i)
        BY <1>1, <3>1, <3>2, <3>3
      <3>4. CASE ~BackslashAt(y, i) /\ y[i] \in {"\"", "\\", "\n", "\r"}
        <4>1. LiteralNext(z)[d + i] = Len(z) + 2 /\ LiteralNext(y)[i] = n + 2
          BY <3>1, <3>2, <3>4
        <4> QED BY <1>1, <4>1
      <3>5. CASE ~BackslashAt(y, i) /\ y[i] \notin {"\"", "\\", "\n", "\r"}
        <4>1. LiteralNext(z)[d + i] = d + i + 1 /\ LiteralNext(y)[i] = i + 1
          BY <3>1, <3>2, <3>5
        <4> QED BY <1>1, <4>1
      <3> QED BY <3>3, <3>4, <3>5
    <2> QED BY <2>1, <2>7, <2>8
  <1>6. LiteralNext(z)[1] = d + 1
    OBVIOUS
  <1> HIDE DEF z, d, n
  <1>7. n + 2 \in Nat /\ n < n + 2 /\ Len(z) = d + n /\ Len(z) + 2 = d + (n + 2)
    BY <1>1
  <1>8. Ahead(f, LiteralHead(z), LiteralNext(z), d, g, n, n + 2, LiteralHead(y), LiteralNext(y))
    BY <1>1, <1>3, <1>4, <1>5, <1>6, <1>7 DEF Ahead
  <1>9. OneHead(f, LiteralHead(z), g)
    BY <1>8, ScanToken
  <1> QED BY <1>3, <1>4, <1>9 DEF z, OneHead

-----------------------------------------------------------------------------
(* What a browser encodes is what url_decode() finds. *)
FormTok(S) ==
  [c \in S |-> IF c = " " THEN <<"+">> ELSE IF c \in DOMAIN Hex THEN <<"%">> \o Hex[c] ELSE <<c>>]

FormChars(S) == (S \ DOMAIN Hex) \cup {"+", "%"} \cup HexDigit

LEMMA HexParts ==
  ASSUME NEW c \in DOMAIN Hex
  PROVE  \E high, low \in HexDigit : Hex[c] = <<high, low>> /\ Byte(high, low) = c
  <1> DEFINE H == HexDigit \ DOMAIN Upper
  <1>0. \A p \in H \X H : \E high, low \in H : p = <<high, low>>
    OBVIOUS
  <1>1. PICK high \in H, low \in H : Hex[c] = <<high, low>>
    BY <1>0, HexTable
  <1>2. \A d \in DOMAIN Hex : Hex[d] = <<high, low>> => d = c
    BY <1>1, HexTable
  <1>3. Byte(high, low) = c
    <2>1. Digit(high) = high /\ Digit(low) = low
      BY DEF Digit
    <2> QED BY <1>1, <1>2, <2>1 DEF Byte
  <1> QED BY <1>1, <1>3

LEMMA OneTwoThree ==
  ASSUME NEW a, NEW b, NEW c
  PROVE  <<a>> \o <<b, c>> = <<a, b, c>>
  <1> DEFINE T == {a, b, c}
  <1>1. <<a>> \in Seq(T) /\ <<b, c>> \in Seq(T) /\ <<a, b, c>> \in Seq(T)
    OBVIOUS
  <1>2. Len(<<a>> \o <<b, c>>) = 3 /\ <<a>> \o <<b, c>> \in Seq(T)
    BY <1>1
  <1>3. \A i \in 1..3 : (<<a>> \o <<b, c>>)[i] = <<a, b, c>>[i]
    BY <1>1
  <1> HIDE DEF T
  <1> QED BY <1>1, <1>2, <1>3, SeqEqual

LEMMA FormTokType ==
  ASSUME NEW S
  PROVE  FormTok(S) \in [S -> Seq(FormChars(S))]
  <1> SUFFICES ASSUME NEW c \in S PROVE FormTok(S)[c] \in Seq(FormChars(S))
    BY DEF FormTok
  <1>1. CASE c = " "
    <2>1. FormTok(S)[c] = <<"+">> /\ "+" \in FormChars(S)
      BY <1>1 DEF FormTok, FormChars
    <2> QED BY <2>1
  <1>2. CASE c # " " /\ c \in DOMAIN Hex
    <2>1. PICK high \in HexDigit, low \in HexDigit : Hex[c] = <<high, low>>
      BY <1>2, HexParts
    <2>2. FormTok(S)[c] = <<"%", high, low>>
      <3>1. <<"%">> \o <<high, low>> = <<"%", high, low>>
        BY OneTwoThree
      <3> QED BY <1>2, <2>1, <3>1 DEF FormTok
    <2>3. "%" \in FormChars(S) /\ high \in FormChars(S) /\ low \in FormChars(S)
      BY DEF FormChars
    <2> QED BY <2>2, <2>3
  <1>3. CASE c # " " /\ c \notin DOMAIN Hex
    <2>1. FormTok(S)[c] = <<c>> /\ c \in FormChars(S)
      BY <1>3 DEF FormTok, FormChars
    <2> QED BY <2>1
  <1> QED BY <1>1, <1>2, <1>3

LEMMA FormEncodeJoined ==
  ASSUME NEW S, NEW s \in Seq(S)
  PROVE  FormEncode(s) = Joined(FormTok(S), s)
  <1>1. \A i \in DOMAIN s : s[i] \in S
    OBVIOUS
  <1>2. \A i \in DOMAIN s :
          (IF s[i] = " " THEN <<"+">> ELSE IF s[i] \in DOMAIN Hex THEN <<"%">> \o Hex[s[i]] ELSE <<s[i]>>)
          = FormTok(S)[s[i]]
    BY <1>1 DEF FormTok
  <1>3. [i \in DOMAIN s |->
          (IF s[i] = " " THEN <<"+">> ELSE IF s[i] \in DOMAIN Hex THEN <<"%">> \o Hex[s[i]] ELSE <<s[i]>>)]
        = [i \in DOMAIN s |-> FormTok(S)[s[i]]]
    BY <1>2, Zenon
  <1> QED BY <1>3 DEF FormEncode, MapText, Joined

LEMMA FormReads ==
  ASSUME NEW S, NEW c \in S, NEW y \in Seq(FormChars(S))
  PROVE  UrlDecode(FormTok(S)[c] \o y) = <<c>> \o UrlDecode(y)
  <1> DEFINE T == FormChars(S)
             x == FormTok(S)[c]
             z == x \o y
  <1>0. x \in Seq(T) /\ y \in Seq(T)
    BY FormTokType
  <1>1. CASE c = " "
    <2>1. x = <<"+">>
      BY <1>1 DEF FormTok
    <2>2. Len(x) = 1 /\ x # <<>> /\ Len(z) \in Nat \ {0} /\ z[1] = "+"
      BY <1>0, <2>1
    <2> HIDE DEF x
    <2>3. UrlHead(z)[1] = <<" ">> /\ UrlNext(z)[1] = Len(x) + 1
      <3> HIDE DEF z
      <3>1. 1 \in 1..Len(z) /\ ~WholeEscape(z, 1)
        BY <2>2 DEF WholeEscape
      <3>2. UrlNext(z)[1] = 1 + 1
        BY <3>1 DEF UrlNext
      <3> QED BY <2>2, <3>1, <3>2 DEF UrlHead
    <2> QED BY <1>0, <1>1, <2>2, <2>3, UrlToken DEF x
  <1>2. CASE c # " " /\ c \in DOMAIN Hex
    <2>1. PICK high \in HexDigit, low \in HexDigit : Hex[c] = <<high, low>> /\ Byte(high, low) = c
      BY <1>2, HexParts
    <2>2. x = <<"%", high, low>>
      <3>1. <<"%">> \o <<high, low>> = <<"%", high, low>>
        BY OneTwoThree
      <3> QED BY <1>2, <2>1, <3>1 DEF FormTok
    <2>3. /\ Len(x) = 3 /\ x # <<>> /\ Len(z) \in Nat /\ 3 <= Len(z)
          /\ z[1] = "%" /\ z[1 + 1] = high /\ z[1 + 2] = low
      BY <1>0, <2>2
    <2> HIDE DEF x
    <2>4. UrlHead(z)[1] = <<c>> /\ UrlNext(z)[1] = Len(x) + 1
      <3> HIDE DEF z
      <3>1. 1 \in 1..Len(z) /\ WholeEscape(z, 1)
        BY <2>3 DEF WholeEscape
      <3>2. UrlNext(z)[1] = 1 + 3
        BY <3>1 DEF UrlNext
      <3>3. UrlHead(z)[1] = <<Byte(z[1 + 1], z[1 + 2])>>
        BY <2>3, <3>1 DEF UrlHead
      <3> QED BY <2>1, <2>3, <3>2, <3>3
    <2> QED BY <1>0, <2>3, <2>4, UrlToken DEF x
  <1>3. CASE c # " " /\ c \notin DOMAIN Hex
    <2>1. x = <<c>> /\ c # "+" /\ c # "%"
      BY <1>3, HexTable DEF FormTok
    <2>2. Len(x) = 1 /\ x # <<>> /\ Len(z) \in Nat \ {0} /\ z[1] = c
      BY <1>0, <2>1
    <2> HIDE DEF x
    <2>3. UrlHead(z)[1] = <<c>> /\ UrlNext(z)[1] = Len(x) + 1
      <3> HIDE DEF z
      <3>1. 1 \in 1..Len(z) /\ ~WholeEscape(z, 1)
        BY <2>1, <2>2 DEF WholeEscape
      <3>2. UrlNext(z)[1] = 1 + 1
        BY <3>1 DEF UrlNext
      <3> QED BY <2>1, <2>2, <3>1, <3>2 DEF UrlHead
    <2> QED BY <1>0, <2>2, <2>3, UrlToken DEF x
  <1> QED BY <1>1, <1>2, <1>3

LEMMA UrlDecodeNone == UrlDecode(<<>>) = <<>>
  <1>1. PICK f : Scans(f, 0, 3, UrlHead(<<>>), UrlNext(<<>>)) /\ UrlDecode(<<>>) = f[1]
    <2> DEFINE s == <<>>
    <2>1. s \in Seq({}) /\ Len(s) = 0
      OBVIOUS
    <2> HIDE DEF s
    <2>2. \E f : Scans(f, Len(s), Len(s) + 3, UrlHead(s), UrlNext(s)) /\ UrlDecode(s) = f[1]
      BY <2>1, UrlScan
    <2>3. Len(s) + 3 = 3
      BY <2>1
    <2>4. \E f : Scans(f, 0, 3, UrlHead(s), UrlNext(s)) /\ UrlDecode(s) = f[1]
      BY <2>1, <2>2, <2>3
    <2> QED BY <2>4 DEF s
  <1> QED BY <1>1 DEF Scans

LEMMA FormSurvives ==
  ASSUME NEW S, NEW s \in Seq(S)
  PROVE  UrlDecode(FormEncode(s)) = s
  <1> DEFINE T == FormChars(S)
             D == [y \in Seq(T) |-> UrlDecode(y)]
             one == [c \in S |-> <<c>>]
  <1>1. FormTok(S) \in [S -> Seq(T)]
    BY FormTokType
  <1>2. D[<<>>] = <<>>
    <2>1. <<>> \in Seq(T)
      OBVIOUS
    <2> QED BY <2>1, UrlDecodeNone
  <1>3. ASSUME NEW c \in S, NEW y \in Seq(T) PROVE D[FormTok(S)[c] \o y] = one[c] \o D[y]
    <2>1. FormTok(S)[c] \in Seq(T)
      BY <1>1
    <2>2. FormTok(S)[c] \o y \in Seq(T)
      BY <2>1
    <2>3. UrlDecode(FormTok(S)[c] \o y) = <<c>> \o UrlDecode(y)
      BY FormReads
    <2> QED BY <2>2, <2>3
  <1> HIDE DEF D, T
  <1>4. Takes(D, S, T, FormTok(S), one)
    BY <1>2, <1>3 DEF Takes
  <1>5. ReadsBack(D, S, FormTok(S))
    BY <1>1, <1>4, JoinedBack
  <1>6. Joined(FormTok(S), s) \in Seq(T)
    BY <1>1, JoinedType
  <1> QED BY <1>5, <1>6, FormEncodeJoined DEF ReadsBack, D

-----------------------------------------------------------------------------
(* What html_escape() writes is what a page shows. *)
HtmlTok(S) ==
  [c \in S |-> IF c \in DOMAIN Entity THEN <<"&", Entity[c], ";">> ELSE <<c>>]

HtmlChars(S) == (S \ DOMAIN Entity) \cup {"&", ";", "amp", "lt", "gt", "quot", "#39"}

LEMMA HtmlTokType ==
  ASSUME NEW S
  PROVE  HtmlTok(S) \in [S -> Seq(HtmlChars(S))]
  <1> SUFFICES ASSUME NEW c \in S PROVE HtmlTok(S)[c] \in Seq(HtmlChars(S))
    BY DEF HtmlTok
  <1>1. CASE c \in DOMAIN Entity
    <2>0. PICK e : e = Entity[c]
      OBVIOUS
    <2>1. HtmlTok(S)[c] = <<"&", e, ";">>
      BY <1>1, <2>0 DEF HtmlTok
    <2>2. "&" \in HtmlChars(S) /\ e \in HtmlChars(S) /\ ";" \in HtmlChars(S)
      BY <1>1, <2>0, EntityTable DEF HtmlChars
    <2>3. PICK a, d : a = "&" /\ d = ";"
      OBVIOUS
    <2>4. a \in HtmlChars(S) /\ d \in HtmlChars(S) /\ HtmlTok(S)[c] = <<a, e, d>>
      BY <2>1, <2>2, <2>3
    <2>5. e \in HtmlChars(S)
      BY <2>2
    <2> QED BY <2>4, <2>5
  <1>2. CASE c \notin DOMAIN Entity
    <2>1. HtmlTok(S)[c] = <<c>> /\ c \in HtmlChars(S)
      BY <1>2 DEF HtmlTok, HtmlChars
    <2> QED BY <2>1
  <1> QED BY <1>1, <1>2

LEMMA HtmlEscapeJoined ==
  ASSUME NEW S, NEW s \in Seq(S)
  PROVE  HtmlEscape(s) = Joined(HtmlTok(S), s)
  <1>1. \A i \in DOMAIN s : s[i] \in S
    OBVIOUS
  <1>2. \A i \in DOMAIN s :
          (IF s[i] \in DOMAIN Entity THEN <<"&", Entity[s[i]], ";">> ELSE <<s[i]>>) = HtmlTok(S)[s[i]]
    BY <1>1 DEF HtmlTok
  <1>3. [i \in DOMAIN s |-> (IF s[i] \in DOMAIN Entity THEN <<"&", Entity[s[i]], ";">> ELSE <<s[i]>>)]
        = [i \in DOMAIN s |-> HtmlTok(S)[s[i]]]
    BY <1>2, Zenon
  <1> QED BY <1>3 DEF HtmlEscape, MapText, Joined

LEMMA HtmlReads ==
  ASSUME NEW S, NEW c \in S, NEW y \in Seq(HtmlChars(S))
  PROVE  HtmlShows(HtmlTok(S)[c] \o y) = <<c>> \o HtmlShows(y)
  <1> DEFINE T == HtmlChars(S)
             x == HtmlTok(S)[c]
             z == x \o y
  <1>0. x \in Seq(T) /\ y \in Seq(T)
    BY HtmlTokType
  <1>1. CASE c \in DOMAIN Entity
    <2>0. PICK e : e = Entity[c]
      OBVIOUS
    <2>1. x = <<"&", e, ";">>
      BY <1>1, <2>0 DEF HtmlTok
    <2> HIDE DEF x, T
    <2>2. /\ Len(x) = 3 /\ x # <<>> /\ Len(z) \in Nat /\ 3 <= Len(z) /\ 1 \in 1..Len(z)
          /\ z[1] = "&" /\ z[1 + 1] = e /\ z[1 + 2] = ";"
      <3>1. "&" \in T /\ e \in T /\ ";" \in T
        BY <1>1, <2>0, EntityTable DEF HtmlChars, T
      <3>2. PICK a, d : a = "&" /\ d = ";"
        OBVIOUS
      <3>3. a \in T /\ e \in T /\ d \in T /\ x = <<a, e, d>>
        BY <2>1, <3>1, <3>2
      <3>4. /\ Len(x) = 3 /\ x # <<>> /\ Len(z) \in Nat /\ 3 <= Len(z) /\ 1 \in 1..Len(z)
            /\ z[1] = a /\ z[1 + 1] = e /\ z[1 + 2] = d
        BY <1>0, <3>3
      <3> HIDE DEF z
      <3> QED BY <3>2, <3>4
    <2>21. Len(x) = 3 /\ Len(z) \in Nat /\ 3 <= Len(z)
      BY <2>2, Zenon
    <2>3. EntityChar(e) = c
      BY <1>1, <2>0, EntityTable DEF EntityChar
    <2>4. HtmlHead(z)[1] = <<c>> /\ HtmlNext(z)[1] = Len(x) + 1
      <3> HIDE DEF z
      <3>0. \E b \in DOMAIN Entity : Entity[b] = z[1 + 1]
        BY <1>1, <2>0, <2>2
      <3>1. 1 \in 1..Len(z) /\ EntityAt(z, 1)
        <4>1. 1 + 2 <= Len(z)
          BY <2>21
        <4> QED BY <2>2, <3>0, <4>1, Zenon DEF EntityAt
      <3>2. HtmlNext(z)[1] = 1 + 3
        BY <3>1 DEF HtmlNext
      <3>3. HtmlHead(z)[1] = <<EntityChar(z[1 + 1])>>
        BY <3>1 DEF HtmlHead
      <3>4. HtmlHead(z)[1] = <<c>>
        BY <2>2, <2>3, <3>3, Zenon
      <3>5. HtmlNext(z)[1] = Len(x) + 1
        BY <2>21, <3>2
      <3> QED BY <3>4, <3>5
    <2> QED BY <1>0, <2>2, <2>4, HtmlToken DEF x
  <1>2. CASE c \notin DOMAIN Entity
    <2>1. x = <<c>> /\ c \notin {"&", "\"", "<"}
      BY <1>2, EntityTable DEF HtmlTok
    <2> HIDE DEF x, T
    <2>2. Len(x) = 1 /\ x # <<>> /\ Len(z) \in Nat /\ 1 \in 1..Len(z) /\ z[1] = c
      <3>1. c \in T /\ x = <<c>>
        BY <1>2, <2>1 DEF T, HtmlChars
      <3> QED BY <1>0, <3>1
    <2>3. HtmlHead(z)[1] = <<c>> /\ HtmlNext(z)[1] = Len(x) + 1
      <3> HIDE DEF z
      <3>0. 1 \in 1..Len(z)
        BY <2>2
      <3>1. ~EntityAt(z, 1)
        BY <2>1, <2>2, Zenon DEF EntityAt
      <3>2. HtmlNext(z)[1] = 1 + 1
        BY <2>1, <2>2, <3>0, <3>1 DEF HtmlNext
      <3> QED BY <2>1, <2>2, <3>0, <3>1, <3>2 DEF HtmlHead
    <2> QED BY <1>0, <2>2, <2>3, HtmlToken DEF x
  <1> QED BY <1>1, <1>2

LEMMA HtmlShowsNone == HtmlShows(<<>>) = <<>>
  <1>1. PICK f : Scans(f, 0, 3, HtmlHead(<<>>), HtmlNext(<<>>)) /\ HtmlShows(<<>>) = f[1]
    <2> DEFINE s == <<>>
    <2>1. s \in Seq({}) /\ Len(s) = 0
      OBVIOUS
    <2> HIDE DEF s
    <2>2. \E f : Scans(f, Len(s), Len(s) + 3, HtmlHead(s), HtmlNext(s)) /\ HtmlShows(s) = f[1]
      BY <2>1, HtmlScan
    <2>3. Len(s) + 3 = 3
      BY <2>1
    <2>4. \E f : Scans(f, 0, 3, HtmlHead(s), HtmlNext(s)) /\ HtmlShows(s) = f[1]
      BY <2>1, <2>2, <2>3
    <2> QED BY <2>4 DEF s
  <1> QED BY <1>1 DEF Scans

LEMMA HtmlSurvives ==
  ASSUME NEW S, NEW s \in Seq(S)
  PROVE  HtmlShows(HtmlEscape(s)) = s
  <1> DEFINE T == HtmlChars(S)
             D == [y \in Seq(T) |-> HtmlShows(y)]
             one == [c \in S |-> <<c>>]
  <1>1. HtmlTok(S) \in [S -> Seq(T)]
    BY HtmlTokType
  <1>2. D[<<>>] = <<>>
    <2>1. <<>> \in Seq(T)
      OBVIOUS
    <2> QED BY <2>1, HtmlShowsNone
  <1>3. ASSUME NEW c \in S, NEW y \in Seq(T) PROVE D[HtmlTok(S)[c] \o y] = one[c] \o D[y]
    <2>1. HtmlTok(S)[c] \in Seq(T)
      BY <1>1
    <2>2. HtmlTok(S)[c] \o y \in Seq(T)
      BY <2>1
    <2>3. HtmlShows(HtmlTok(S)[c] \o y) = <<c>> \o HtmlShows(y)
      BY HtmlReads
    <2> QED BY <2>2, <2>3
  <1> HIDE DEF D, T
  <1>4. Takes(D, S, T, HtmlTok(S), one)
    BY <1>2, <1>3 DEF Takes
  <1>5. ReadsBack(D, S, HtmlTok(S))
    BY <1>1, <1>4, JoinedBack
  <1>6. Joined(HtmlTok(S), s) \in Seq(T)
    BY <1>1, JoinedType
  <1> QED BY <1>5, <1>6, HtmlEscapeJoined DEF ReadsBack, D

-----------------------------------------------------------------------------
(* What escape_json() writes is the value of the literal. *)
JsonTok(S) ==
  [c \in S |-> IF c \in DOMAIN Escape THEN <<"\\", Escape[c]>> ELSE <<c>>]

JsonChars(S) == S \cup {"\"", "\\", "n", "r", "t"}

LEMMA JsonTokType ==
  ASSUME NEW S
  PROVE  JsonTok(S) \in [S -> Seq(JsonChars(S))]
  <1> SUFFICES ASSUME NEW c \in S PROVE JsonTok(S)[c] \in Seq(JsonChars(S))
    BY DEF JsonTok
  <1>1. CASE c \in DOMAIN Escape
    <2>0. PICK e : e = Escape[c]
      OBVIOUS
    <2>1. JsonTok(S)[c] = <<"\\", e>>
      BY <1>1, <2>0 DEF JsonTok
    <2>2. "\\" \in JsonChars(S) /\ e \in JsonChars(S)
      BY <1>1, <2>0, EscapeTable DEF JsonChars
    <2> QED BY <2>1, <2>2
  <1>2. CASE c \notin DOMAIN Escape
    <2>1. JsonTok(S)[c] = <<c>> /\ c \in JsonChars(S)
      BY <1>2 DEF JsonTok, JsonChars
    <2> QED BY <2>1
  <1> QED BY <1>1, <1>2

LEMMA EscapeJsonJoined ==
  ASSUME NEW S, NEW s \in Seq(S)
  PROVE  EscapeJson(s) = Joined(JsonTok(S), s)
  <1>1. \A i \in DOMAIN s : s[i] \in S
    OBVIOUS
  <1>2. \A i \in DOMAIN s :
          (IF s[i] \in DOMAIN Escape THEN <<"\\", Escape[s[i]]>> ELSE <<s[i]>>) = JsonTok(S)[s[i]]
    BY <1>1 DEF JsonTok
  <1>3. [i \in DOMAIN s |-> (IF s[i] \in DOMAIN Escape THEN <<"\\", Escape[s[i]]>> ELSE <<s[i]>>)]
        = [i \in DOMAIN s |-> JsonTok(S)[s[i]]]
    BY <1>2, Zenon
  <1> QED BY <1>3 DEF EscapeJson, MapText, Joined

LEMMA LiteralReads ==
  ASSUME NEW S, NEW c \in S, NEW y \in Seq(JsonChars(S))
  PROVE  LiteralValue(JsonTok(S)[c] \o y) = <<c>> \o LiteralValue(y)
  <1> DEFINE T == JsonChars(S)
             x == JsonTok(S)[c]
             z == x \o y
  <1>0. x \in Seq(T) /\ y \in Seq(T)
    BY JsonTokType
  <1>1. CASE c \in DOMAIN Escape
    <2>0. PICK e : e = Escape[c]
      OBVIOUS
    <2>1. x = <<"\\", e>>
      BY <1>1, <2>0 DEF JsonTok
    <2> HIDE DEF x, T
    <2>2. /\ Len(x) = 2 /\ x # <<>> /\ Len(z) \in Nat /\ 2 <= Len(z)
          /\ z[1] = "\\" /\ z[1 + 1] = e
      BY <1>0, <2>1
    <2>3. EscapedChar(e) = c
      <3>1. \A b \in DOMAIN Escape : Escape[b] = e => b = c
        BY <1>1, <2>0, EscapeTable
      <3> QED BY <1>1, <2>0, <3>1 DEF EscapedChar
    <2>4. LiteralHead(z)[1] = <<c>> /\ LiteralNext(z)[1] = Len(x) + 1
      <3> HIDE DEF z
      <3>1. 1 \in 1..Len(z) /\ BackslashAt(z, 1)
        BY <2>2 DEF BackslashAt
      <3>2. LiteralNext(z)[1] = 1 + 2
        BY <3>1 DEF LiteralNext
      <3>3. LiteralHead(z)[1] = <<EscapedChar(z[1 + 1])>>
        BY <3>1 DEF LiteralHead
      <3> QED BY <2>2, <2>3, <3>2, <3>3
    <2> QED BY <1>0, <2>2, <2>4, LiteralToken DEF x
  <1>2. CASE c \notin DOMAIN Escape
    <2>1. x = <<c>> /\ c \notin {"\"", "\\", "\n", "\r"}
      BY <1>2, EscapeTable DEF JsonTok
    <2> HIDE DEF x, T
    <2>2. Len(x) = 1 /\ x # <<>> /\ Len(z) \in Nat /\ 1 \in 1..Len(z) /\ z[1] = c
      <3>1. c \in T /\ x = <<c>>
        BY <2>1 DEF T, JsonChars
      <3> QED BY <1>0, <3>1
    <2>3. LiteralHead(z)[1] = <<c>> /\ LiteralNext(z)[1] = Len(x) + 1
      <3> HIDE DEF z
      <3>0. 1 \in 1..Len(z)
        BY <2>2
      <3>1. ~BackslashAt(z, 1)
        BY <2>1, <2>2, Zenon DEF BackslashAt
      <3>2. LiteralNext(z)[1] = 1 + 1
        BY <2>1, <2>2, <3>0, <3>1 DEF LiteralNext
      <3> QED BY <2>1, <2>2, <3>0, <3>1, <3>2 DEF LiteralHead
    <2> QED BY <1>0, <2>2, <2>3, LiteralToken DEF x
  <1> QED BY <1>1, <1>2

LEMMA LiteralValueNone == LiteralValue(<<>>) = <<>>
  <1>1. PICK f : Scans(f, 0, 2, LiteralHead(<<>>), LiteralNext(<<>>)) /\ LiteralValue(<<>>) = f[1]
    <2> DEFINE s == <<>>
    <2>1. s \in Seq({}) /\ Len(s) = 0
      OBVIOUS
    <2> HIDE DEF s
    <2>2. \E f : Scans(f, Len(s), Len(s) + 2, LiteralHead(s), LiteralNext(s)) /\ LiteralValue(s) = f[1]
      BY <2>1, LiteralScan
    <2>3. Len(s) + 2 = 2
      BY <2>1
    <2>4. \E f : Scans(f, 0, 2, LiteralHead(s), LiteralNext(s)) /\ LiteralValue(s) = f[1]
      BY <2>1, <2>2, <2>3
    <2> QED BY <2>4 DEF s
  <1> QED BY <1>1 DEF Scans

LEMMA LiteralSurvives ==
  ASSUME NEW S, NEW s \in Seq(S)
  PROVE  LiteralValue(EscapeJson(s)) = s
  <1> DEFINE T == JsonChars(S)
             D == [y \in Seq(T) |-> LiteralValue(y)]
             one == [c \in S |-> <<c>>]
  <1>1. JsonTok(S) \in [S -> Seq(T)]
    BY JsonTokType
  <1>2. D[<<>>] = <<>>
    <2>1. <<>> \in Seq(T)
      OBVIOUS
    <2> QED BY <2>1, LiteralValueNone
  <1>3. ASSUME NEW c \in S, NEW y \in Seq(T) PROVE D[JsonTok(S)[c] \o y] = one[c] \o D[y]
    <2>1. JsonTok(S)[c] \in Seq(T)
      BY <1>1
    <2>2. JsonTok(S)[c] \o y \in Seq(T)
      BY <2>1
    <2>3. LiteralValue(JsonTok(S)[c] \o y) = <<c>> \o LiteralValue(y)
      BY LiteralReads
    <2> QED BY <2>2, <2>3
  <1> HIDE DEF D, T
  <1>4. Takes(D, S, T, JsonTok(S), one)
    BY <1>2, <1>3 DEF Takes
  <1>5. ReadsBack(D, S, JsonTok(S))
    BY <1>1, <1>4, JoinedBack
  <1>6. Joined(JsonTok(S), s) \in Seq(T)
    BY <1>1, JoinedType
  <1> QED BY <1>5, <1>6, EscapeJsonJoined DEF ReadsBack, D

-----------------------------------------------------------------------------
(* What get_form_value() finds: the value of a part, if no part before it  *)
(* has the same key.                                                       *)
FirstPart(B, key, p, e) ==
  /\ Len(B) \in Nat /\ p \in 1..Len(B) /\ e \in Nat
  /\ p = 1 \/ B[p - 1] = "&"
  /\ B[p] = key /\ key # "=" /\ B[p + 1] = "="
  /\ p + 2 <= e /\ e <= Len(B) + 1
  /\ e = Len(B) + 1 \/ B[e] = "&"
  /\ \A i \in p..(e - 1) : B[i] # "&"
  /\ \A i \in 1..(p - 1) : i = 1 \/ B[i - 1] = "&" => B[i] # key

LEMMA PartValue ==
  ASSUME NEW B, NEW key, NEW p, NEW e, FirstPart(B, key, p, e)
  PROVE  GetFormValue(B, key) = SubSeq(B, p + 2, e - 1)
  <1>0. /\ Len(B) \in Nat /\ p \in 1..Len(B) /\ e \in Nat
        /\ p = 1 \/ B[p - 1] = "&"
        /\ B[p] = key /\ key # "=" /\ B[p + 1] = "="
        /\ p + 2 <= e /\ e <= Len(B) + 1
        /\ e = Len(B) + 1 \/ B[e] = "&"
    BY DEF FirstPart
  <1>a. \A i \in p..(e - 1) : B[i] # "&"
    BY DEF FirstPart
  <1>b. \A i \in 1..(p - 1) : i = 1 \/ B[i - 1] = "&" => B[i] # key
    BY DEF FirstPart
  <1> DEFINE L == Len(B)
             starts == {i \in 1..(Len(B) + 1) : i = 1 \/ B[i - 1] = "&"}
             ends(i) == {j \in i..Len(B) : B[j] = "&"} \cup {Len(B) + 1}
             end(i) == Min(ends(i))
             eqs(i) == {j \in i..(end(i) - 1) : B[j] = "="} \cup {end(i)}
             eq(i) == Min(eqs(i))
             found == {i \in starts : eq(i) < end(i) /\ SubSeq(B, i, eq(i) - 1) = <<key>>}
  <1>1. GetFormValue(B, key)
        = IF found = {} THEN <<>> ELSE SubSeq(B, eq(Min(found)) + 1, end(Min(found)) - 1)
    BY DEF GetFormValue
  <1>2. L \in Nat /\ p \in Nat /\ 1 <= p /\ p <= L /\ e <= L + 1 /\ p + 2 <= e
    BY <1>0
  <1>3. end(p) = e
    <2>1. ends(p) \in SUBSET Nat
      BY <1>0, <1>2
    <2>2. e \in ends(p)
      <3>1. e = L + 1 \/ (e \in p..L /\ B[e] = "&")
        BY <1>0, <1>2
      <3> QED BY <3>1
    <2>3. ASSUME NEW j \in ends(p) PROVE e <= j
      <3>1. j \in Nat /\ p <= j /\ (j = L + 1 \/ B[j] = "&")
        BY <1>0, <1>2
      <3>2. j \notin p..(e - 1)
        <4>1. CASE j = L + 1
          BY <1>0, <1>2, <4>1
        <4>2. CASE B[j] = "&"
          BY <1>a, <4>2
        <4> HIDE DEF L, ends
        <4> QED BY <3>1, <4>1, <4>2
      <3> HIDE DEF L, ends
      <3> QED BY <1>0, <1>2, <3>1, <3>2
    <2> HIDE DEF ends
    <2> QED BY <2>1, <2>2, <2>3, MinIs
  <1> HIDE DEF end
  <1>4. eq(p) = p + 1
    <2>1. eqs(p) \in SUBSET Nat
      BY <1>0, <1>2, <1>3
    <2>2. p + 1 \in eqs(p)
      BY <1>0, <1>2, <1>3
    <2>3. ASSUME NEW j \in eqs(p) PROVE p + 1 <= j
      <3>1. j \in Nat /\ (j = e \/ (p <= j /\ B[j] = "="))
        BY <1>0, <1>2, <1>3
      <3>2. j # p
        BY <1>0, <1>2, <3>1
      <3> QED BY <1>0, <1>2, <3>1, <3>2
    <2> HIDE DEF eqs
    <2> QED BY <2>1, <2>2, <2>3, MinIs
  <1>5. p \in found
    <2>1. p \in starts
      BY <1>0, <1>2
    <2>2. SubSeq(B, p, p) = <<key>>
      BY <1>0, <1>2, OneOfSeq
    <2>3. (p + 1) - 1 = p /\ p + 1 < e
      BY <1>0, <1>2
    <2> HIDE DEF starts, eq
    <2> QED BY <1>3, <1>4, <2>1, <2>2, <2>3
  <1>6. ASSUME NEW i \in found, i < p PROVE FALSE
    <2>1. i \in 1..(p - 1) /\ i \in 1..L /\ (i = 1 \/ B[i - 1] = "&")
      BY <1>0, <1>2, <1>6
    <2>2. SubSeq(B, i, eq(i) - 1) = <<key>>
      OBVIOUS
    <2>3. eq(i) \in Nat
      <3>1. ends(i) \in SUBSET Nat /\ ends(i) # {}
        BY <2>1
      <3>2. end(i) \in Nat
        BY <3>1, MinOfNat DEF end
      <3>3. eqs(i) \in SUBSET Nat /\ eqs(i) # {}
        BY <2>1, <3>2
      <3> HIDE DEF eqs
      <3> QED BY <3>3, MinOfNat
    <2> HIDE DEF eq, found
    <2>4. PICK k : k = eq(i) - 1
      OBVIOUS
    <2>5. k \in Int /\ i \in Int
      BY <2>1, <2>3, <2>4
    <2>6. PICK S, u : S = {B[j] : j \in i..k} /\ u = SubSeq(B, i, k)
      OBVIOUS
    <2>7. \A j \in i..k : B[j] \in S
      BY <2>6
    <2>8. Len(u) = IF i <= k THEN k - i + 1 ELSE 0
      BY <2>5, <2>6, <2>7, SubSeqProperties
    <2>8a. \A j \in 1..(k - i + 1) : u[j] = B[i + j - 1]
      BY <2>5, <2>6, <2>7, SubSeqProperties
    <2>9. Len(u) = 1 /\ u[1] = key
      <3>1. u = <<key>>
        BY <2>2, <2>4, <2>6
      <3> QED BY <3>1
    <2>10. 1 \in 1..(k - i + 1) /\ i + 1 - 1 = i
      <3>1. k - i + 1 = 1
        <4>1. (IF i <= k THEN k - i + 1 ELSE 0) = 1
          BY <2>8, <2>9
        <4> QED BY <2>5, <4>1
      <3> QED BY <2>5, <3>1
    <2>11. B[i] = key
      BY <2>8a, <2>9, <2>10
    <2> QED BY <1>b, <2>1, <2>11
  <1>7. Min(found) = p
    <2>1. found \in SUBSET Nat
      BY <1>0, <1>2
    <2> HIDE DEF found
    <2>2. ASSUME NEW i \in found PROVE p <= i
      <3>1. i \in Nat /\ ~(i < p)
        BY <1>6, <2>1
      <3> QED BY <1>0, <1>2, <3>1
    <2> QED BY <1>5, <2>1, <2>2, MinIs
  <1>8. (p + 1) + 1 = p + 2
    BY <1>0, <1>2
  <1> HIDE DEF found, eq
  <1> QED BY <1>1, <1>3, <1>4, <1>5, <1>7, <1>8

(* One more field at the end of a body.                                    *)
Lengthened(B, v, a, k, q, y) ==
  /\ Len(B) = Len(v) + Len(y) + 3
  /\ \A i \in 1..Len(v) : B[i] = v[i]
  /\ B[Len(v) + 1] = a /\ B[Len(v) + 2] = k /\ B[Len(v) + 3] = q
  /\ \A i \in 1..Len(y) : B[i + Len(v) + 3] = y[i]

LEMMA OneMoreField ==
  ASSUME NEW U, NEW v \in Seq(U), NEW a \in U, NEW k \in U, NEW q \in U, NEW y \in Seq(U)
  PROVE  /\ (v \o <<a, k, q>>) \o y \in Seq(U)
         /\ Lengthened((v \o <<a, k, q>>) \o y, v, a, k, q, y)
  <1> DEFINE w == <<a, k, q>>
             u == v \o w
             B == u \o y
             d == Len(v)
  <1>1. w \in Seq(U) /\ Len(w) = 3 /\ w[1] = a /\ w[2] = k /\ w[3] = q /\ d \in Nat
    OBVIOUS
  <1> HIDE DEF w
  <1>2. /\ u \in Seq(U) /\ Len(u) = d + Len(w)
        /\ \A i \in 1..(d + Len(w)) : u[i] = IF i <= d THEN v[i] ELSE w[i - d]
    BY <1>1, ConcatProperties
  <1> HIDE DEF u
  <1>3. /\ B \in Seq(U) /\ Len(B) = Len(u) + Len(y)
        /\ \A i \in 1..(Len(u) + Len(y)) : B[i] = IF i <= Len(u) THEN u[i] ELSE y[i - Len(u)]
    <2>1. u \in Seq(U) /\ y \in Seq(U)
      BY <1>2
    <2> QED BY <2>1, ConcatProperties
  <1>4. Len(y) \in Nat
    OBVIOUS
  <1> HIDE DEF B, d
  <1>5. \A i \in 1..d : u[i] = v[i] /\ B[i] = u[i]
    BY <1>1, <1>2, <1>3, <1>4
  <1>6. /\ u[d + 1] = w[1] /\ u[d + 2] = w[2] /\ u[d + 3] = w[3]
        /\ B[d + 1] = u[d + 1] /\ B[d + 2] = u[d + 2] /\ B[d + 3] = u[d + 3]
    <2>1. /\ (d + 1) - d = 1 /\ (d + 2) - d = 2 /\ (d + 3) - d = 3
          /\ {d + 1, d + 2, d + 3} \subseteq 1..(d + Len(w)) /\ Len(u) = d + 3
          /\ ~(d + 1 <= d) /\ ~(d + 2 <= d) /\ ~(d + 3 <= d)
      BY <1>1, <1>2
    <2>2. u[d + 1] = w[1] /\ u[d + 2] = w[2] /\ u[d + 3] = w[3]
      BY <1>2, <2>1
    <2>3. /\ {d + 1, d + 2, d + 3} \subseteq 1..(Len(u) + Len(y))
          /\ d + 1 <= Len(u) /\ d + 2 <= Len(u) /\ d + 3 <= Len(u)
      BY <1>1, <1>4, <2>1
    <2>4. B[d + 1] = u[d + 1] /\ B[d + 2] = u[d + 2] /\ B[d + 3] = u[d + 3]
      BY <1>3, <2>3
    <2> QED BY <2>2, <2>4
  <1>7. ASSUME NEW i \in 1..Len(y) PROVE B[i + d + 3] = y[i]
    <2>1. /\ i + d + 3 \in 1..(Len(u) + Len(y)) /\ ~(i + d + 3 <= Len(u))
          /\ (i + d + 3) - Len(u) = i
      BY <1>1, <1>2, <1>4
    <2> QED BY <1>3, <2>1
  <1>8. Len(B) = d + Len(y) + 3
    BY <1>1, <1>2, <1>3, <1>4
  <1> QED BY <1>1, <1>3, <1>5, <1>6, <1>7, <1>8 DEF Lengthened, B, d, u, w

(* The body of a form of three fields is k1 q x a k2 q y a k3 q z.         *)
Laid(B, a, q, k1, x, k2, y, k3, z) ==
  \E m, n, l \in Nat :
    /\ m = Len(x) /\ n = Len(y) /\ l = Len(z) /\ Len(B) = m + n + l + 8
    /\ B[1] = k1 /\ B[2] = q
    /\ B[m + 3] = a /\ B[m + 4] = k2 /\ B[m + 5] = q
    /\ B[m + n + 6] = a /\ B[m + n + 7] = k3 /\ B[m + n + 8] = q
    /\ \A i \in 1..m : B[i + 2] = x[i]
    /\ \A i \in 1..n : B[i + m + 5] = y[i]
    /\ \A i \in 1..l : B[i + m + n + 8] = z[i]

LEMMA LaidOut ==
  ASSUME NEW U, NEW a \in U, NEW q \in U, NEW k1 \in U, NEW k2 \in U, NEW k3 \in U,
         NEW x \in Seq(U), NEW y \in Seq(U), NEW z \in Seq(U)
  PROVE  Laid(((((<<k1, q>> \o x) \o <<a, k2, q>>) \o y) \o <<a, k3, q>>) \o z,
              a, q, k1, x, k2, y, k3, z)
  <1> DEFINE u == <<k1, q>> \o x
             v == (u \o <<a, k2, q>>) \o y
             B == (v \o <<a, k3, q>>) \o z
             m == Len(x)
             n == Len(y)
             l == Len(z)
  <1>1. m \in Nat /\ n \in Nat /\ l \in Nat
    OBVIOUS
  <1>2. u \in Seq(U) /\ Len(u) = m + 2 /\ u[1] = k1 /\ u[2] = q /\ \A i \in 1..m : u[i + 2] = x[i]
    OBVIOUS
  <1> HIDE DEF u
  <1>3. v \in Seq(U) /\ Lengthened(v, u, a, k2, q, y)
    BY <1>2, OneMoreField
  <1> HIDE DEF v
  <1>4. Lengthened(B, v, a, k3, q, z)
    BY <1>3, OneMoreField
  <1> HIDE DEF B, m, n, l
  <1>5. /\ Len(v) = m + n + 5 /\ v[1] = k1 /\ v[2] = q
        /\ v[m + 3] = a /\ v[m + 4] = k2 /\ v[m + 5] = q
        /\ \A i \in 1..m : v[i + 2] = x[i]
        /\ \A i \in 1..n : v[i + m + 5] = y[i]
    <2>1. /\ Len(v) = Len(u) + n + 3 /\ \A i \in 1..Len(u) : v[i] = u[i]
          /\ v[Len(u) + 1] = a /\ v[Len(u) + 2] = k2 /\ v[Len(u) + 3] = q
          /\ \A i \in 1..n : v[i + Len(u) + 3] = y[i]
      BY <1>3 DEF Lengthened, n
    <2>2. /\ Len(u) + 1 = m + 3 /\ Len(u) + 2 = m + 4 /\ Len(u) + 3 = m + 5
          /\ 1 \in 1..Len(u) /\ 2 \in 1..Len(u)
          /\ \A i \in 1..m : i + 2 \in 1..Len(u)
          /\ \A i \in 1..n : i + Len(u) + 3 = i + m + 5
      BY <1>1, <1>2
    <2>3. Len(v) = m + n + 5
      BY <1>1, <1>2, <2>1
    <2>4. \A i \in 1..m : v[i + 2] = x[i]
      BY <1>2, <2>1, <2>2
    <2>5. \A i \in 1..n : v[i + m + 5] = y[i]
      BY <2>1, <2>2
    <2> QED BY <1>2, <2>1, <2>2, <2>3, <2>4, <2>5
  <1>6. /\ Len(B) = Len(v) + l + 3 /\ \A i \in 1..Len(v) : B[i] = v[i]
        /\ B[Len(v) + 1] = a /\ B[Len(v) + 2] = k3 /\ B[Len(v) + 3] = q
        /\ \A i \in 1..l : B[i + Len(v) + 3] = z[i]
    BY <1>4 DEF Lengthened, l
  <1>7. /\ Len(v) + 1 = m + n + 6 /\ Len(v) + 2 = m + n + 7 /\ Len(v) + 3 = m + n + 8
        /\ {1, 2, m + 3, m + 4, m + 5} \subseteq 1..Len(v)
        /\ \A i \in 1..m : i + 2 \in 1..Len(v)
        /\ \A i \in 1..n : i + m + 5 \in 1..Len(v)
        /\ \A i \in 1..l : i + Len(v) + 3 = i + m + n + 8
        /\ Len(B) = m + n + l + 8
    <2>1. Len(v) = m + n + 5 /\ Len(B) = Len(v) + l + 3
      BY <1>5, <1>6
    <2> QED BY <1>1, <2>1
  <1>8. /\ B[1] = k1 /\ B[2] = q /\ B[m + 3] = a /\ B[m + 4] = k2 /\ B[m + 5] = q
        /\ B[m + n + 6] = a /\ B[m + n + 7] = k3 /\ B[m + n + 8] = q
    BY <1>5, <1>6, <1>7
  <1>9. /\ \A i \in 1..m : B[i + 2] = x[i]
        /\ \A i \in 1..n : B[i + m + 5] = y[i]
        /\ \A i \in 1..l : B[i + m + n + 8] = z[i]
    BY <1>5, <1>6, <1>7
  <1> QED BY <1>1, <1>7, <1>8, <1>9 DEF Laid, B, v, u, m, n, l

(* The three values, which have no a in them.                              *)
FormOf(T, B, k1, x, k2, y, k3, z) ==
  /\ Laid(B, "&", "=", k1, x, k2, y, k3, z)
  /\ x \in Seq(T) /\ y \in Seq(T) /\ z \in Seq(T) /\ "&" \notin T
  /\ k1 # "=" /\ k2 # "=" /\ k3 # "=" /\ k1 # "&" /\ k2 # "&" /\ k3 # "&"
  /\ k1 # k2 /\ k1 # k3 /\ k2 # k3

LEMMA FieldValues ==
  ASSUME NEW T, NEW B, NEW k1, NEW k2, NEW k3, NEW x, NEW y, NEW z,
         FormOf(T, B, k1, x, k2, y, k3, z)
  PROVE  GetFormValue(B, k1) = x /\ GetFormValue(B, k2) = y /\ GetFormValue(B, k3) = z
  <1>d. /\ Laid(B, "&", "=", k1, x, k2, y, k3, z)
        /\ x \in Seq(T) /\ y \in Seq(T) /\ z \in Seq(T) /\ "&" \notin T
    BY DEF FormOf
  <1>e. /\ k1 # "=" /\ k2 # "=" /\ k3 # "=" /\ k1 # "&" /\ k2 # "&" /\ k3 # "&"
        /\ k1 # k2 /\ k1 # k3 /\ k2 # k3
    BY DEF FormOf
  <1>0. /\ \A i \in 1..Len(x) : x[i] \in T
        /\ \A i \in 1..Len(y) : y[i] \in T
        /\ \A i \in 1..Len(z) : z[i] \in T
    BY <1>d
  <1>1. PICK m \in Nat, n \in Nat, l \in Nat :
          /\ m = Len(x) /\ n = Len(y) /\ l = Len(z) /\ Len(B) = m + n + l + 8
          /\ B[1] = k1 /\ B[2] = "="
          /\ B[m + 3] = "&" /\ B[m + 4] = k2 /\ B[m + 5] = "="
          /\ B[m + n + 6] = "&" /\ B[m + n + 7] = k3 /\ B[m + n + 8] = "="
          /\ \A i \in 1..m : B[i + 2] = x[i]
          /\ \A i \in 1..n : B[i + m + 5] = y[i]
          /\ \A i \in 1..l : B[i + m + n + 8] = z[i]
    BY <1>d, Zenon DEF Laid
  <1>a. m = Len(x) /\ n = Len(y) /\ l = Len(z) /\ Len(B) = m + n + l + 8
    BY <1>1
  <1>b. /\ \A i \in 1..m : B[i + 2] = x[i]
        /\ \A i \in 1..n : B[i + m + 5] = y[i]
        /\ \A i \in 1..l : B[i + m + n + 8] = z[i]
    BY <1>1
  <1>c. /\ B[1] = k1 /\ B[2] = "="
        /\ B[m + 3] = "&" /\ B[m + 4] = k2 /\ B[m + 5] = "="
        /\ B[m + n + 6] = "&" /\ B[m + n + 7] = k3 /\ B[m + n + 8] = "="
    BY <1>1
  <1>2. ASSUME NEW j \in 1..Len(B) PROVE B[j] = "&" <=> j \in {m + 3, m + n + 6}
    <2>1. \/ j \in {1, 2, m + 4, m + 5, m + n + 7, m + n + 8}
          \/ j \in {m + 3, m + n + 6}
          \/ \E i \in 1..m : j = i + 2
          \/ \E i \in 1..n : j = i + m + 5
          \/ \E i \in 1..l : j = i + m + n + 8
      <3>1. j \in 1..(m + n + l + 8)
        BY <1>a
      <3>2. CASE j \in 3..(m + 2)
        <4>1. j - 2 \in 1..m /\ j = (j - 2) + 2
          BY <3>2
        <4> QED BY <4>1
      <3>3. CASE j \in (m + 6)..(m + n + 5)
        <4>1. j - (m + 5) \in 1..n /\ j = (j - (m + 5)) + m + 5
          BY <3>3
        <4> QED BY <4>1
      <3>4. CASE j \in (m + n + 9)..(m + n + l + 8)
        <4>1. j - (m + n + 8) \in 1..l /\ j = (j - (m + n + 8)) + m + n + 8
          BY <3>4
        <4> QED BY <4>1
      <3>5. CASE j \notin 3..(m + 2) /\ j \notin (m + 6)..(m + n + 5)
                 /\ j \notin (m + n + 9)..(m + n + l + 8)
        BY <3>1, <3>5
      <3> QED BY <1>d, <3>2, <3>3, <3>4, <3>5
    <2>2. CASE \E i \in 1..m : j = i + 2
      <3>1. PICK i \in 1..m : j = i + 2
        BY <2>2
      <3>2. B[j] = x[i] /\ x[i] \in T
        BY <1>0, <1>a, <1>b, <3>1
      <3> QED BY <1>a, <1>d, <3>1, <3>2
    <2>3. CASE \E i \in 1..n : j = i + m + 5
      <3>1. PICK i \in 1..n : j = i + m + 5
        BY <2>3
      <3>2. B[j] = y[i] /\ y[i] \in T
        BY <1>0, <1>a, <1>b, <3>1
      <3>3. j \notin {m + 3, m + n + 6}
        BY <3>1
      <3> QED BY <1>d, <3>2, <3>3
    <2>4. CASE \E i \in 1..l : j = i + m + n + 8
      <3>1. PICK i \in 1..l : j = i + m + n + 8
        BY <2>4
      <3>2. B[j] = z[i] /\ z[i] \in T
        BY <1>0, <1>a, <1>b, <3>1
      <3>3. j \notin {m + 3, m + n + 6}
        BY <3>1
      <3> QED BY <1>d, <3>2, <3>3
    <2>5. CASE j \in {1, 2, m + 4, m + 5, m + n + 7, m + n + 8}
      <3>1. j \notin {m + 3, m + n + 6}
        BY <1>a, <2>5
      <3> QED BY <1>c, <1>e, <2>5, <3>1
    <2>6. CASE j \in {m + 3, m + n + 6}
      BY <1>c, <2>6
    <2> QED BY <2>1, <2>2, <2>3, <2>4, <2>5, <2>6
  <1>3. GetFormValue(B, k1) = SubSeq(B, 1 + 2, (m + 3) - 1)
    <2>1. /\ 1 \in 1..Len(B) /\ 1 + 2 <= m + 3 /\ m + 3 <= Len(B) + 1 /\ m + 3 \in Nat
          /\ 1 + 1 = 2 /\ Len(B) \in Nat
      BY <1>1
    <2>2. ASSUME NEW i \in 1..((m + 3) - 1) PROVE B[i] # "&"
      <3>1. i \in 1..Len(B) /\ i \notin {m + 3, m + n + 6}
        BY <1>a
      <3> QED BY <1>2, <3>1
    <2>3. \A i \in 1..(1 - 1) : FALSE
      OBVIOUS
    <2>4. B[1] = k1 /\ B[1 + 1] = "=" /\ B[m + 3] = "&" /\ k1 # "="
      BY <1>c, <1>e, <2>1
    <2>5. FirstPart(B, k1, 1, m + 3)
      BY <2>1, <2>2, <2>3, <2>4 DEF FirstPart
    <2> QED BY <2>5, PartValue
  <1>4. GetFormValue(B, k2) = SubSeq(B, (m + 4) + 2, (m + n + 6) - 1)
    <2>1. /\ m + 4 \in 1..Len(B) /\ (m + 4) + 2 <= m + n + 6 /\ m + n + 6 <= Len(B) + 1
          /\ m + n + 6 \in Nat /\ (m + 4) + 1 = m + 5 /\ (m + 4) - 1 = m + 3 /\ Len(B) \in Nat
      BY <1>1
    <2>2. ASSUME NEW i \in (m + 4)..((m + n + 6) - 1) PROVE B[i] # "&"
      <3>1. i \in 1..Len(B) /\ i \notin {m + 3, m + n + 6}
        BY <1>a
      <3> QED BY <1>2, <3>1
    <2>3. ASSUME NEW i \in 1..((m + 4) - 1), i = 1 \/ B[i - 1] = "&" PROVE B[i] # k2
      <3>1. i # 1 => i - 1 \in 1..Len(B) /\ i - 1 \notin {m + 3, m + n + 6}
        BY <1>1
      <3>2. i = 1
        BY <1>2, <2>3, <3>1
      <3> QED BY <1>1, <1>e, <3>2
    <2>4. B[m + 4] = k2 /\ B[(m + 4) + 1] = "=" /\ B[(m + 4) - 1] = "&" /\ B[m + n + 6] = "&"
      BY <1>1, <2>1
    <2>5. k2 # "="
      BY <1>e
    <2>6. PICK p, e : p = m + 4 /\ e = m + n + 6
      OBVIOUS
    <2>7. /\ p \in 1..Len(B) /\ e \in Nat /\ (p = 1 \/ B[p - 1] = "&") /\ B[p] = k2
          /\ B[p + 1] = "=" /\ p + 2 <= e /\ e <= Len(B) + 1
          /\ (e = Len(B) + 1 \/ B[e] = "&") /\ Len(B) \in Nat
      BY <2>1, <2>4, <2>6
    <2>8. \A i \in p..(e - 1) : B[i] # "&"
      BY <2>2, <2>6
    <2>9. \A i \in 1..(p - 1) : i = 1 \/ B[i - 1] = "&" => B[i] # k2
      BY <2>3, <2>6
    <2>10. FirstPart(B, k2, p, e)
      BY <2>5, <2>7, <2>8, <2>9 DEF FirstPart
    <2>11. GetFormValue(B, k2) = SubSeq(B, p + 2, e - 1)
      BY <2>10, PartValue
    <2> QED BY <2>6, <2>11
  <1>5. GetFormValue(B, k3) = SubSeq(B, (m + n + 7) + 2, (Len(B) + 1) - 1)
    <2>1. /\ m + n + 7 \in 1..Len(B) /\ (m + n + 7) + 2 <= Len(B) + 1 /\ Len(B) + 1 <= Len(B) + 1
          /\ Len(B) + 1 \in Nat /\ (m + n + 7) + 1 = m + n + 8 /\ (m + n + 7) - 1 = m + n + 6
          /\ Len(B) \in Nat
      BY <1>1
    <2>2. ASSUME NEW i \in (m + n + 7)..((Len(B) + 1) - 1) PROVE B[i] # "&"
      <3>1. i \in 1..Len(B) /\ i \notin {m + 3, m + n + 6}
        BY <1>a
      <3> QED BY <1>2, <3>1
    <2>3. ASSUME NEW i \in 1..((m + n + 7) - 1), i = 1 \/ B[i - 1] = "&" PROVE B[i] # k3
      <3>1. i # 1 => i - 1 \in 1..Len(B) /\ i - 1 # m + n + 6
        BY <1>1
      <3>2. i = 1 \/ i - 1 = m + 3
        BY <1>2, <2>3, <3>1
      <3>3. i = 1 \/ i = m + 4
        BY <1>1, <3>2
      <3> QED BY <1>1, <1>e, <3>3
    <2>4. B[m + n + 7] = k3 /\ B[(m + n + 7) + 1] = "=" /\ B[(m + n + 7) - 1] = "&"
      BY <1>1, <2>1
    <2>5. k3 # "="
      BY <1>e
    <2>6. PICK p, e : p = m + n + 7 /\ e = Len(B) + 1
      OBVIOUS
    <2>7. /\ p \in 1..Len(B) /\ e \in Nat /\ (p = 1 \/ B[p - 1] = "&") /\ B[p] = k3
          /\ B[p + 1] = "=" /\ p + 2 <= e /\ e <= Len(B) + 1
          /\ (e = Len(B) + 1 \/ B[e] = "&") /\ Len(B) \in Nat
      BY <2>1, <2>4, <2>6
    <2>8. \A i \in p..(e - 1) : B[i] # "&"
      BY <2>2, <2>6
    <2>9. \A i \in 1..(p - 1) : i = 1 \/ B[i - 1] = "&" => B[i] # k3
      BY <2>3, <2>6
    <2>10. FirstPart(B, k3, p, e)
      BY <2>5, <2>7, <2>8, <2>9 DEF FirstPart
    <2>11. GetFormValue(B, k3) = SubSeq(B, p + 2, e - 1)
      BY <2>10, PartValue
    <2> QED BY <2>6, <2>11
  <1>6. SubSeq(B, 1 + 2, (m + 3) - 1) = x
    <2>1. 1 + 2 = 2 + 1 /\ (m + 3) - 1 = 2 + m
      OBVIOUS
    <2> QED BY <1>a, <1>b, <1>d, <2>1, PieceOf
  <1>7. SubSeq(B, (m + 4) + 2, (m + n + 6) - 1) = y
    <2>1. (m + 4) + 2 = (m + 5) + 1 /\ (m + n + 6) - 1 = (m + 5) + n /\ m + 5 \in Nat
      OBVIOUS
    <2>2. \A i \in 1..n : B[i + (m + 5)] = y[i]
      <3>1. \A i \in 1..n : i + m + 5 = i + (m + 5)
        OBVIOUS
      <3> QED BY <1>b, <3>1
    <2>3. SubSeq(B, (m + 5) + 1, (m + 5) + n) = y
      <3> DEFINE o == m + 5
      <3>1. o \in Nat /\ \A i \in 1..Len(y) : B[i + o] = y[i]
        BY <1>a, <2>1, <2>2
      <3> HIDE DEF o
      <3>2. SubSeq(B, o + 1, o + Len(y)) = y
        BY <1>d, <3>1, PieceOf
      <3> QED BY <1>a, <3>2 DEF o
    <2> QED BY <2>1, <2>3
  <1>8. SubSeq(B, (m + n + 7) + 2, (Len(B) + 1) - 1) = z
    <2>1. /\ (m + n + 7) + 2 = (m + n + 8) + 1 /\ (Len(B) + 1) - 1 = (m + n + 8) + l
          /\ m + n + 8 \in Nat
      BY <1>a
    <2>2. \A i \in 1..l : B[i + (m + n + 8)] = z[i]
      <3>1. \A i \in 1..l : i + m + n + 8 = i + (m + n + 8)
        OBVIOUS
      <3> QED BY <1>b, <3>1
    <2>3. SubSeq(B, (m + n + 8) + 1, (m + n + 8) + l) = z
      <3> DEFINE o == m + n + 8
      <3>1. o \in Nat /\ \A i \in 1..Len(z) : B[i + o] = z[i]
        BY <1>a, <2>1, <2>2
      <3> HIDE DEF o
      <3>2. SubSeq(B, o + 1, o + Len(z)) = z
        BY <1>d, <3>1, PieceOf
      <3> QED BY <1>a, <3>2 DEF o
    <2> QED BY <2>1, <2>3
  <1> QED BY <1>3, <1>4, <1>5, <1>6, <1>7, <1>8

(* The fields of a form are what the server finds in its body.             *)
LEMMA FormFields ==
  ASSUME NEW S, NEW fields,
         fields.title \in Seq(S), fields.category \in Seq(S), fields.content \in Seq(S)
  PROVE  /\ GetFormValue(FormBody(fields), "title") = FormEncode(fields.title)
         /\ GetFormValue(FormBody(fields), "category") = FormEncode(fields.category)
         /\ GetFormValue(FormBody(fields), "content") = FormEncode(fields.content)
  <1> DEFINE T == FormChars(S)
  <1>1. ASSUME NEW s \in Seq(S) PROVE FormEncode(s) \in Seq(T)
    <2>1. FormTok(S) \in [S -> Seq(T)]
      BY FormTokType
    <2>2. Joined(FormTok(S), s) \in Seq(T)
      BY <2>1, JoinedType
    <2> QED BY <2>2, FormEncodeJoined
  <1>2. "&" \notin T
    <2>1. "&" \in DOMAIN Hex /\ "&" \notin HexDigit
      BY HexTable DEF HexDigit, Upper
    <2> QED BY <2>1 DEF FormChars
  <1> HIDE DEF T
  <1>3. PICK x, y, z : /\ x = FormEncode(fields.title) /\ y = FormEncode(fields.category)
                       /\ z = FormEncode(fields.content)
    OBVIOUS
  <1>4. x \in Seq(T) /\ y \in Seq(T) /\ z \in Seq(T)
    BY <1>1, <1>3
  <1>5. PICK B : B = FormBody(fields)
    OBVIOUS
  <1>6. PICK a, q, k1, k2, k3 :
          a = "&" /\ q = "=" /\ k1 = "title" /\ k2 = "category" /\ k3 = "content"
    OBVIOUS
  <1>7. Laid(B, a, q, k1, x, k2, y, k3, z)
    <2>1. B = ((((<<k1, q>> \o x) \o <<a, k2, q>>) \o y) \o <<a, k3, q>>) \o z
      BY <1>3, <1>5, <1>6 DEF FormBody
    <2>2. PICK U : U = T \cup {a, q, k1, k2, k3}
      OBVIOUS
    <2>3. a \in U /\ q \in U /\ k1 \in U /\ k2 \in U /\ k3 \in U /\ T \subseteq U
      BY <2>2
    <2>4. x \in Seq(U) /\ y \in Seq(U) /\ z \in Seq(U)
      BY <1>4, <2>3
    <2> QED BY <2>1, <2>3, <2>4, LaidOut
  <1>8. GetFormValue(B, k1) = x /\ GetFormValue(B, k2) = y /\ GetFormValue(B, k3) = z
    <2>1. Laid(B, "&", "=", k1, x, k2, y, k3, z)
      BY <1>6, <1>7
    <2>2. /\ k1 # "=" /\ k2 # "=" /\ k3 # "=" /\ k1 # "&" /\ k2 # "&" /\ k3 # "&"
          /\ k1 # k2 /\ k1 # k3 /\ k2 # k3
      BY <1>6
    <2>3. FormOf(T, B, k1, x, k2, y, k3, z)
      BY <1>2, <1>4, <2>1, <2>2 DEF FormOf
    <2> QED BY <2>3, FieldValues
  <1> QED BY <1>3, <1>5, <1>6, <1>8

(* A text in which nothing is to be decoded is left alone.                 *)
LEMMA UrlDecodeStays ==
  ASSUME NEW S, NEW s \in Seq(S), NoEscape(s)
  PROVE  UrlDecode(s) = s
  <1> DEFINE P == {y \in Seq(S) : NoEscape(y) => UrlDecode(y) = y}
  <1>1. <<>> \in P
    BY UrlDecodeNone
  <1>2. ASSUME NEW c \in S, NEW y \in Seq(S), y \in P PROVE <<c>> \o y \in P
    <2>1. PICK x, u : x = <<c>> /\ u = <<c>> \o y
      OBVIOUS
    <2>2. /\ x \in Seq(S) /\ x # <<>> /\ Len(x) = 1 /\ u = x \o y /\ u \in Seq(S)
          /\ Len(u) = Len(y) + 1 /\ Len(y) \in Nat /\ u[1] = c
          /\ \A i \in 1..Len(y) : u[i + 1] = y[i]
      BY <2>1
    <2>3. CASE NoEscape(u)
      <3>1. u[1] # "+" /\ ~WholeEscape(u, 1)
        <4>1. 1 \in DOMAIN u
          BY <2>2
        <4> QED BY <2>3, <4>1 DEF NoEscape, WholeEscape
      <3>2. UrlHead(u)[1] = <<c>> /\ UrlNext(u)[1] = Len(x) + 1
        <4>1. 1 \in 1..Len(u)
          BY <2>2
        <4> QED BY <2>2, <3>1, <4>1 DEF UrlHead, UrlNext
      <3>3. UrlDecode(u) = <<c>> \o UrlDecode(y)
        BY <2>2, <3>2, UrlToken
      <3>4. NoEscape(y)
        <4> SUFFICES ASSUME NEW i \in 1..Len(y)
                     PROVE  /\ y[i] # "+"
                            /\ ~(y[i] = "%" /\ i + 2 <= Len(y) /\ {y[i + 1], y[i + 2]} \subseteq HexDigit)
          BY DEF NoEscape
        <4>1. i + 1 \in DOMAIN u /\ u[i + 1] = y[i]
          BY <2>2
        <4>2. /\ u[i + 1] # "+"
              /\ ~(/\ u[i + 1] = "%" /\ (i + 1) + 2 <= Len(u)
                   /\ {u[(i + 1) + 1], u[(i + 1) + 2]} \subseteq HexDigit)
          BY <2>3, <4>1 DEF NoEscape
        <4>3. i + 2 <= Len(y) =>
                /\ (i + 1) + 2 <= Len(u)
                /\ (i + 1) + 1 = (i + 1) + 1 /\ (i + 1) + 2 = (i + 2) + 1
                /\ i + 1 \in 1..Len(y) /\ i + 2 \in 1..Len(y)
          BY <2>2
        <4>4. i + 2 <= Len(y) => u[(i + 1) + 1] = y[i + 1] /\ u[(i + 1) + 2] = y[i + 2]
          BY <2>2, <4>3
        <4> QED BY <4>1, <4>2, <4>3, <4>4
      <3> QED BY <1>2, <2>1, <2>2, <3>3, <3>4
    <2> QED BY <2>1, <2>2, <2>3
  <1> HIDE DEF P
  <1>3. \A y \in Seq(S) : y \in P
    BY <1>1, <1>2, ByFront
  <1> QED BY <1>3 DEF P

-----------------------------------------------------------------------------
(* The text of a script.  What escape_json() writes for a text that does   *)
(* not leave the script has no tag and no comment for the browser to see.  *)
OpensAt(s, i, name) == i > 1 /\ s[i - 1] = "<" /\ s[i] = name

TagAt(s, i, name) == OpensAt(s, i, name) /\ i < Len(s) /\ s[i + 1] \in TagEnd

ScriptStep(s, state, i) ==
  CASE state = "ended" -> "ended"
    [] state = "nested" /\ TagAt(s, i, "/script") -> "comment"
    [] state # "nested" /\ TagAt(s, i, "/script") -> "ended"
    [] state = "plain" /\ OpensAt(s, i, "!--") -> "comment"
    [] state = "comment" /\ TagAt(s, i, "script") -> "nested"
    [] state # "ended" /\ i > 1 /\ s[i - 1] \in {"--", "!--"} /\ s[i] = ">" -> "plain"
    [] OTHER -> state

ScriptRun(s, f) ==
  f = [i \in 0..Len(s) |-> IF i = 0 THEN "plain" ELSE ScriptStep(s, f[i - 1], i)]

LEMMA ScriptStateIs ==
  ASSUME NEW s
  PROVE  ScriptState(s) = (CHOOSE f : ScriptRun(s, f))[Len(s)]
  BY DEF ScriptState, ScriptRun, ScriptStep, TagAt, OpensAt

(* Nothing in y opens a comment or ends the script.                        *)
Quiet(y) ==
  \A i \in 1..(Len(y) - 1) :
    y[i] = "<" => /\ y[i + 1] # "!--"
                  /\ ~(y[i + 1] = "/script" /\ i + 2 <= Len(y) /\ y[i + 2] \in TagEnd)

LEMMA QuietPlain ==
  ASSUME NEW y, Len(y) \in Nat, Quiet(y)
  PROVE  ScriptState(y) = "plain"
  <1> DEFINE n == Len(y)
             f == CHOOSE g : ScriptRun(y, g)
  <1>1. ASSUME NEW i \in 1..n PROVE ScriptStep(y, "plain", i) = "plain"
    <2>1. ~OpensAt(y, i, "!--")
      <3> SUFFICES ASSUME OpensAt(y, i, "!--") PROVE FALSE
        OBVIOUS
      <3>1. i - 1 \in 1..(n - 1) /\ (i - 1) + 1 = i /\ y[i - 1] = "<" /\ y[i] = "!--"
        BY DEF OpensAt
      <3> QED BY <3>1 DEF Quiet
    <2>2. ~TagAt(y, i, "/script")
      <3> SUFFICES ASSUME TagAt(y, i, "/script") PROVE FALSE
        OBVIOUS
      <3>1. /\ i - 1 \in 1..(n - 1) /\ (i - 1) + 1 = i /\ (i - 1) + 2 = i + 1 /\ i + 1 <= n
            /\ y[i - 1] = "<" /\ y[i] = "/script" /\ y[i + 1] \in TagEnd
        BY DEF OpensAt, TagAt
      <3> QED BY <3>1 DEF Quiet
    <2> HIDE DEF n
    <2> QED BY <2>1, <2>2 DEF ScriptStep
  <1>2. PICK p : p = [i \in 0..n |-> "plain"]
    OBVIOUS
  <1>3. ScriptRun(y, p)
    <2>1. ASSUME NEW i \in 0..n
          PROVE  "plain" = IF i = 0 THEN "plain" ELSE ScriptStep(y, p[i - 1], i)
      <3>1. i # 0 => i \in 1..n /\ p[i - 1] = "plain"
        BY <1>2
      <3> QED BY <1>1, <3>1
    <2>2. [i \in 0..n |-> "plain"] = [i \in 0..n |-> IF i = 0 THEN "plain" ELSE ScriptStep(y, p[i - 1], i)]
      BY <2>1, Zenon
    <2> QED BY <1>2, <2>2 DEF ScriptRun
  <1>4. ScriptRun(y, f)
    BY <1>3, Zenon
  <1> HIDE DEF f
  <1>5. \A i \in 0..n : f[i] = IF i = 0 THEN "plain" ELSE ScriptStep(y, f[i - 1], i)
    BY <1>4, Zenon DEF ScriptRun
  <1>6. ASSUME NEW k \in 0..n, f[k] # "plain" PROVE FALSE
    <2> DEFINE bad == {i \in 0..n : f[i] # "plain"}
    <2>1. bad \in SUBSET Nat /\ bad # {}
      BY <1>6
    <2>2. PICK m \in bad : \A i \in bad : m <= i
      <3> HIDE DEF bad
      <3> QED BY <2>1, MinOfNat
    <2>3. m \in 0..n /\ f[m] # "plain"
      OBVIOUS
    <2>4. m # 0
      BY <1>5, <2>3
    <2>5. m \in 1..n /\ m - 1 \in 0..n /\ ~(m <= m - 1)
      BY <2>3, <2>4
    <2>6. f[m - 1] = "plain"
      BY <2>2, <2>5
    <2>7. f[m] = ScriptStep(y, "plain", m)
      BY <1>5, <2>3, <2>4, <2>6
    <2> QED BY <1>1, <2>3, <2>5, <2>7
  <1>7. f[n] = "plain"
    <2>1. n \in 0..n
      OBVIOUS
    <2> QED BY <1>6, <2>1
  <1> QED BY <1>7, ScriptStateIs DEF f

(* A text and what is written for it, with one more character in front.    *)
EscapedIn(c, z, w) ==
  /\ Len(z) \in Nat
  /\ c \in DOMAIN Escape =>
       /\ Len(w) = Len(z) + 2 /\ w[1] = "\\" /\ w[2] = Escape[c]
       /\ \A i \in 1..Len(z) : w[i + 2] = z[i]
  /\ c \notin DOMAIN Escape =>
       /\ Len(w) = Len(z) + 1 /\ w[1] = c
       /\ \A i \in 1..Len(z) : w[i + 1] = z[i]

LEMMA JsonFront ==
  ASSUME NEW S, NEW c \in S, NEW y \in Seq(S)
  PROVE  EscapedIn(c, EscapeJson(y), EscapeJson(<<c>> \o y))
  <1> DEFINE T == JsonChars(S)
  <1>1. JsonTok(S) \in [S -> Seq(T)]
    BY JsonTokType
  <1>2. PICK x, z, w : x = JsonTok(S)[c] /\ z = EscapeJson(y) /\ w = EscapeJson(<<c>> \o y)
    OBVIOUS
  <1>3. <<c>> \o y \in Seq(S)
    OBVIOUS
  <1>4. z = Joined(JsonTok(S), y) /\ w = Joined(JsonTok(S), <<c>> \o y)
    BY <1>2, <1>3, EscapeJsonJoined
  <1>5. w = x \o z /\ x \in Seq(T) /\ z \in Seq(T)
    <2> HIDE DEF T
    <2>1. /\ Joined(JsonTok(S), <<c>> \o y) = JsonTok(S)[c] \o Joined(JsonTok(S), y)
          /\ Joined(JsonTok(S), y) \in Seq(T)
      BY <1>1, JoinedFront
    <2> QED BY <1>1, <1>2, <1>4, <2>1
  <1> HIDE DEF T
  <1>5a. /\ Len(w) = Len(x) + Len(z) /\ Len(x) \in Nat /\ Len(z) \in Nat
         /\ \A i \in 1..(Len(x) + Len(z)) : w[i] = IF i <= Len(x) THEN x[i] ELSE z[i - Len(x)]
    BY <1>5, ConcatProperties
  <1>6. CASE c \in DOMAIN Escape
    <2>1. PICK b, e : b = "\\" /\ e = Escape[c]
      OBVIOUS
    <2>2. x = <<b, e>>
      BY <1>2, <1>6, <2>1 DEF JsonTok
    <2>3. Len(x) = 2 /\ x[1] = b /\ x[2] = e
      BY <2>2
    <2>4. /\ Len(w) = Len(z) + 2 /\ Len(z) \in Nat /\ w[1] = b /\ w[2] = e
          /\ \A i \in 1..Len(z) : w[i + 2] = z[i]
      <3>1. Len(w) = Len(z) + 2 /\ w[1] = b /\ w[2] = e
        BY <1>5a, <2>3
      <3>2. ASSUME NEW i \in 1..Len(z) PROVE w[i + 2] = z[i]
        <4>1. i + 2 \in 1..(Len(x) + Len(z)) /\ ~(i + 2 <= Len(x)) /\ (i + 2) - Len(x) = i
          BY <1>5a, <2>3
        <4> QED BY <1>5a, <4>1
      <3> QED BY <1>5a, <3>1, <3>2
    <2> QED BY <1>2, <1>6, <2>1, <2>4 DEF EscapedIn
  <1>7. CASE c \notin DOMAIN Escape
    <2>1. x = <<c>>
      BY <1>2, <1>7 DEF JsonTok
    <2>2. Len(x) = 1 /\ x[1] = c
      BY <2>1
    <2>3. /\ Len(w) = Len(z) + 1 /\ Len(z) \in Nat /\ w[1] = c
          /\ \A i \in 1..Len(z) : w[i + 1] = z[i]
      <3>1. Len(w) = Len(z) + 1 /\ w[1] = c
        BY <1>5a, <2>2
      <3>2. ASSUME NEW i \in 1..Len(z) PROVE w[i + 1] = z[i]
        <4>1. i + 1 \in 1..(Len(x) + Len(z)) /\ ~(i + 1 <= Len(x)) /\ (i + 1) - Len(x) = i
          BY <1>5a, <2>2
        <4> QED BY <1>5a, <4>1
      <3> QED BY <1>5a, <3>1, <3>2
    <2> QED BY <1>2, <1>7, <2>3 DEF EscapedIn
  <1> QED BY <1>6, <1>7

LEMMA JsonNone == Len(EscapeJson(<<>>)) = 0
  <1>1. PICK e : e = <<>>
    OBVIOUS
  <1>2. e \in Seq({})
    BY <1>1
  <1>3. EscapeJson(e) = e
    BY <1>1, <1>2, EscapeJsonJoined, JoinedNone
  <1> QED BY <1>1, <1>3

(* The first character is written as itself, or as an escape.              *)
LEMMA JsonFirst ==
  ASSUME NEW S, NEW y \in Seq(S), Len(EscapeJson(y)) > 0
  PROVE  /\ Len(y) > 0
         /\ EscapeJson(y)[1] = IF y[1] \in DOMAIN Escape THEN "\\" ELSE y[1]
  <1>1. y # <<>>
    BY JsonNone
  <1>2. PICK c, t : c = y[1] /\ t = Tail(y)
    OBVIOUS
  <1>3. Len(y) > 0 /\ c \in S /\ t \in Seq(S) /\ y = <<c>> \o t
    BY <1>1, <1>2
  <1>4. EscapedIn(c, EscapeJson(t), EscapeJson(y))
    BY <1>3, JsonFront
  <1> QED BY <1>2, <1>3, <1>4 DEF EscapedIn

LEMMA EscapedQuiet ==
  ASSUME NEW S, NEW s \in Seq(S), ~LeavesScript(s)
  PROVE  Quiet(EscapeJson(s))
  <1> DEFINE P == {y \in Seq(S) : ~LeavesScript(y) => Quiet(EscapeJson(y))}
  <1>1. <<>> \in P
    <2>1. <<>> \in Seq(S)
      OBVIOUS
    <2>2. Quiet(EscapeJson(<<>>))
      BY JsonNone DEF Quiet
    <2> QED BY <2>1, <2>2
  <1>2. ASSUME NEW c \in S, NEW y \in Seq(S), y \in P PROVE <<c>> \o y \in P
    <2>1. PICK u, z, w : u = <<c>> \o y /\ z = EscapeJson(y) /\ w = EscapeJson(u)
      OBVIOUS
    <2>2. /\ u \in Seq(S) /\ Len(u) = Len(y) + 1 /\ Len(y) \in Nat /\ u[1] = c
          /\ \A i \in 1..Len(y) : u[i + 1] = y[i]
      BY <2>1
    <2>3. EscapedIn(c, z, w)
      BY <2>1, JsonFront
    <2>4. Len(z) \in Nat
      BY <2>3 DEF EscapedIn
    <2>5. CASE ~LeavesScript(u)
      <3>1. ~LeavesScript(y)
        <4> SUFFICES ASSUME LeavesScript(y) PROVE LeavesScript(u)
          BY <2>5
        <4>1. PICK i \in 1..(Len(y) - 1) :
                /\ y[i] = "<"
                /\ \/ y[i + 1] = "!--"
                   \/ y[i + 1] = "/script" /\ i + 2 <= Len(y) /\ y[i + 2] \in TagEnd \ DOMAIN Escape
          BY DEF LeavesScript
        <4>2. PICK k : k = i + 1
          OBVIOUS
        <4>3. k \in 1..(Len(u) - 1) /\ u[k] = y[i] /\ u[k + 1] = y[i + 1]
          <5>1. /\ i \in 1..Len(y) /\ i + 1 \in 1..Len(y) /\ k = i + 1 /\ k + 1 = (i + 1) + 1
                /\ k \in 1..(Len(u) - 1)
            BY <2>2, <4>2
          <5>2. u[i + 1] = y[i] /\ u[(i + 1) + 1] = y[i + 1]
            BY <2>2, <5>1
          <5> QED BY <5>1, <5>2
        <4>4. i + 2 <= Len(y) => k + 2 <= Len(u) /\ u[k + 2] = y[i + 2]
          <5>1. k + 2 = (i + 2) + 1
            BY <4>2
          <5>2. i + 2 <= Len(y) => k + 2 <= Len(u) /\ i + 2 \in 1..Len(y)
            BY <2>2, <4>2
          <5> QED BY <2>2, <5>1, <5>2
        <4> QED BY <4>1, <4>3, <4>4 DEF LeavesScript
      <3>2. Quiet(z)
        BY <1>2, <2>1, <3>1
      <3>3. CASE c \in DOMAIN Escape
        <4>1. /\ Len(w) = Len(z) + 2 /\ w[1] = "\\" /\ w[2] = Escape[c]
              /\ \A i \in 1..Len(z) : w[i + 2] = z[i]
          BY <2>3, <3>3 DEF EscapedIn
        <4>2. w[2] # "<"
          BY <3>3, <4>1, EscapeTable
        <4>3. ASSUME NEW i \in 1..(Len(w) - 1), w[i] = "<"
              PROVE  /\ w[i + 1] # "!--"
                     /\ ~(w[i + 1] = "/script" /\ i + 2 <= Len(w) /\ w[i + 2] \in TagEnd)
          <5>1. i # 1 /\ i # 2
            BY <4>1, <4>2, <4>3
          <5>2. PICK k : k = i - 2
            OBVIOUS
          <5>3. /\ k \in 1..(Len(z) - 1) /\ i = k + 2 /\ i + 1 = (k + 1) + 2 /\ i + 2 = (k + 2) + 2
                /\ k + 1 \in 1..Len(z) /\ k \in 1..Len(z)
                /\ (i + 2 <= Len(w) => k + 2 <= Len(z) /\ k + 2 \in 1..Len(z))
            BY <2>4, <4>1, <5>1, <5>2
          <5>4. z[k] = "<" /\ w[i + 1] = z[k + 1] /\ (i + 2 <= Len(w) => w[i + 2] = z[k + 2])
            BY <4>1, <4>3, <5>3
          <5> QED BY <3>2, <5>3, <5>4 DEF Quiet
        <4>4. Quiet(w)
          BY <4>3 DEF Quiet
        <4> QED BY <2>1, <2>2, <4>4
      <3>4. CASE c \notin DOMAIN Escape
        <4>1. /\ Len(w) = Len(z) + 1 /\ w[1] = c
              /\ \A i \in 1..Len(z) : w[i + 1] = z[i]
          BY <2>3, <3>4 DEF EscapedIn
        <4>2. ASSUME NEW i \in 1..(Len(w) - 1), w[i] = "<"
              PROVE  /\ w[i + 1] # "!--"
                     /\ ~(w[i + 1] = "/script" /\ i + 2 <= Len(w) /\ w[i + 2] \in TagEnd)
          <5>1. CASE i = 1
            <6>1. Len(z) > 0 /\ 1 \in 1..Len(z)
              BY <2>4, <4>1, <5>1
            <6>2. Len(y) > 0 /\ z[1] = IF y[1] \in DOMAIN Escape THEN "\\" ELSE y[1]
              BY <2>1, <6>1, JsonFirst
            <6>3. c = "<" /\ w[i + 1] = z[1] /\ 1 \in 1..Len(y) /\ 1 \in 1..(Len(u) - 1)
              BY <2>2, <4>1, <4>2, <5>1, <6>1, <6>2
            <6>4. u[1] = "<" /\ u[1 + 1] = y[1]
              BY <2>2, <6>3
            <6>5. w[i + 1] # "!--"
              <7> SUFFICES ASSUME w[i + 1] = "!--" PROVE FALSE
                OBVIOUS
              <7>1. y[1] = "!--"
                BY <6>2, <6>3
              <7> QED BY <2>5, <6>3, <6>4, <7>1 DEF LeavesScript
            <6>6. ASSUME w[i + 1] = "/script", i + 2 <= Len(w), w[i + 2] \in TagEnd PROVE FALSE
              <7>1. y[1] = "/script" /\ y[1] \notin DOMAIN Escape
                BY <6>2, <6>3, <6>6, EscapeTable
              <7>2. PICK d, t, v : d = y[1] /\ t = Tail(y) /\ v = EscapeJson(t)
                OBVIOUS
              <7>3. d \in S /\ t \in Seq(S) /\ y = <<d>> \o t
                BY <6>2, <7>2
              <7>4. EscapedIn(d, v, z)
                BY <2>1, <7>2, <7>3, JsonFront
              <7>5. Len(v) \in Nat /\ Len(z) = Len(v) + 1 /\ \A j \in 1..Len(v) : z[j + 1] = v[j]
                BY <7>1, <7>2, <7>4 DEF EscapedIn
              <7>6. Len(z) >= 2 /\ 2 \in 1..Len(z) /\ w[i + 2] = z[2]
                BY <2>4, <4>1, <5>1, <6>6
              <7>7. Len(v) > 0 /\ 1 \in 1..Len(v) /\ z[2] = v[1]
                BY <7>5, <7>6
              <7>8. Len(t) > 0 /\ v[1] = IF t[1] \in DOMAIN Escape THEN "\\" ELSE t[1]
                BY <7>2, <7>3, <7>7, JsonFirst
              <7>9. "\\" \notin TagEnd
                BY DEF TagEnd
              <7>10. t[1] \in TagEnd \ DOMAIN Escape
                BY <6>6, <7>6, <7>7, <7>8, <7>9
              <7>11. Len(y) >= 2 /\ 2 \in 1..Len(y) /\ y[2] = t[1]
                BY <7>3, <7>8
              <7>12. 1 + 2 <= Len(u) /\ u[1 + 2] = t[1]
                BY <2>2, <7>11
              <7> QED BY <2>5, <6>3, <6>4, <7>1, <7>10, <7>12 DEF LeavesScript
            <6> QED BY <6>5, <6>6
          <5>2. CASE i # 1
            <6>1. PICK k : k = i - 1
              OBVIOUS
            <6>2. /\ k \in 1..(Len(z) - 1) /\ i = k + 1 /\ i + 1 = (k + 1) + 1 /\ i + 2 = (k + 2) + 1
                  /\ k + 1 \in 1..Len(z) /\ k \in 1..Len(z)
                  /\ (i + 2 <= Len(w) => k + 2 <= Len(z) /\ k + 2 \in 1..Len(z))
              BY <2>4, <4>1, <5>2, <6>1
            <6>3. z[k] = "<" /\ w[i + 1] = z[k + 1] /\ (i + 2 <= Len(w) => w[i + 2] = z[k + 2])
              BY <4>1, <4>2, <6>2
            <6> QED BY <3>2, <6>2, <6>3 DEF Quiet
          <5> QED BY <5>1, <5>2
        <4>3. Quiet(w)
          BY <4>2 DEF Quiet
        <4> QED BY <2>1, <2>2, <4>3
      <3> QED BY <3>3, <3>4
    <2> QED BY <2>1, <2>2, <2>5
  <1> HIDE DEF P
  <1>3. \A y \in Seq(S) : y \in P
    BY <1>1, <1>2, ByFront
  <1> QED BY <1>3 DEF P

LEMMA ScriptSurvives ==
  ASSUME NEW S, NEW s \in Seq(S), ~LeavesScript(s)
  PROVE  ScriptValue(EscapeJson(s)) = s
  <1>1. PICK y : y = EscapeJson(s)
    OBVIOUS
  <1>2. Len(y) \in Nat
    <2>1. Joined(JsonTok(S), s) \in Seq(JsonChars(S))
      BY JsonTokType, JoinedType
    <2>2. y \in Seq(JsonChars(S))
      BY <1>1, <2>1, EscapeJsonJoined
    <2> QED BY <2>2
  <1>3. ScriptState(y) = "plain"
    BY <1>1, <1>2, EscapedQuiet, QuietPlain
  <1>4. ScriptValue(y) = LiteralValue(y)
    BY <1>3 DEF ScriptValue
  <1> QED BY <1>1, <1>4, LiteralSurvives

(* What an author types in a field of the form is what the server decodes; *)
(* what html_escape() writes for a text is what the page shows, and what   *)
(* escape_json() writes is the text again in the script of a page if the   *)
(* text does not end the script; and url_decode() leaves alone what is not *)
(* an escape: for every text over any characters.                          *)
THEOREM EveryText ==
  ASSUME NEW S, NEW s \in Seq(S)
  PROVE  TextSurvives(s)
  <1>1. PICK fields : fields = [title |-> s, category |-> s, content |-> s]
    OBVIOUS
  <1>2. fields.title = s /\ fields.category = s /\ fields.content = s
    BY <1>1
  <1>3. /\ GetFormValue(FormBody(fields), "title") = FormEncode(s)
        /\ GetFormValue(FormBody(fields), "category") = FormEncode(s)
        /\ GetFormValue(FormBody(fields), "content") = FormEncode(s)
    BY <1>2, FormFields
  <1>4. UrlDecode(FormEncode(s)) = s
    BY FormSurvives
  <1>5. \A key \in {"title", "category", "content"} : UrlDecode(GetFormValue(FormBody(fields), key)) = s
    BY <1>3, <1>4
  <1>6. HtmlShows(HtmlEscape(s)) = s
    BY HtmlSurvives
  <1>7. ~LeavesScript(s) => ScriptValue(EscapeJson(s)) = s
    BY ScriptSurvives
  <1>8. NoEscape(s) => UrlDecode(s) = s
    BY UrlDecodeStays
  <1> QED BY <1>1, <1>5, <1>6, <1>7, <1>8, Zenon DEF TextSurvives

-----------------------------------------------------------------------------
(* A template's marker filled.                                             *)
FillTok(S, m, v) == [c \in S |-> IF c = m THEN v ELSE <<c>>]

LEMMA FillTokType ==
  ASSUME NEW S, NEW m, NEW v \in Seq(S)
  PROVE  FillTok(S, m, v) \in [S -> Seq(S)]
  <1>1. \A c \in S : (IF c = m THEN v ELSE <<c>>) \in Seq(S)
    OBVIOUS
  <1> QED BY <1>1 DEF FillTok

LEMMA FillJoined ==
  ASSUME NEW S, NEW m, NEW v, NEW s \in Seq(S)
  PROVE  ReplacePlaceholder(s, m, v) = Joined(FillTok(S, m, v), s)
  <1>1. \A i \in DOMAIN s : s[i] \in S
    OBVIOUS
  <1>2. \A i \in DOMAIN s : (IF s[i] = m THEN v ELSE <<s[i]>>) = FillTok(S, m, v)[s[i]]
    BY <1>1 DEF FillTok
  <1>3. [i \in DOMAIN s |-> (IF s[i] = m THEN v ELSE <<s[i]>>)]
        = [i \in DOMAIN s |-> FillTok(S, m, v)[s[i]]]
    BY <1>2, Zenon
  <1> QED BY <1>3 DEF ReplacePlaceholder, MapText, Joined

LEMMA FillType ==
  ASSUME NEW S, NEW m, NEW v \in Seq(S), NEW s \in Seq(S)
  PROVE  ReplacePlaceholder(s, m, v) \in Seq(S)
  <1>1. FillTok(S, m, v) \in [S -> Seq(S)]
    BY FillTokType
  <1>2. Joined(FillTok(S, m, v), s) \in Seq(S)
    BY <1>1, JoinedType
  <1> QED BY <1>2, FillJoined

(* Where the marker is not nothing is filled.                              *)
LEMMA FillNone ==
  ASSUME NEW S, NEW m, m \notin S, NEW v, NEW s \in Seq(S)
  PROVE  ReplacePlaceholder(s, m, v) = s
  <1>1. \A c \in S : FillTok(S, m, v)[c] = <<c>>
    BY DEF FillTok
  <1> HIDE DEF FillTok
  <1>2. Joined(FillTok(S, m, v), s) = s
    BY <1>1, JoinedOnes
  <1> QED BY <1>2, FillJoined

(* The marker alone becomes the value.                                     *)
LEMMA FillOne ==
  ASSUME NEW S, NEW m, NEW v \in Seq(S)
  PROVE  ReplacePlaceholder(<<m>>, m, v) = v
  <1>1. PICK U : U = S \cup {m}
    OBVIOUS
  <1>2. m \in U /\ v \in Seq(U)
    BY <1>1
  <1>3. PICK e : e = <<>>
    OBVIOUS
  <1>4. e \in Seq(U) /\ <<m>> \in Seq(U) /\ <<m>> \o e = <<m>>
    BY <1>2, <1>3
  <1>5. FillTok(U, m, v) \in [U -> Seq(U)]
    BY <1>2, FillTokType
  <1>6. FillTok(U, m, v)[m] = v
    BY <1>2 DEF FillTok
  <1>7. /\ Joined(FillTok(U, m, v), <<m>> \o e) = FillTok(U, m, v)[m] \o Joined(FillTok(U, m, v), e)
        /\ Joined(FillTok(U, m, v), e) \in Seq(U)
    BY <1>2, <1>4, <1>5, JoinedFront
  <1>8. Joined(FillTok(U, m, v), e) = <<>>
    BY <1>3, JoinedNone
  <1>9. v \o <<>> = v
    BY <1>2, ConcatEmptySeq
  <1>10. Joined(FillTok(U, m, v), <<m>>) = v
    BY <1>4, <1>6, <1>7, <1>8, <1>9
  <1> QED BY <1>4, <1>10, FillJoined

(* The characters that html_escape() or escape_json() may write.           *)
HtmlChar == {"&", ";", "amp", "lt", "gt", "quot", "#39"}

LEMMA HtmlFront ==
  ASSUME NEW S, NEW c \in S, NEW t \in Seq(S)
  PROVE  /\ HtmlEscape(<<c>> \o t) = HtmlTok(S)[c] \o HtmlEscape(t)
         /\ HtmlTok(S)[c] \in Seq(HtmlChars(S)) /\ HtmlEscape(t) \in Seq(HtmlChars(S))
  <1>1. HtmlTok(S) \in [S -> Seq(HtmlChars(S))]
    BY HtmlTokType
  <1>2. /\ Joined(HtmlTok(S), <<c>> \o t) = HtmlTok(S)[c] \o Joined(HtmlTok(S), t)
        /\ Joined(HtmlTok(S), t) \in Seq(HtmlChars(S))
    BY <1>1, JoinedFront
  <1>3. <<c>> \o t \in Seq(S)
    OBVIOUS
  <1>4. HtmlEscape(<<c>> \o t) = Joined(HtmlTok(S), <<c>> \o t) /\ HtmlEscape(t) = Joined(HtmlTok(S), t)
    BY <1>3, HtmlEscapeJoined
  <1> QED BY <1>1, <1>2, <1>4

LEMMA HtmlNone == HtmlEscape(<<>>) = <<>>
  <1>1. PICK e : e = <<>>
    OBVIOUS
  <1>2. e \in Seq({})
    BY <1>1
  <1> QED BY <1>1, <1>2, HtmlEscapeJoined, JoinedNone

(* The first character is written as itself, or as an entity.              *)
LEMMA HtmlFirst ==
  ASSUME NEW S, NEW s \in Seq(S), s # <<>>
  PROVE  /\ HtmlEscape(s) \in Seq(HtmlChars(S)) /\ HtmlEscape(s) # <<>>
         /\ HtmlEscape(s)[1] = IF s[1] \in DOMAIN Entity THEN "&" ELSE s[1]
  <1> DEFINE T == HtmlChars(S)
  <1>1. PICK c, t : c = s[1] /\ t = Tail(s)
    OBVIOUS
  <1>2. c \in S /\ t \in Seq(S) /\ s = <<c>> \o t
    BY <1>1
  <1>3. PICK x, y : x = HtmlTok(S)[c] /\ y = HtmlEscape(t)
    OBVIOUS
  <1>4. HtmlEscape(s) = x \o y /\ x \in Seq(T) /\ y \in Seq(T)
    BY <1>2, <1>3, HtmlFront
  <1> HIDE DEF T
  <1>5. x # <<>> /\ x[1] = IF c \in DOMAIN Entity THEN "&" ELSE c
    <2>1. PICK e, a, b : e = Entity[c] /\ a = "&" /\ b = ";"
      OBVIOUS
    <2>2. CASE c \in DOMAIN Entity
      <3>1. x = <<a, e, b>>
        BY <1>2, <1>3, <2>1, <2>2 DEF HtmlTok
      <3>2. x # <<>> /\ x[1] = a
        BY <3>1
      <3> QED BY <2>1, <2>2, <3>2
    <2>3. CASE c \notin DOMAIN Entity
      <3>1. x = <<c>>
        BY <1>2, <1>3, <2>3 DEF HtmlTok
      <3>2. x # <<>> /\ x[1] = c
        BY <3>1
      <3> QED BY <2>3, <3>2
    <2> QED BY <2>2, <2>3
  <1>6. x # <<>>
    BY <1>5
  <1>7. x \o y \in Seq(T) /\ x \o y # <<>> /\ (x \o y)[1] = x[1]
    BY <1>4, <1>6
  <1> QED BY <1>1, <1>4, <1>5, <1>7 DEF T

(* The line break at the start of a text. *)
LEMMA BreakCases ==
  ASSUME NEW S, NEW s \in Seq(S)
  PROVE  \/ BreakLength(s) = 0
         \/ \E t \in Seq(S) : s = <<"\r">> \o (<<"\n">> \o t) /\ BreakLength(s) = 2 /\ "\r" \in S /\ "\n" \in S
         \/ \E t \in Seq(S), c \in {"\r", "\n"} :
              s = <<c>> \o t /\ BreakLength(s) = 1 /\ c \in S
  <1>1. CASE BreakLength(s) = 2
    <2>1. Len(s) > 1 /\ s[1] = "\r" /\ s[2] = "\n"
      BY <1>1 DEF BreakLength
    <2>2. PICK c, d, t : c = s[1] /\ d = s[2] /\ t = Tail(Tail(s))
      OBVIOUS
    <2>3. Len(s) > 1
      BY <2>1
    <2>4. c \in S /\ d \in S /\ Tail(s) \in Seq(S) /\ Tail(s) # <<>> /\ Tail(s)[1] = d /\ s = <<c>> \o Tail(s)
      <3>1. s # <<>> /\ 1 \in 1..Len(s) /\ 2 \in 1..Len(s)
        BY <2>3
      <3>2. c \in S /\ d \in S
        BY <2>2, <3>1
      <3>3. Tail(s) \in Seq(S) /\ Len(Tail(s)) = Len(s) - 1 /\ \A i \in 1..Len(Tail(s)) : Tail(s)[i] = s[i + 1]
        BY <3>1, HeadTailProperties
      <3>4. Len(Tail(s)) > 0 /\ 1 \in 1..Len(Tail(s))
        BY <2>3, <3>3
      <3>5. Tail(s) # <<>>
        <4>1. PICK u : u = Tail(s)
          OBVIOUS
        <4>2. u \in Seq(S) /\ Len(u) > 0
          BY <3>3, <3>4, <4>1
        <4>3. u # <<>>
          BY <4>2
        <4> QED BY <4>1, <4>3
      <3>6. Tail(s)[1] = d
        BY <2>2, <3>3, <3>4
      <3>7. s = <<c>> \o Tail(s)
        BY <2>2, <3>1
      <3> QED BY <3>2, <3>3, <3>5, <3>6, <3>7
    <2>5. t \in Seq(S) /\ Tail(s) = <<d>> \o t
      BY <2>2, <2>4
    <2>6. s = <<c>> \o (<<d>> \o t)
      BY <2>4, <2>5
    <2> QED BY <1>1, <2>1, <2>2, <2>4, <2>5, <2>6, Zenon
  <1>2. CASE BreakLength(s) = 1
    <2>1. Len(s) > 0 /\ s[1] \in {"\r", "\n"}
      BY <1>2 DEF BreakLength
    <2>2. PICK c, t : c = s[1] /\ t = Tail(s)
      OBVIOUS
    <2>3. Len(s) > 0
      BY <2>1
    <2>4. c \in S /\ t \in Seq(S) /\ s = <<c>> \o t
      BY <2>2, <2>3
    <2> QED BY <1>2, <2>1, <2>2, <2>4, Zenon
  <1> QED BY <1>1, <1>2 DEF BreakLength

LEMMA SkipBreakEscaped ==
  ASSUME NEW S, NEW s \in Seq(S)
  PROVE  SkipBreak(HtmlEscape(s)) = HtmlEscape(SkipBreak(s)) /\ SkipBreak(s) \in Seq(S)
  <1> DEFINE T == HtmlChars(S)
  <1>0. HtmlEscape(s) \in Seq(T)
    <2>1. Joined(HtmlTok(S), s) \in Seq(T)
      BY HtmlTokType, JoinedType
    <2> QED BY <2>1, HtmlEscapeJoined
  <1> HIDE DEF T
  <1>1. PICK z : z = HtmlEscape(s)
    OBVIOUS
  <1>2. CASE BreakLength(s) = 0
    <2>1. BreakLength(z) = 0
      <3>1. CASE s = <<>>
        <4>1. z = <<>>
          BY <1>1, <3>1, HtmlNone
        <4>2. ~(Len(z) > 1) /\ ~(Len(z) > 0)
          BY <4>1
        <4> QED BY <4>2, Zenon DEF BreakLength
      <3>2. CASE s # <<>>
        <4>1. Len(s) > 0
          BY <3>2
        <4>2. s[1] \notin {"\r", "\n"}
          <5>1. Len(s) > 1 /\ s[1] = "\r" /\ s[2] = "\n" => BreakLength(s) = 2
            BY DEF BreakLength
          <5>2. Len(s) > 0 /\ s[1] \in {"\r", "\n"} => BreakLength(s) \in {1, 2}
            BY DEF BreakLength
          <5> QED BY <1>2, <4>1, <5>2
        <4>3. z[1] = IF s[1] \in DOMAIN Entity THEN "&" ELSE s[1]
          BY <1>1, <3>2, HtmlFirst
        <4>4. z[1] # "\r" /\ z[1] \notin {"\r", "\n"}
          BY <4>2, <4>3
        <4> QED BY <4>4, Zenon DEF BreakLength
      <3> QED BY <3>1, <3>2
    <2>2. SkipBreak(s) = s /\ SkipBreak(z) = z
      <3>1. SkipBreak(s) = SubSeq(s, 0 + 1, Len(s)) /\ SkipBreak(z) = SubSeq(z, 0 + 1, Len(z))
        BY <1>2, <2>1 DEF SkipBreak
      <3>2. 0 + 1 = 1
        OBVIOUS
      <3>3. SubSeq(s, 1, Len(s)) = s /\ SubSeq(z, 1, Len(z)) = z
        BY <1>0, <1>1, SubSeqFull
      <3> QED BY <3>1, <3>2, <3>3
    <2> QED BY <1>1, <2>2
  <1>3. ASSUME NEW t \in Seq(S), s = <<"\r">> \o (<<"\n">> \o t), BreakLength(s) = 2, "\r" \in S, "\n" \in S
        PROVE  SkipBreak(z) = HtmlEscape(SkipBreak(s)) /\ SkipBreak(s) \in Seq(S)
    <2>1. PICK a, b, u : a = "\r" /\ b = "\n" /\ u = HtmlEscape(t)
      OBVIOUS
    <2>2. HtmlTok(S)[a] = <<a>> /\ HtmlTok(S)[b] = <<b>> /\ a \in S /\ b \in S
      BY <1>3, <2>1 DEF HtmlTok, Entity
    <2>3. <<b>> \o t \in Seq(S) /\ s = <<a>> \o (<<b>> \o t)
      BY <1>3, <2>1, <2>2
    <2>4. z = <<a>> \o (<<b>> \o u) /\ u \in Seq(T) /\ a \in T /\ b \in T
      <3>1. HtmlEscape(<<b>> \o t) = <<b>> \o u /\ u \in Seq(T) /\ <<b>> \in Seq(T)
        <4>1. /\ HtmlEscape(<<b>> \o t) = HtmlTok(S)[b] \o HtmlEscape(t)
              /\ HtmlTok(S)[b] \in Seq(T) /\ HtmlEscape(t) \in Seq(T)
          BY <2>2, HtmlFront DEF T
        <4> QED BY <2>1, <2>2, <4>1
      <3>2. HtmlEscape(<<a>> \o (<<b>> \o t)) = <<a>> \o HtmlEscape(<<b>> \o t) /\ <<a>> \in Seq(T)
        <4>1. /\ HtmlEscape(<<a>> \o (<<b>> \o t)) = HtmlTok(S)[a] \o HtmlEscape(<<b>> \o t)
              /\ HtmlTok(S)[a] \in Seq(T)
          BY <2>2, <2>3, HtmlFront DEF T
        <4> QED BY <2>2, <4>1
      <3>3. a \in T /\ b \in T
        BY <3>1, <3>2
      <3> QED BY <1>1, <2>3, <3>1, <3>2, <3>3
    <2>5. BreakLength(z) = 2
      <3>1. Len(z) > 1 /\ z[1] = a /\ z[2] = b
        BY <2>4
      <3> QED BY <2>1, <3>1, Zenon DEF BreakLength
    <2>6. SkipBreak(s) = SubSeq(s, 2 + 1, Len(s)) /\ SkipBreak(z) = SubSeq(z, 2 + 1, Len(z))
      BY <1>3, <2>5 DEF SkipBreak
    <2>7. s = <<a, b>> \o t /\ z = <<a, b>> \o u
      <3>1. TwoInFront(a, b, t) /\ TwoInFront(a, b, u)
        BY <2>2, <2>4, TwoAhead
      <3> QED BY <2>3, <2>4, <3>1 DEF TwoInFront
    <2>8. SubSeq(s, 2 + 1, Len(s)) = t
      <3>1. <<a, b>> \in Seq(S) /\ Len(<<a, b>>) = 2
        BY <2>2
      <3> QED BY <2>7, <3>1, Dropped
    <2>9. SubSeq(z, 2 + 1, Len(z)) = u
      <3>1. <<a, b>> \in Seq(T) /\ Len(<<a, b>>) = 2
        BY <2>4
      <3> QED BY <2>4, <2>7, <3>1, Dropped
    <2> QED BY <2>1, <2>6, <2>8, <2>9
  <1>4. ASSUME NEW t \in Seq(S), NEW c \in {"\r", "\n"}, s = <<c>> \o t, BreakLength(s) = 1, c \in S
        PROVE  SkipBreak(z) = HtmlEscape(SkipBreak(s)) /\ SkipBreak(s) \in Seq(S)
    <2>1. PICK u : u = HtmlEscape(t)
      OBVIOUS
    <2>2. HtmlTok(S)[c] = <<c>>
      BY <1>4 DEF HtmlTok, Entity
    <2>3. PICK d : d = c
      OBVIOUS
    <2>4. d \in S /\ s = <<d>> \o t
      BY <1>4, <2>3
    <2>5. z = <<d>> \o u /\ u \in Seq(T) /\ <<d>> \in Seq(T)
      <3>1. /\ HtmlEscape(<<d>> \o t) = HtmlTok(S)[d] \o HtmlEscape(t)
            /\ HtmlTok(S)[d] \in Seq(T) /\ HtmlEscape(t) \in Seq(T)
        BY <2>4, HtmlFront DEF T
      <3> QED BY <1>1, <2>1, <2>2, <2>3, <2>4, <3>1
    <2>6. BreakLength(z) = 1
      <3>1. Len(z) > 0 /\ z[1] = d
        BY <2>5
      <3>2. ~(Len(z) > 1 /\ z[1] = "\r" /\ z[2] = "\n")
        <4> SUFFICES ASSUME Len(z) > 1, z[1] = "\r", z[2] = "\n" PROVE FALSE
          OBVIOUS
        <4>1. t # <<>>
          <5>1. CASE t = <<>>
            <6>1. u = <<>>
              BY <2>1, <5>1, HtmlNone
            <6>2. PICK k : k = Len(z)
              OBVIOUS
            <6>3. k = 1
              BY <2>5, <6>1, <6>2
            <6>4. Len(z) = 1
              BY <6>2, <6>3
            <6> QED BY <6>4
          <5> QED BY <5>1
        <4>2. u # <<>> /\ u[1] = IF t[1] \in DOMAIN Entity THEN "&" ELSE t[1]
          BY <2>1, <4>1, HtmlFirst
        <4>3. z[2] = u[1]
          <5>1. u # <<>>
            BY <4>2
          <5> QED BY <2>5, <5>1
        <4>4. t[1] = "\n"
          BY <4>2, <4>3
        <4>5. Len(s) > 1 /\ s[2] = t[1] /\ s[1] = d
          BY <2>4, <4>1
        <4>6. s[1] = "\r"
          BY <3>1, <4>5
        <4>7. BreakLength(s) = 2
          BY <4>4, <4>5, <4>6 DEF BreakLength
        <4> QED BY <1>4, <4>7
      <3>3. z[1] \in {"\r", "\n"}
        BY <1>4, <2>3, <3>1
      <3> QED BY <3>1, <3>2, <3>3, Zenon DEF BreakLength
    <2>7. SkipBreak(s) = SubSeq(s, 1 + 1, Len(s)) /\ SkipBreak(z) = SubSeq(z, 1 + 1, Len(z))
      BY <1>4, <2>6 DEF SkipBreak
    <2>8. SubSeq(s, 1 + 1, Len(s)) = t
      <3>1. <<d>> \in Seq(S) /\ Len(<<d>>) = 1
        BY <2>4
      <3> QED BY <2>4, <3>1, Dropped
    <2>9. SubSeq(z, 1 + 1, Len(z)) = u
      <3>1. Len(<<d>>) = 1
        OBVIOUS
      <3> QED BY <2>5, <3>1, Dropped
    <2> QED BY <2>1, <2>7, <2>8, <2>9
  <1> QED BY <1>1, <1>2, <1>3, <1>4, BreakCases

-----------------------------------------------------------------------------
(* A marker that a text does not hold is not in what is written for it.    *)
LEMMA OwnCharacters ==
  ASSUME NEW S, NEW s \in Seq(S), NEW m, ~Contains(s, m)
  PROVE  \E S2 : s \in Seq(S2) /\ m \notin S2
  <1> DEFINE S2 == {s[i] : i \in 1..Len(s)}
  <1>1. s \in Seq(S2)
    OBVIOUS
  <1>2. m \notin S2
    BY DEF Contains
  <1> QED BY <1>1, <1>2

LEMMA EscapedStays ==
  ASSUME NEW S, NEW s \in Seq(S), NEW m, ~Contains(s, m), m \notin HtmlChar, NEW v
  PROVE  ReplacePlaceholder(HtmlEscape(s), m, v) = HtmlEscape(s)
  <1>1. PICK S2 : s \in Seq(S2) /\ m \notin S2
    BY OwnCharacters
  <1>2. HtmlTok(S2) \in [S2 -> Seq(HtmlChars(S2))]
    BY HtmlTokType
  <1>3. Joined(HtmlTok(S2), s) \in Seq(HtmlChars(S2))
    BY <1>1, <1>2, JoinedType
  <1>4. HtmlEscape(s) \in Seq(HtmlChars(S2))
    BY <1>1, <1>3, HtmlEscapeJoined
  <1>5. m \notin HtmlChars(S2)
    BY <1>1 DEF HtmlChars, HtmlChar
  <1> QED BY <1>4, <1>5, FillNone

JsonChar == {"\"", "\\", "n", "r", "t"}

LEMMA LiteralStays ==
  ASSUME NEW S, NEW s \in Seq(S), NEW m, ~Contains(s, m), m \notin JsonChar, NEW v
  PROVE  ReplacePlaceholder(EscapeJson(s), m, v) = EscapeJson(s)
  <1>1. PICK S2 : s \in Seq(S2) /\ m \notin S2
    BY OwnCharacters
  <1>2. JsonTok(S2) \in [S2 -> Seq(JsonChars(S2))]
    BY JsonTokType
  <1>3. Joined(JsonTok(S2), s) \in Seq(JsonChars(S2))
    BY <1>1, <1>2, JoinedType
  <1>4. EscapeJson(s) \in Seq(JsonChars(S2))
    BY <1>1, <1>3, EscapeJsonJoined
  <1>5. m \notin JsonChars(S2)
    BY <1>1 DEF JsonChars, JsonChar
  <1> QED BY <1>4, <1>5, FillNone

(* No marker is a character that html_escape() or escape_json() writes.    *)
LEMMA MarkerNames ==
  \A m \in DetailMarkers \cup EditorMarkers \cup ListMarkers : m \notin HtmlChar /\ m \notin JsonChar
  BY DEF DetailMarkers, EditorMarkers, ListMarkers, HtmlChar, JsonChar

LEMMA EscapedType ==
  ASSUME NEW S, NEW s \in Seq(S)
  PROVE  HtmlEscape(s) \in Seq(HtmlChars(S)) /\ EscapeJson(s) \in Seq(JsonChars(S))
  <1>1. HtmlTok(S) \in [S -> Seq(HtmlChars(S))] /\ JsonTok(S) \in [S -> Seq(JsonChars(S))]
    BY HtmlTokType, JsonTokType
  <1>2. Joined(HtmlTok(S), s) \in Seq(HtmlChars(S))
    BY <1>1, JoinedType
  <1>3. Joined(JsonTok(S), s) \in Seq(JsonChars(S))
    BY <1>1, JoinedType
  <1> QED BY <1>2, <1>3, HtmlEscapeJoined, EscapeJsonJoined

(* A page's place that is another marker is not touched.                   *)
LEMMA OtherMarker ==
  ASSUME NEW m, NEW k, m # k, NEW v
  PROVE  ReplacePlaceholder(<<k>>, m, v) = <<k>>
  <1>1. PICK S : S = {k}
    OBVIOUS
  <1>2. <<k>> \in Seq(S) /\ m \notin S
    BY <1>1
  <1> QED BY <1>2, FillNone

-----------------------------------------------------------------------------
(* The reader's page shows the row, from the template or in its stead.     *)
LEMMA DetailShows ==
  ASSUME NEW S, NEW row, row.title \in Seq(S), row.category \in Seq(S), row.content \in Seq(S),
         NEW found \in BOOLEAN
  PROVE  ReaderGets(row, DetailPage(row, found))
  <1> SUFFICES ASSUME Free(row, DetailMarkers)
               PROVE  /\ DetailPage(row, found).title = row.title
                      /\ "category" \in DOMAIN DetailPage(row, found) =>
                           DetailPage(row, found).category = row.category
                      /\ \/ DetailPage(row, found).content \in {row.content, SkipBreak(row.content)}
                         \/ LeavesScript(row.content)
    BY DEF ReaderGets
  <1>1. PICK s, r, t : s = row.title /\ r = row.category /\ t = row.content
    OBVIOUS
  <1>2. s \in Seq(S) /\ r \in Seq(S) /\ t \in Seq(S)
    BY <1>1
  <1>3. PICK T, C, D, K, I, d, i :
          /\ T = "{{TITLE}}" /\ C = "{{CONTENT_JSON}}" /\ D = "{{DATE}}"
          /\ K = "{{CATEGORY}}" /\ I = "{{ID}}" /\ d = <<"date">> /\ i = <<"id">>
    OBVIOUS
  <1>4. PICK x, z, y : x = HtmlEscape(s) /\ z = HtmlEscape(r) /\ y = EscapeJson(t)
    OBVIOUS
  <1>5. HtmlShows(x) = s /\ HtmlShows(z) = r /\ (ScriptValue(y) = t \/ LeavesScript(t))
    BY <1>2, <1>4, HtmlSurvives, ScriptSurvives
  <1>6. CASE found = TRUE
    <2>1. DetailPage(row, found)
          = [title |-> HtmlShows(ReplacePlaceholder(ReplacePlaceholder(ReplacePlaceholder(
                         ReplacePlaceholder(ReplacePlaceholder(<<T>>, T, x), C, y), D, d), K, z), I, i)),
             category |-> HtmlShows(ReplacePlaceholder(ReplacePlaceholder(ReplacePlaceholder(
                         ReplacePlaceholder(ReplacePlaceholder(<<K>>, T, x), C, y), D, d), K, z), I, i)),
             content |-> ScriptValue(ReplacePlaceholder(ReplacePlaceholder(ReplacePlaceholder(
                         ReplacePlaceholder(ReplacePlaceholder(<<C>>, T, x), C, y), D, d), K, z), I, i))]
      BY <1>1, <1>3, <1>4, <1>6, Zenon DEF DetailPage, Fill
    <2>2. \A m \in {C, D, K, I} : /\ ~Contains(s, m) /\ ~Contains(r, m) /\ ~Contains(t, m)
                                  /\ m \notin HtmlChar /\ m \notin JsonChar
      BY <1>1, <1>3, MarkerNames DEF Free, DetailMarkers
    <2>3. ReplacePlaceholder(<<T>>, T, x) = x
      BY <1>2, <1>4, EscapedType, FillOne
    <2>4. \A m \in {C, D, K, I} : \A v : ReplacePlaceholder(x, m, v) = x
      BY <1>2, <1>4, <2>2, EscapedStays
    <2>5. /\ ReplacePlaceholder(<<C>>, T, x) = <<C>>
          /\ ReplacePlaceholder(<<K>>, T, x) = <<K>>
          /\ ReplacePlaceholder(<<K>>, C, y) = <<K>>
          /\ ReplacePlaceholder(<<K>>, D, d) = <<K>>
      BY <1>3, OtherMarker
    <2>6. ReplacePlaceholder(<<C>>, C, y) = y
      BY <1>2, <1>4, EscapedType, FillOne
    <2>7. ReplacePlaceholder(<<K>>, K, z) = z
      BY <1>2, <1>4, EscapedType, FillOne
    <2>8. \A m \in {C, D, K, I} : \A v : ReplacePlaceholder(y, m, v) = y
      BY <1>2, <1>4, <2>2, LiteralStays
    <2>9. \A m \in {C, D, K, I} : \A v : ReplacePlaceholder(z, m, v) = z
      BY <1>2, <1>4, <2>2, EscapedStays
    <2>10. DetailPage(row, found) = [title |-> HtmlShows(x), category |-> HtmlShows(z),
                                     content |-> ScriptValue(y)]
      BY <2>1, <2>3, <2>4, <2>5, <2>6, <2>7, <2>8, <2>9
    <2> QED BY <1>1, <1>5, <2>10
  <1>7. CASE found = FALSE
    <2>1. DetailPage(row, found) = [title |-> HtmlShows(x), content |-> BlockShows(HtmlEscape(t))]
      BY <1>1, <1>4, <1>7, Zenon DEF DetailPage
    <2>2. SkipBreak(HtmlEscape(t)) = HtmlEscape(SkipBreak(t)) /\ SkipBreak(t) \in Seq(S)
      BY <1>2, SkipBreakEscaped
    <2>3. HtmlShows(HtmlEscape(SkipBreak(t))) = SkipBreak(t)
      BY <2>2, HtmlSurvives
    <2>4. BlockShows(HtmlEscape(t)) = SkipBreak(t)
      BY <2>2, <2>3 DEF BlockShows
    <2> QED BY <1>1, <1>5, <2>1, <2>4
  <1> QED BY <1>6, <1>7

(* The places of the editor's page, filled.                                *)
EditTitle(row) ==
  ReplacePlaceholder(ReplacePlaceholder(ReplacePlaceholder(ReplacePlaceholder(
    HtmlEscape(row.title), "{{CONTENT_VALUE}}", HtmlEscape(row.content)),
    "{{CATEGORY_VALUE}}", HtmlEscape(row.category)), "{{ID}}", <<"id">>), "{{DELETE_HTML}}", DeleteForm)

EditCategory(row) ==
  ReplacePlaceholder(ReplacePlaceholder(
    HtmlEscape(row.category), "{{ID}}", <<"id">>), "{{DELETE_HTML}}", DeleteForm)

EditContent(row) ==
  ReplacePlaceholder(ReplacePlaceholder(ReplacePlaceholder(
    HtmlEscape(row.content), "{{CATEGORY_VALUE}}", HtmlEscape(row.category)),
    "{{ID}}", <<"id">>), "{{DELETE_HTML}}", DeleteForm)

LEMMA EditorPlaces ==
  ASSUME NEW S, NEW row, row.title \in Seq(S), row.category \in Seq(S), row.content \in Seq(S)
  PROVE  EditorPage(row) = [title |-> HtmlShows(EditTitle(row)),
                            category |-> HtmlShows(EditCategory(row)),
                            content |-> BlockShows(EditContent(row))]
  <1>1. PICK T, C, K, I, D, i, d :
          /\ T = "{{TITLE_VALUE}}" /\ C = "{{CONTENT_VALUE}}" /\ K = "{{CATEGORY_VALUE}}"
          /\ I = "{{ID}}" /\ D = "{{DELETE_HTML}}" /\ i = <<"id">> /\ d = DeleteForm
    OBVIOUS
  <1>2. PICK x, z, y :
          x = HtmlEscape(row.title) /\ z = HtmlEscape(row.category) /\ y = HtmlEscape(row.content)
    OBVIOUS
  <1>3. EditorPage(row)
        = [title |-> HtmlShows(ReplacePlaceholder(ReplacePlaceholder(ReplacePlaceholder(
                       ReplacePlaceholder(ReplacePlaceholder(<<T>>, T, x), C, y), K, z), I, i), D, d)),
           category |-> HtmlShows(ReplacePlaceholder(ReplacePlaceholder(ReplacePlaceholder(
                       ReplacePlaceholder(ReplacePlaceholder(<<K>>, T, x), C, y), K, z), I, i), D, d)),
           content |-> BlockShows(ReplacePlaceholder(ReplacePlaceholder(ReplacePlaceholder(
                       ReplacePlaceholder(ReplacePlaceholder(<<C>>, T, x), C, y), K, z), I, i), D, d))]
    BY <1>1, <1>2, Zenon DEF EditorPage, Fill
  <1>4. /\ ReplacePlaceholder(<<T>>, T, x) = x
        /\ ReplacePlaceholder(<<C>>, C, y) = y
        /\ ReplacePlaceholder(<<K>>, K, z) = z
    BY <1>2, EscapedType, FillOne
  <1>5. /\ ReplacePlaceholder(<<C>>, T, x) = <<C>>
        /\ ReplacePlaceholder(<<K>>, T, x) = <<K>>
        /\ ReplacePlaceholder(<<K>>, C, y) = <<K>>
    BY <1>1, OtherMarker
  <1>6. /\ EditTitle(row) = ReplacePlaceholder(ReplacePlaceholder(ReplacePlaceholder(
                              ReplacePlaceholder(x, C, y), K, z), I, i), D, d)
        /\ EditCategory(row) = ReplacePlaceholder(ReplacePlaceholder(z, I, i), D, d)
        /\ EditContent(row) = ReplacePlaceholder(ReplacePlaceholder(
                                ReplacePlaceholder(y, K, z), I, i), D, d)
    BY <1>1, <1>2, Zenon DEF EditTitle, EditCategory, EditContent
  <1> QED BY <1>3, <1>4, <1>5, <1>6

(* Without one of its markers in the row the editor shows the row.         *)
LEMMA EditorShows ==
  ASSUME NEW S, NEW row, row.title \in Seq(S), row.category \in Seq(S), row.content \in Seq(S)
  PROVE  EditorGets(row, EditorPage(row))
  <1> SUFFICES ASSUME Free(row, EditorMarkers)
               PROVE  EditorPage(row) = [title |-> row.title, category |-> row.category,
                                         content |-> SkipBreak(row.content)]
    BY DEF EditorGets
  <1>1. PICK C, K, I, D, i, d :
          /\ C = "{{CONTENT_VALUE}}" /\ K = "{{CATEGORY_VALUE}}"
          /\ I = "{{ID}}" /\ D = "{{DELETE_HTML}}" /\ i = <<"id">> /\ d = DeleteForm
    OBVIOUS
  <1>2. PICK s, r, t : s = row.title /\ r = row.category /\ t = row.content
    OBVIOUS
  <1>3. s \in Seq(S) /\ r \in Seq(S) /\ t \in Seq(S)
    BY <1>2
  <1>4. PICK x, z, y : x = HtmlEscape(s) /\ z = HtmlEscape(r) /\ y = HtmlEscape(t)
    OBVIOUS
  <1>5. \A m \in {C, K, I, D} : /\ ~Contains(s, m) /\ ~Contains(r, m) /\ ~Contains(t, m)
                                /\ m \notin HtmlChar
    BY <1>1, <1>2, MarkerNames DEF Free, EditorMarkers
  <1>6. \A m \in {C, K, I, D} : \A v : /\ ReplacePlaceholder(x, m, v) = x
                                       /\ ReplacePlaceholder(z, m, v) = z
                                       /\ ReplacePlaceholder(y, m, v) = y
    BY <1>3, <1>4, <1>5, EscapedStays
  <1>7. EditTitle(row) = x /\ EditCategory(row) = z /\ EditContent(row) = y
    <2>1. /\ EditTitle(row) = ReplacePlaceholder(ReplacePlaceholder(ReplacePlaceholder(
                                ReplacePlaceholder(x, C, y), K, z), I, i), D, d)
          /\ EditCategory(row) = ReplacePlaceholder(ReplacePlaceholder(z, I, i), D, d)
          /\ EditContent(row) = ReplacePlaceholder(ReplacePlaceholder(
                                  ReplacePlaceholder(y, K, z), I, i), D, d)
      BY <1>1, <1>2, <1>4, Zenon DEF EditTitle, EditCategory, EditContent
    <2> QED BY <1>6, <2>1
  <1>8. HtmlShows(x) = s /\ HtmlShows(z) = r
    BY <1>3, <1>4, HtmlSurvives
  <1>9. BlockShows(y) = SkipBreak(t)
    <2>1. SkipBreak(HtmlEscape(t)) = HtmlEscape(SkipBreak(t)) /\ SkipBreak(t) \in Seq(S)
      BY <1>3, SkipBreakEscaped
    <2>2. HtmlShows(HtmlEscape(SkipBreak(t))) = SkipBreak(t)
      BY <2>1, HtmlSurvives
    <2> QED BY <1>4, <2>1, <2>2 DEF BlockShows
  <1> QED BY <1>2, <1>7, <1>8, <1>9, EditorPlaces

(* An article in the list, from the template or in the page in its stead.  *)
ItemTold(id, row, found) ==
  ListItem(id, row, found).id = id /\ ListGets(row, ListItem(id, row, found))

LEMMA ListItemShows ==
  ASSUME NEW S, NEW id, NEW row, row.title \in Seq(S), row.category \in Seq(S), NEW found \in BOOLEAN
  PROVE  ItemTold(id, row, found)
  <1>1. PICK m, v : m = "{{ARTICLES}}" /\ v = <<"<", "items">>
    OBVIOUS
  <1>2. ListItem(id, row, found)
        = [id |-> id,
           title |-> HtmlShows(IF found THEN HtmlEscape(row.title)
                               ELSE ReplacePlaceholder(HtmlEscape(row.title), m, v)),
           category |-> HtmlShows(IF found THEN HtmlEscape(row.category)
                                  ELSE ReplacePlaceholder(HtmlEscape(row.category), m, v))]
    BY <1>1, Zenon DEF ListItem
  <1>3. ASSUME NEW x \in Seq(S), ~Contains(x, m)
        PROVE  HtmlShows(IF found THEN HtmlEscape(x) ELSE ReplacePlaceholder(HtmlEscape(x), m, v)) = x
    <2>1. m \notin HtmlChar
      BY <1>1, MarkerNames DEF ListMarkers
    <2>2. ReplacePlaceholder(HtmlEscape(x), m, v) = HtmlEscape(x)
      BY <1>3, <2>1, EscapedStays
    <2>3. HtmlShows(HtmlEscape(x)) = x
      BY HtmlSurvives
    <2> QED BY <2>2, <2>3
  <1>4. Free(row, ListMarkers) => ~Contains(row.title, m) /\ ~Contains(row.category, m)
    BY <1>1 DEF Free, ListMarkers
  <1> QED BY <1>2, <1>3, <1>4 DEF ItemTold, ListGets

-----------------------------------------------------------------------------
(* The list's order: every row once, the newest first.                     *)
Descends(s, ids) == Range(s) = ids /\ \A j, k \in DOMAIN s : j < k => s[j] > s[k]

LEMMA NewestFirstIs ==
  ASSUME NEW ids, ids \subseteq Id
  PROVE  NewestFirst(ids) \in SeqOf(ids, MaxId) /\ Descends(NewestFirst(ids), ids)
  <1>0. MaxId \in Nat /\ Id = 1..MaxId
    BY BlogAssumption DEF Id
  <1>00. \A i \in ids : i \in Nat /\ 1 <= i /\ i <= MaxId
    BY <1>0
  <1> DEFINE low(m) == {i \in ids : i <= m}
             ordered(n, m, s) == s \in [1..n -> ids] /\ Descends(s, low(m))
             bad == {m \in Nat : m <= MaxId /\ ~ \E n \in 0..m : \E s : ordered(n, m, s)}
  <1>1. ASSUME bad # {} PROVE FALSE
    <2>1. PICK m \in bad : \A k \in bad : m <= k
      <3>1. bad \in SUBSET Nat
        OBVIOUS
      <3> HIDE DEF bad
      <3> QED BY <1>1, <3>1, MinOfNat
    <2>2. m \in Nat /\ m <= MaxId /\ ~ \E n \in 0..m : \E s : ordered(n, m, s)
      OBVIOUS
    <2>3. m # 0
      <3>1. low(0) = {}
        <4>1. \A i \in ids : ~(i <= 0)
          BY <1>00
        <4> QED BY <4>1, Zenon
      <3>2. <<>> \in [1..0 -> ids]
        OBVIOUS
      <3>3. DOMAIN <<>> = {}
        OBVIOUS
      <3>4. Descends(<<>>, low(0))
        <4> HIDE DEF low
        <4> QED BY <3>1, <3>3, Zenon DEF Descends, Range
      <3>5. 0 \in 0..0
        OBVIOUS
      <3>6. ordered(0, 0, <<>>)
        BY <3>2, <3>4
      <3> HIDE DEF ordered
      <3> QED BY <2>2, <3>5, <3>6
    <2>4. PICK n \in 0..(m - 1) : \E s : ordered(n, m - 1, s)
      <3>1. m - 1 \in Nat /\ m - 1 <= MaxId /\ ~(m <= m - 1)
        BY <1>0, <2>2, <2>3
      <3> HIDE DEF ordered
      <3>2. m - 1 \notin bad
        <4> HIDE DEF bad
        <4> QED BY <2>1, <3>1
      <3> QED BY <3>1, <3>2
    <2>11. PICK s : ordered(n, m - 1, s)
      BY <2>4
    <2>5. /\ s \in [1..n -> ids] /\ Range(s) = low(m - 1)
          /\ \A j, k \in 1..n : j < k => s[j] > s[k]
      BY <2>11 DEF Descends
    <2>6. \A i \in 1..n : s[i] \in low(m - 1)
      <3> HIDE DEF low
      <3> QED BY <2>5 DEF Range
    <2>7. \A x \in low(m - 1) : \E i \in 1..n : s[i] = x
      <3> HIDE DEF low
      <3> QED BY <2>5 DEF Range
    <2>8. n \in Nat /\ n <= m - 1
      BY <2>2, <2>3
    <2>9. CASE m \notin ids
      <3>1. low(m) = low(m - 1)
        <4>1. \A i \in ids : i <= m <=> i <= m - 1
          <5> SUFFICES ASSUME NEW i \in ids PROVE i <= m <=> i <= m - 1
            OBVIOUS
          <5>1. i \in Nat /\ i # m
            BY <1>00, <2>9
          <5> QED BY <2>2, <5>1
        <4> QED BY <4>1, Zenon
      <3>2. ordered(n, m, s)
        BY <2>11, <3>1
      <3>3. n \in 0..m
        BY <2>2, <2>8
      <3> HIDE DEF ordered
      <3> QED BY <2>2, <3>2, <3>3
    <2>10. CASE m \in ids
      <3> DEFINE t == [i \in 1..(n + 1) |-> IF i = 1 THEN m ELSE s[i - 1]]
      <3>1. \A i \in 1..(n + 1) : i # 1 => i - 1 \in 1..n
        BY <2>8
      <3>2. \A i \in 1..(n + 1) : t[i] = IF i = 1 THEN m ELSE s[i - 1]
        OBVIOUS
      <3>3. t \in [1..(n + 1) -> ids]
        BY <2>5, <2>10, <3>1
      <3> HIDE DEF t
      <3>4. Range(t) = low(m)
        <4>1. ASSUME NEW i \in 1..(n + 1) PROVE t[i] \in low(m)
          <5>1. CASE i = 1
            BY <2>2, <2>10, <3>2, <5>1
          <5>2. CASE i # 1
            <6>1. t[i] \in low(m - 1)
              BY <2>6, <3>1, <3>2, <5>2
            <6>2. t[i] \in ids /\ t[i] <= m - 1
              BY <6>1
            <6>3. t[i] \in Nat
              BY <1>00, <6>2
            <6>4. t[i] <= m
              BY <2>2, <6>2, <6>3
            <6> QED BY <6>2, <6>4
          <5> QED BY <5>1, <5>2
        <4>2. ASSUME NEW x \in low(m) PROVE \E i \in 1..(n + 1) : t[i] = x
          <5>1. CASE x = m
            <6>1. 1 \in 1..(n + 1)
              BY <2>8
            <6> QED BY <3>2, <5>1, <6>1
          <5>2. CASE x # m
            <6>1. x \in low(m - 1)
              BY <1>0, <2>2, <5>2
            <6>2. PICK i \in 1..n : s[i] = x
              BY <2>7, <6>1
            <6>3. i + 1 \in 1..(n + 1) /\ i + 1 # 1 /\ (i + 1) - 1 = i
              BY <2>8
            <6>4. t[i + 1] = x
              BY <3>2, <6>2, <6>3
            <6> QED BY <6>3, <6>4
          <5> QED BY <5>1, <5>2
        <4> HIDE DEF low
        <4> QED BY <3>3, <4>1, <4>2 DEF Range
      <3>5. ASSUME NEW j \in 1..(n + 1), NEW k \in 1..(n + 1), j < k PROVE t[j] > t[k]
        <4>1. k # 1 /\ k - 1 \in 1..n
          BY <2>8, <3>5
        <4>2. t[k] = s[k - 1] /\ s[k - 1] \in low(m - 1)
          BY <2>6, <3>2, <4>1
        <4>3. CASE j = 1
          <5>1. t[j] = m
            BY <3>2, <4>3
          <5>2. s[k - 1] \in ids /\ s[k - 1] <= m - 1
            BY <4>2
          <5>3. s[k - 1] \in Nat
            BY <1>00, <5>2
          <5>4. m > s[k - 1]
            BY <2>2, <5>2, <5>3
          <5> QED BY <4>2, <5>1, <5>4
        <4>4. CASE j # 1
          <5>1. j - 1 \in 1..n /\ j - 1 < k - 1
            BY <2>8, <3>5, <4>4
          <5>2. t[j] = s[j - 1]
            BY <3>2, <4>4
          <5>3. s[j - 1] > s[k - 1]
            BY <2>5, <4>1, <5>1
          <5> QED BY <4>2, <5>2, <5>3
        <4> QED BY <4>3, <4>4
      <3>6. DOMAIN t = 1..(n + 1)
        BY <3>3
      <3>7. Descends(t, low(m))
        <4> HIDE DEF low
        <4> QED BY <3>4, <3>5, <3>6 DEF Descends
      <3>8. n + 1 \in 0..m
        BY <2>2, <2>8
      <3>9. ordered(n + 1, m, t)
        BY <3>3, <3>7
      <3> HIDE DEF ordered
      <3> QED BY <2>2, <3>8, <3>9
    <2> QED BY <2>9, <2>10
  <1>2. MaxId \notin bad
    BY <1>1
  <1>7. PICK n \in 0..MaxId : \E s : ordered(n, MaxId, s)
    <2> HIDE DEF ordered
    <2> QED BY <1>0, <1>2
  <1>3. PICK s : ordered(n, MaxId, s)
    BY <1>7
  <1>4. low(MaxId) = ids
    BY <1>0, <1>00
  <1>5. s \in SeqOf(ids, MaxId) /\ Descends(s, ids)
    <2>1. s \in [1..n -> ids] /\ Descends(s, ids)
      BY <1>3, <1>4
    <2> QED BY <2>1 DEF SeqOf
  <1>6. NewestFirst(ids) = CHOOSE z \in SeqOf(ids, MaxId) : Descends(z, ids)
    BY DEF NewestFirst, Descends
  <1> QED BY <1>5, <1>6

-----------------------------------------------------------------------------
(* What titles, categories and contents can be: what the editor shows is   *)
(* saved, with what it filled in.                                          *)
TextChar == Char \cup HtmlChar \cup DOMAIN Entity \cup {"broken", "id", "form"}
Text == Seq(TextChar)
Texts == [title : Text, category : Text, content : Text]

LEMMA HtmlShowsType ==
  ASSUME NEW S, DOMAIN Entity \subseteq S, "broken" \in S, NEW s \in Seq(S)
  PROVE  HtmlShows(s) \in Seq(S)
  <1>1. /\ Len(s) \in Nat /\ \A i \in 1..Len(s) : HtmlNext(s)[i] \in (i + 1)..(Len(s) + 3)
        /\ \E f : Scans(f, Len(s), Len(s) + 3, HtmlHead(s), HtmlNext(s)) /\ HtmlShows(s) = f[1]
    BY HtmlScan
  <1>2. ASSUME NEW i \in 1..Len(s) PROVE HtmlHead(s)[i] \in Seq(S)
    <2>1. s[i] \in S
      OBVIOUS
    <2>2. CASE EntityAt(s, i)
      <3>1. \E c \in DOMAIN Entity : Entity[c] = s[i + 1]
        BY <2>2 DEF EntityAt
      <3>2. PICK c : c = EntityChar(s[i + 1])
        OBVIOUS
      <3>3. c \in DOMAIN Entity
        BY <3>1, <3>2 DEF EntityChar
      <3>4. HtmlHead(s)[i] = <<c>>
        BY <2>2, <3>2 DEF HtmlHead
      <3>5. c \in S
        BY <3>3
      <3> QED BY <3>4, <3>5
    <2>3. CASE ~EntityAt(s, i) /\ s[i] \in {"\"", "<"}
      <3>1. PICK b : b = "broken"
        OBVIOUS
      <3>2. HtmlHead(s)[i] = <<b>> /\ b \in S
        BY <2>3, <3>1 DEF HtmlHead
      <3> QED BY <3>2
    <2>4. CASE ~EntityAt(s, i) /\ s[i] \notin {"\"", "<"}
      <3>1. PICK c : c = s[i]
        OBVIOUS
      <3>2. HtmlHead(s)[i] = <<c>> /\ c \in S
        BY <2>1, <2>4, <3>1 DEF HtmlHead
      <3> QED BY <3>2
    <2> QED BY <2>2, <2>3, <2>4
  <1>3. PICK f : Scans(f, Len(s), Len(s) + 3, HtmlHead(s), HtmlNext(s)) /\ HtmlShows(s) = f[1]
    BY <1>1
  <1>4. PICK n, last, head, next :
          n = Len(s) /\ last = Len(s) + 3 /\ head = HtmlHead(s) /\ next = HtmlNext(s)
    OBVIOUS
  <1>5. n \in Nat /\ last \in Nat /\ n < last
    BY <1>1, <1>4
  <1>6. Scans(f, n, last, head, next)
    BY <1>3, <1>4
  <1>7. \A i \in 1..n : next[i] \in (i + 1)..last /\ head[i] \in Seq(S)
    BY <1>1, <1>2, <1>4
  <1>8. f[1] \in Seq(S)
    BY <1>5, <1>6, <1>7, ScanType
  <1> QED BY <1>3, <1>8

LEMMA SkipBreakType ==
  ASSUME NEW S, NEW s \in Seq(S)
  PROVE  SkipBreak(s) \in Seq(S)
  BY SkipBreakEscaped

LEMMA TextCharKnown ==
  /\ DOMAIN Entity \subseteq TextChar /\ "broken" \in TextChar
  /\ <<"id">> \in Text /\ DeleteForm \in Text
  <1>1. DOMAIN Entity \subseteq TextChar /\ "broken" \in TextChar
    BY DEF TextChar
  <1>2. PICK a, b, c, d, e, S :
          a = "<" /\ b = "form" /\ c = "\"" /\ d = "id" /\ e = ">" /\ S = TextChar
    OBVIOUS
  <1>3. a \in S /\ b \in S /\ c \in S /\ d \in S /\ e \in S
    BY <1>2, EntityTable DEF TextChar
  <1>4. <<d>> \in Seq(S) /\ <<a, b, c, d, c, e>> \in Seq(S)
    BY <1>3
  <1> QED BY <1>1, <1>2, <1>4 DEF DeleteForm, Text

LEMMA EscapedText ==
  ASSUME NEW s \in Text
  PROVE  HtmlEscape(s) \in Text
  <1>1. HtmlEscape(s) \in Seq(HtmlChars(TextChar))
    BY EscapedType DEF Text
  <1>2. HtmlChars(TextChar) \subseteq TextChar
    BY DEF HtmlChars, HtmlChar, TextChar
  <1>3. PICK S, U : S = HtmlChars(TextChar) /\ U = TextChar
    OBVIOUS
  <1>4. S \subseteq U /\ HtmlEscape(s) \in Seq(S)
    BY <1>1, <1>2, <1>3
  <1>5. HtmlEscape(s) \in Seq(U)
    BY <1>4
  <1> QED BY <1>3, <1>5 DEF Text

LEMMA FilledText ==
  ASSUME NEW s \in Text, NEW m, NEW v \in Text
  PROVE  ReplacePlaceholder(s, m, v) \in Text
  BY FillType DEF Text

LEMMA EditorTyped ==
  ASSUME NEW row \in Texts
  PROVE  EditorPage(row) \in Texts
  <1>1. PICK C, K, I, D, i, d :
          /\ C = "{{CONTENT_VALUE}}" /\ K = "{{CATEGORY_VALUE}}"
          /\ I = "{{ID}}" /\ D = "{{DELETE_HTML}}" /\ i = <<"id">> /\ d = DeleteForm
    OBVIOUS
  <1>2. row.title \in Text /\ row.category \in Text /\ row.content \in Text
    BY DEF Texts
  <1>3. PICK x, z, y :
          x = HtmlEscape(row.title) /\ z = HtmlEscape(row.category) /\ y = HtmlEscape(row.content)
    OBVIOUS
  <1>4. x \in Text /\ z \in Text /\ y \in Text /\ i \in Text /\ d \in Text
    BY <1>1, <1>2, <1>3, EscapedText, TextCharKnown
  <1>5. PICK x1, x2, x3, z1, y1, y2 :
          /\ x1 = ReplacePlaceholder(x, C, y)
          /\ x2 = ReplacePlaceholder(x1, K, z)
          /\ x3 = ReplacePlaceholder(x2, I, i)
          /\ z1 = ReplacePlaceholder(z, I, i)
          /\ y1 = ReplacePlaceholder(y, K, z)
          /\ y2 = ReplacePlaceholder(y1, I, i)
    OBVIOUS
  <1>6. x1 \in Text /\ z1 \in Text /\ y1 \in Text
    BY <1>4, <1>5, FilledText
  <1>7. x2 \in Text /\ y2 \in Text
    BY <1>4, <1>5, <1>6, FilledText
  <1>8. x3 \in Text
    BY <1>4, <1>5, <1>7, FilledText
  <1>9. /\ EditTitle(row) = ReplacePlaceholder(x3, D, d)
        /\ EditCategory(row) = ReplacePlaceholder(z1, D, d)
        /\ EditContent(row) = ReplacePlaceholder(y2, D, d)
    BY <1>1, <1>3, <1>5, Zenon DEF EditTitle, EditCategory, EditContent
  <1>10. EditTitle(row) \in Text /\ EditCategory(row) \in Text /\ EditContent(row) \in Text
    BY <1>4, <1>6, <1>7, <1>8, <1>9, FilledText
  <1>11. \A s \in Text : HtmlShows(s) \in Text /\ SkipBreak(s) \in Text
    BY TextCharKnown, HtmlShowsType, SkipBreakType DEF Text
  <1>12. EditorPage(row) = [title |-> HtmlShows(EditTitle(row)),
                            category |-> HtmlShows(EditCategory(row)),
                            content |-> BlockShows(EditContent(row))]
    <2>1. row.title \in Seq(TextChar) /\ row.category \in Seq(TextChar) /\ row.content \in Seq(TextChar)
      BY <1>2 DEF Text
    <2> QED BY <2>1, EditorPlaces
  <1> QED BY <1>10, <1>11, <1>12 DEF Texts, BlockShows

(* The handler has a text to store and a row to look for, and answers once. *)
RequestTexts ==
  pc # "idle" =>
    /\ req.op \in {"create", "update"} => req.fields \in Texts
    /\ req.op \in {"detail", "edit", "update", "delete"} => req.id \in Id
    /\ req.op = "create" => nextId \in Id

PageOK ==
  /\ pc # "idle" => page.kind = "none"
  /\ page.kind = "editor" => page.id \in Id /\ page.fields \in Texts

(* The table has what was typed: what a form's two encodings give back.    *)
RowsOK ==
  \A i \in Id : articles[i] = typed[i] /\ (articles[i] # NoRow => articles[i] \in Texts)

Told == RequestTexts /\ PageOK /\ RowsOK /\ AnswerIsTrue /\ ShowsTheText

Decodes(fields) == Row(fields) = fields

LEMMA RowIsFields ==
  ASSUME NEW S, NEW fields \in [title : Seq(S), category : Seq(S), content : Seq(S)]
  PROVE  Decodes(fields)
  <1>1. PICK s, r, t : s = fields.title /\ r = fields.category /\ t = fields.content
    OBVIOUS
  <1>2. s \in Seq(S) /\ r \in Seq(S) /\ t \in Seq(S)
    BY <1>1
  <1>3. fields = [title |-> s, category |-> r, content |-> t]
    BY <1>1
  <1>4. /\ GetFormValue(FormBody(fields), "title") = FormEncode(s)
        /\ GetFormValue(FormBody(fields), "category") = FormEncode(r)
        /\ GetFormValue(FormBody(fields), "content") = FormEncode(t)
    BY <1>1, <1>2, FormFields
  <1>5. UrlDecode(FormEncode(s)) = s /\ UrlDecode(FormEncode(r)) = r /\ UrlDecode(FormEncode(t)) = t
    BY <1>2, FormSurvives
  <1>6. Row(fields) = [title |-> UrlDecode(GetFormValue(FormBody(fields), "title")),
                       category |-> UrlDecode(GetFormValue(FormBody(fields), "category")),
                       content |-> UrlDecode(GetFormValue(FormBody(fields), "content"))]
    BY Zenon DEF Row
  <1>7. Row(fields) = [title |-> s, category |-> r, content |-> t]
    BY <1>4, <1>5, <1>6, Zenon
  <1> QED BY <1>3, <1>7, Zenon DEF Decodes

-----------------------------------------------------------------------------
(* Answers that say nothing of the tables, those that show a page, and     *)
(* those that only say something.                                          *)
LEMMA Silent ==
  page'.kind \in {"none", "blank editor", "fields empty", "name empty", "no template"} =>
    AnswerIsTrue' /\ ShowsTheText' /\ page'.kind # "editor"
  BY DEF AnswerIsTrue, ShowsTheText

LEMMA Shows == page'.kind \in {"article", "editor", "list"} => AnswerIsTrue'
  BY DEF AnswerIsTrue

LEMMA Says ==
  page'.kind \in {"registered", "exists", "wrong", "logged in", "created", "updated",
                  "deleted", "not found", "login first", "error"} =>
    ShowsTheText' /\ page'.kind # "editor"
  BY DEF ShowsTheText

LEMMA AnswerKindIs == ASSUME NEW k, AnswerKind(k) PROVE pc' = "idle" /\ page'.kind = k
  BY DEF AnswerKind, Answer

(* An answer leaves only what it says of the tables to be shown.           *)
LEMMA Answered ==
  ASSUME pc' = "idle", page'.kind # "editor", RowsOK', AnswerIsTrue', ShowsTheText'
  PROVE  Told'
  BY DEF Told, RequestTexts, PageOK

LEMMA RowsKept == ASSUME RowsOK, UNCHANGED <<articles, typed>> PROVE RowsOK'
  BY DEF RowsOK

LEMMA ToldInit == Init => Told
  <1> SUFFICES ASSUME Init PROVE Told
    OBVIOUS
  <1>1. page.kind = "none" /\ pc = "idle"
    BY DEF Init
  <1>2. RowsOK
    BY DEF Init, RowsOK
  <1>3. RequestTexts /\ PageOK
    BY <1>1 DEF RequestTexts, PageOK
  <1>4. AnswerIsTrue /\ ShowsTheText
    BY <1>1 DEF AnswerIsTrue, ShowsTheText
  <1> QED BY <1>2, <1>3, <1>4 DEF Told

-----------------------------------------------------------------------------
(* Requests.                                                               *)
Sent(r) ==
  /\ r.op \in {"create", "update"} => r.fields \in Texts
  /\ r.op \in {"detail", "edit", "update", "delete"} =>
       "id" \in DOMAIN r /\ r.id \in Id \cup {0}
  /\ r.op = "create" => nextId \in Id

LEMMA TextsTyped == Fields \subseteq Texts
  <1>1. Titles \subseteq Text /\ Categories \subseteq Text /\ Contents \subseteq Text
    <2>1. PICK S : S = TextChar
      OBVIOUS
    <2>2. Char \subseteq S
      BY <2>1 DEF TextChar
    <2>3. \A s \in Seq(Char) : s \in Seq(S)
      BY <2>2
    <2> QED BY <2>1, <2>3, TextAssumption DEF Text
  <1>2. <<>> \in Text
    BY DEF Text
  <1> QED BY <1>1, <1>2 DEF Fields, Texts

LEMMA FormSent ==
  ASSUME NEW r \in Request, r.op = "create" => nextId \in Id
  PROVE  Sent(r)
  <1>1. r.op \in {"create", "update"} => r.fields \in Fields
    BY DEF Request, Account, Update
  <1>2. r.op \in {"detail", "edit", "update", "delete"} => "id" \in DOMAIN r /\ r.id \in Target
    BY DEF Request, Account, Update
  <1> QED BY <1>1, <1>2, TextsTyped DEF Sent, Target

LEMMA SavedSent ==
  ASSUME PageOK, page.kind = "editor",
         NEW r, r = [op |-> "update", id |-> page.id, fields |-> page.fields]
  PROVE  Sent(r)
  BY DEF Sent, PageOK

LEMMA StepSent ==
  ASSUME Told, NEW b \in Browser, Send(b) \/ Save(b)
  PROVE  \E r : Sent(r) /\ Dispatch(b, r)
  <1>1. CASE Send(b)
    BY <1>1, FormSent DEF Send
  <1>2. CASE Save(b)
    <2>1. PICK r : r = [op |-> "update", id |-> page.id, fields |-> page.fields]
      OBVIOUS
    <2>2. page.kind = "editor" /\ Dispatch(b, r)
      BY <1>2, <2>1 DEF Save
    <2> QED BY <2>1, <2>2, SavedSent DEF Told
  <1> QED BY <1>1, <1>2

LEMMA ToldArrival ==
  ASSUME Told, NEW b, NEW r, Sent(r), Dispatch(b, r)
  PROVE  Told'
  <1>1. /\ req' = r /\ by' = b /\ hurt' = FALSE
        /\ UNCHANGED <<users, sessions, articles, nextId, cookie, typed>>
    BY DEF Dispatch, db, browsers
  <1>2. RowsOK'
    BY <1>1, RowsKept DEF Told
  <1>3. CASE r.id = 0 /\ AnswerKind("not found")
    <2>1. pc' = "idle" /\ page'.kind = "not found"
      BY <1>3, AnswerKindIs
    <2>2. AnswerIsTrue'
      BY <1>1, <1>3, <2>1 DEF AnswerIsTrue
    <2> QED BY <1>2, <2>1, <2>2, Says, Answered
  <1>4. CASE AnswerKind("name empty")
    <2>1. pc' = "idle" /\ page'.kind = "name empty"
      BY <1>4, AnswerKindIs
    <2> QED BY <1>2, <2>1, Silent, Answered
  <1>5. CASE cookie[b] = NoToken /\ AfterSession(r, FALSE)
    <2>1. AnswerKind("login first")
      BY <1>5 DEF AfterSession
    <2>2. pc' = "idle" /\ page'.kind = "login first"
      BY <2>1, AnswerKindIs
    <2>3. AnswerIsTrue'
      BY <1>1, <1>5, <2>2 DEF AnswerIsTrue
    <2> QED BY <1>2, <2>2, <2>3, Says, Answered
  <1>6. CASE ("id" \in DOMAIN r => r.id # 0) /\ page' = [kind |-> "none"]
    <2>1. page'.kind = "none"
      BY <1>6
    <2>2. AnswerIsTrue' /\ ShowsTheText' /\ PageOK'
      BY <2>1, Silent DEF PageOK
    <2>3. RequestTexts'
      BY <1>1, <1>6 DEF RequestTexts, Sent
    <2> QED BY <1>2, <2>2, <2>3 DEF Told
  <1> QED BY <1>3, <1>4, <1>5, <1>6 DEF Dispatch

-----------------------------------------------------------------------------
(* Statements.                                                             *)
LEMMA StatementSays ==
  ASSUME NEW p, NEW ops, NEW o, Statement(p, ops, o)
  PROVE  /\ pc = p /\ req.op \in ops
         /\ req' = req /\ by' = by
         /\ hurt' = (hurt \/ o # "ok")
  BY DEF Statement

(* The handler goes on with nothing said. *)
LEMMA ToldGoesOn ==
  ASSUME Told, pc # "idle", pc' # "idle", page' = page,
         UNCHANGED <<articles, typed, nextId, req>>
  PROVE  Told'
  <1>1. page'.kind = "none"
    BY DEF Told, PageOK
  <1>2. AnswerIsTrue' /\ ShowsTheText' /\ PageOK'
    BY <1>1, Silent DEF PageOK
  <1>3. RequestTexts'
    BY DEF Told, RequestTexts
  <1>4. RowsOK'
    BY RowsKept DEF Told
  <1> QED BY <1>2, <1>3, <1>4 DEF Told

LEMMA ToldAcquire == Told /\ Acquire => Told'
  BY ToldGoesOn DEF Acquire, db, request

LEMMA ToldFindSession == Told /\ FindSession => Told'
  <1> SUFFICES ASSUME Told, FindSession PROVE Told'
    OBVIOUS
  <1>1. PICK o \in Query :
          /\ Statement("session", NeedsSession, o)
          /\ AfterSession(req, o = "ok" /\ sessions[cookie[by]] # NoUser)
          /\ UNCHANGED <<db, browsers, typed>>
    BY DEF FindSession
  <1>2. /\ pc = "session" /\ req' = req /\ by' = by /\ hurt' = (hurt \/ o # "ok")
        /\ UNCHANGED <<sessions, articles, typed, nextId, cookie>>
    BY <1>1, StatementSays DEF db, browsers
  <1>3. RowsOK'
    BY <1>2, RowsKept DEF Told
  <1>4. CASE /\ ~(o = "ok" /\ sessions[cookie[by]] # NoUser)
             /\ AnswerKind("login first")
    <2>1. pc' = "idle" /\ page'.kind = "login first"
      BY <1>4, AnswerKindIs
    <2>2. AnswerIsTrue'
      BY <1>2, <1>4, <2>1 DEF AnswerIsTrue
    <2> QED BY <1>3, <2>1, <2>2, Says, Answered
  <1>5. CASE AnswerKind("blank editor")
    <2>1. pc' = "idle" /\ page'.kind = "blank editor"
      BY <1>5, AnswerKindIs
    <2> QED BY <1>3, <2>1, Silent, Answered
  <1>6. CASE AnswerKind("fields empty")
    <2>1. pc' = "idle" /\ page'.kind = "fields empty"
      BY <1>6, AnswerKindIs
    <2> QED BY <1>3, <2>1, Silent, Answered
  <1>7. CASE pc' = "work" /\ UNCHANGED <<page, cached>>
    BY <1>2, <1>7, ToldGoesOn
  <1> QED BY <1>1, <1>4, <1>5, <1>6, <1>7 DEF AfterSession

LEMMA ToldInsertUser == BlogInv /\ Told /\ InsertUser => Told'
  <1> SUFFICES ASSUME BlogInv, Told, InsertUser PROVE Told'
    OBVIOUS
  <1> DEFINE taken == users[req.name] # NoPassword
  <1>1. PICK o \in Change :
          /\ Statement("work", {"register"}, o)
          /\ users' = IF o = "fails" \/ taken THEN users
                      ELSE [users EXCEPT ![req.name] = req.password]
          /\ AnswerKind(IF o # "ok" THEN "error" ELSE IF taken THEN "exists" ELSE "registered")
          /\ UNCHANGED <<articles, typed>>
    BY DEF InsertUser
  <1>2. /\ pc = "work" /\ req.op = "register" /\ req' = req /\ hurt' = (hurt \/ o # "ok")
    BY <1>1, StatementSays
  <1>3. users \in [Name -> Password \cup {NoPassword}] /\ req.name \in Name
    BY <1>2 DEF BlogInv, TypeOK, RequestOK
  <1>4. /\ pc' = "idle"
        /\ page'.kind = IF o # "ok" THEN "error" ELSE IF taken THEN "exists" ELSE "registered"
    BY <1>1, AnswerKindIs
  <1>5. RowsOK'
    BY <1>1, RowsKept DEF Told
  <1>6. AnswerIsTrue'
    <2>1. CASE o # "ok"
      BY <1>2, <1>4, <2>1 DEF AnswerIsTrue
    <2>2. CASE o = "ok" /\ taken
      BY <1>1, <1>2, <1>4, <2>2 DEF AnswerIsTrue
    <2>3. CASE o = "ok" /\ ~taken
      <3>1. users'[req.name] = req.password
        BY <1>1, <1>3, <2>3
      <3> QED BY <1>2, <1>4, <2>3, <3>1 DEF AnswerIsTrue
    <2> QED BY <2>1, <2>2, <2>3
  <1>7. page'.kind \in {"error", "exists", "registered"}
    BY <1>4
  <1> QED BY <1>4, <1>5, <1>6, <1>7, Says, Answered

LEMMA ToldCheckPassword == Told /\ CheckPassword => Told'
  <1> SUFFICES ASSUME Told, CheckPassword PROVE Told'
    OBVIOUS
  <1>1. PICK o \in Query :
          /\ Statement("work", {"login"}, o)
          /\ IF o = "ok" /\ users[req.name] = req.password
             THEN pc' = "token" /\ UNCHANGED page
             ELSE AnswerKind(IF o = "ok" THEN "wrong" ELSE "error")
          /\ UNCHANGED <<db, typed>>
    BY DEF CheckPassword
  <1>2. /\ pc = "work" /\ req' = req /\ hurt' = (hurt \/ o # "ok")
        /\ UNCHANGED <<users, articles, typed, nextId>>
    BY <1>1, StatementSays DEF db
  <1>3. CASE pc' = "token" /\ UNCHANGED page
    BY <1>2, <1>3, ToldGoesOn
  <1>4. CASE /\ ~(o = "ok" /\ users[req.name] = req.password)
             /\ AnswerKind(IF o = "ok" THEN "wrong" ELSE "error")
    <2>1. pc' = "idle" /\ page'.kind = IF o = "ok" THEN "wrong" ELSE "error"
      BY <1>4, AnswerKindIs
    <2>2. AnswerIsTrue'
      BY <1>2, <1>4, <2>1 DEF AnswerIsTrue
    <2>3. RowsOK'
      BY <1>2, RowsKept DEF Told
    <2>4. page'.kind \in {"wrong", "error"}
      BY <2>1
    <2> QED BY <2>1, <2>2, <2>3, <2>4, Says, Answered
  <1> QED BY <1>1, <1>3, <1>4

LEMMA ToldInsertSession == BlogInv /\ Told /\ InsertSession => Told'
  <1> SUFFICES ASSUME BlogInv, Told, InsertSession PROVE Told'
    OBVIOUS
  <1>1. PICK o \in Change, t \in Fresh :
          /\ Statement("token", {"login"}, o)
          /\ sessions' = IF o = "fails" THEN sessions ELSE [sessions EXCEPT ![t] = req.name]
          /\ cookie' = [cookie EXCEPT ![by] = t]
          /\ AnswerKind("logged in")
          /\ UNCHANGED <<articles, typed>>
    BY DEF InsertSession
  <1>2. /\ pc = "token" /\ req' = req /\ by' = by /\ hurt' = (hurt \/ o # "ok")
    <2>1. Statement("token", {"login"}, o)
      BY <1>1
    <2> QED BY <2>1, StatementSays
  <1>3. /\ t \in Token /\ by \in Browser
        /\ sessions \in [Token -> Name \cup {NoUser}]
        /\ cookie \in [Browser -> Token \cup {NoToken}]
    BY <1>1, <1>2 DEF Fresh, BlogInv, TypeOK, RequestOK
  <1>4. pc' = "idle" /\ page'.kind = "logged in"
    BY <1>1, AnswerKindIs
  <1>5. hurt' \/ sessions'[cookie'[by]] = req.name
    BY <1>1, <1>2, <1>3
  <1>6. AnswerIsTrue'
    BY <1>2, <1>4, <1>5 DEF AnswerIsTrue
  <1>7. RowsOK'
    BY <1>1, RowsKept DEF Told
  <1> QED BY <1>4, <1>6, <1>7, Says, Answered

-----------------------------------------------------------------------------
(* The three that change the articles.                                     *)
LEMMA ToldInsertArticle == BlogInv /\ Told /\ InsertArticle => Told'
  <1> SUFFICES ASSUME BlogInv, Told, InsertArticle PROVE Told'
    OBVIOUS
  <1>1. PICK o \in Change :
          /\ Statement("work", {"create"}, o)
          /\ IF o = "fails" THEN UNCHANGED <<articles, typed, nextId>>
             ELSE Store(nextId) /\ nextId' = nextId + 1
          /\ AnswerKind(IF o = "ok" THEN "created" ELSE "error")
    BY DEF InsertArticle
  <1>2. /\ pc = "work" /\ req.op = "create" /\ req' = req /\ hurt' = (hurt \/ o # "ok")
    BY <1>1, StatementSays
  <1>3. req.fields \in Texts /\ nextId \in Id
    BY <1>2 DEF Told, RequestTexts
  <1>4. Row(req.fields) = req.fields
    BY <1>3, RowIsFields DEF Decodes, Texts, Text
  <1>5. /\ DOMAIN articles = Id /\ DOMAIN typed = Id
        /\ nextId \in Nat
    BY DEF BlogInv, TypeOK
  <1>6. pc' = "idle" /\ page'.kind = IF o = "ok" THEN "created" ELSE "error"
    BY <1>1, AnswerKindIs
  <1>7. RowsOK'
    <2>1. CASE UNCHANGED <<articles, typed>>
      BY <2>1, RowsKept DEF Told
    <2>2. CASE Store(nextId)
      BY <1>3, <1>4, <1>5, <2>2 DEF Store, RowsOK, Told
    <2> QED BY <1>1, <2>1, <2>2
  <1>8. AnswerIsTrue'
    <2>1. CASE o = "ok"
      <3>1. Store(nextId) /\ nextId' - 1 = nextId
        BY <1>1, <1>5, <2>1
      <3>2. articles'[nextId' - 1] = req'.fields
        BY <1>2, <1>3, <1>4, <1>5, <3>1 DEF Store
      <3> QED BY <1>6, <2>1, <3>2 DEF AnswerIsTrue
    <2>2. CASE o # "ok"
      BY <1>2, <1>6, <2>2 DEF AnswerIsTrue
    <2> QED BY <2>1, <2>2
  <1>9. page'.kind \in {"created", "error"}
    BY <1>6
  <1> QED BY <1>6, <1>7, <1>8, <1>9, Says, Answered

LEMMA ToldUpdateArticle == BlogInv /\ Told /\ UpdateArticle => Told'
  <1> SUFFICES ASSUME BlogInv, Told, UpdateArticle PROVE Told'
    OBVIOUS
  <1>1. PICK o \in Change :
          /\ Statement("work", {"update"}, o)
          /\ IF o = "fails" \/ articles[req.id] = NoRow THEN UNCHANGED <<articles, typed>>
             ELSE Store(req.id)
          /\ AnswerKind(IF o = "ok" THEN "updated" ELSE "error")
    BY DEF UpdateArticle
  <1>2. /\ pc = "work" /\ req.op = "update" /\ req' = req /\ hurt' = (hurt \/ o # "ok")
    BY <1>1, StatementSays
  <1>3. req.fields \in Texts /\ req.id \in Id
    BY <1>2 DEF Told, RequestTexts
  <1>4. Row(req.fields) = req.fields
    BY <1>3, RowIsFields DEF Decodes, Texts, Text
  <1>5. DOMAIN articles = Id /\ DOMAIN typed = Id
    BY DEF BlogInv, TypeOK
  <1>6. pc' = "idle" /\ page'.kind = IF o = "ok" THEN "updated" ELSE "error"
    BY <1>1, AnswerKindIs
  <1>7. RowsOK'
    <2>1. CASE UNCHANGED <<articles, typed>>
      BY <2>1, RowsKept DEF Told
    <2>2. CASE Store(req.id)
      BY <1>3, <1>4, <1>5, <2>2 DEF Store, RowsOK, Told
    <2> QED BY <1>1, <2>1, <2>2
  <1>8. AnswerIsTrue'
    <2>1. CASE o = "ok"
      <3>1. articles'[req.id] \in {NoRow, req.fields}
        BY <1>1, <1>3, <1>4, <1>5, <2>1 DEF Store
      <3> QED BY <1>2, <1>6, <2>1, <3>1 DEF AnswerIsTrue
    <2>2. CASE o # "ok"
      BY <1>2, <1>6, <2>2 DEF AnswerIsTrue
    <2> QED BY <2>1, <2>2
  <1>9. page'.kind \in {"updated", "error"}
    BY <1>6
  <1> QED BY <1>6, <1>7, <1>8, <1>9, Says, Answered

LEMMA ToldDeleteArticle == BlogInv /\ Told /\ DeleteArticle => Told'
  <1> SUFFICES ASSUME BlogInv, Told, DeleteArticle PROVE Told'
    OBVIOUS
  <1>1. PICK o \in Change :
          /\ Statement("work", {"delete"}, o)
          /\ IF o = "fails" THEN UNCHANGED <<articles, typed>>
             ELSE /\ articles' = [articles EXCEPT ![req.id] = NoRow]
                  /\ typed' = [typed EXCEPT ![req.id] = NoRow]
          /\ AnswerKind("deleted")
    BY DEF DeleteArticle
  <1>2. /\ pc = "work" /\ req.op = "delete" /\ req' = req /\ hurt' = (hurt \/ o # "ok")
    BY <1>1, StatementSays
  <1>3. req.id \in Id
    BY <1>2 DEF Told, RequestTexts
  <1>4. DOMAIN articles = Id /\ DOMAIN typed = Id
    BY DEF BlogInv, TypeOK
  <1>5. pc' = "idle" /\ page'.kind = "deleted"
    BY <1>1, AnswerKindIs
  <1>6. RowsOK'
    <2>1. CASE UNCHANGED <<articles, typed>>
      BY <2>1, RowsKept DEF Told
    <2>2. CASE /\ articles' = [articles EXCEPT ![req.id] = NoRow]
               /\ typed' = [typed EXCEPT ![req.id] = NoRow]
      BY <1>3, <1>4, <2>2 DEF RowsOK, Told
    <2> QED BY <1>1, <2>1, <2>2
  <1>7. hurt' \/ articles'[req.id] = NoRow
    BY <1>1, <1>2, <1>3, <1>4
  <1>8. AnswerIsTrue'
    BY <1>2, <1>5, <1>7 DEF AnswerIsTrue
  <1> QED BY <1>5, <1>6, <1>8, Says, Answered

-----------------------------------------------------------------------------
(* The three pages.                                                        *)
LEMMA RowTexts ==
  ASSUME Told, NEW i \in Id, articles[i] # NoRow
  PROVE  /\ typed[i] = articles[i] /\ articles[i] \in Texts
         /\ articles[i].title \in Seq(TextChar)
         /\ articles[i].category \in Seq(TextChar)
         /\ articles[i].content \in Seq(TextChar)
  BY DEF Told, RowsOK, Texts, Text

(* What ShowsTheText asks of an article's page and of the editor.          *)
LEMMA ArticleShown ==
  ASSUME page'.kind = "article",
         ReaderGets(typed'[page'.id], page'.fields)
  PROVE  ShowsTheText'
  BY DEF ShowsTheText

LEMMA EditorShown ==
  ASSUME page'.kind = "editor",
         EditorGets(typed'[page'.id], page'.fields)
  PROVE  ShowsTheText'
  BY DEF ShowsTheText

LEMMA ToldSelectDetail == Told /\ SelectDetail => Told'
  <1> SUFFICES ASSUME Told, SelectDetail PROVE Told'
    OBVIOUS
  <1>1. PICK o \in Query, found \in BOOLEAN :
          /\ Statement("work", {"detail"}, o)
          /\ IF o = "ok" /\ articles[req.id] # NoRow
             THEN Answer([kind |-> "article", id |-> req.id,
                          fields |-> DetailPage(articles[req.id], found)])
             ELSE AnswerKind("not found")
          /\ UNCHANGED <<db, typed>>
    BY DEF SelectDetail
  <1>2. /\ pc = "work" /\ req.op = "detail" /\ req' = req /\ hurt' = (hurt \/ o # "ok")
        /\ UNCHANGED <<articles, typed>>
    <2>1. Statement("work", {"detail"}, o)
      BY <1>1
    <2>2. UNCHANGED <<articles, typed>>
      BY <1>1 DEF db
    <2> QED BY <2>1, <2>2, StatementSays
  <1>3. req.id \in Id
    BY <1>2 DEF Told, RequestTexts
  <1>4. RowsOK'
    BY <1>2, RowsKept DEF Told
  <1>5. CASE /\ o = "ok" /\ articles[req.id] # NoRow
             /\ Answer([kind |-> "article", id |-> req.id,
                        fields |-> DetailPage(articles[req.id], found)])
    <2>1. /\ pc' = "idle" /\ page'.kind = "article" /\ page'.id = req.id
          /\ page'.fields = DetailPage(articles[req.id], found)
      BY <1>5 DEF Answer
    <2>2. PICK row : row = articles[req.id]
      OBVIOUS
    <2>3. /\ typed'[req.id] = row
          /\ row.title \in Seq(TextChar) /\ row.category \in Seq(TextChar)
          /\ row.content \in Seq(TextChar)
      BY <1>2, <1>3, <1>5, <2>2, RowTexts
    <2>4. ReaderGets(row, DetailPage(row, found))
      BY <2>3, DetailShows
    <2>5. ShowsTheText'
      BY <2>1, <2>2, <2>3, <2>4, ArticleShown
    <2> QED BY <1>4, <2>1, <2>5, Shows, Answered
  <1>6. CASE ~(o = "ok" /\ articles[req.id] # NoRow) /\ AnswerKind("not found")
    <2>1. pc' = "idle" /\ page'.kind = "not found"
      BY <1>6, AnswerKindIs
    <2>2. AnswerIsTrue'
      BY <1>2, <1>6, <2>1 DEF AnswerIsTrue
    <2> QED BY <1>4, <2>1, <2>2, Says, Answered
  <1> QED BY <1>1, <1>5, <1>6

LEMMA ToldSelectEdit == Told /\ SelectEdit => Told'
  <1> SUFFICES ASSUME Told, SelectEdit PROVE Told'
    OBVIOUS
  <1>1. PICK o \in Query, found \in BOOLEAN :
          /\ Statement("work", {"edit"}, o)
          /\ IF o = "ok" /\ articles[req.id] # NoRow
             THEN IF found
                  THEN Answer([kind |-> "editor", id |-> req.id,
                               fields |-> EditorPage(articles[req.id])])
                  ELSE AnswerKind("no template")
             ELSE AnswerKind("not found")
          /\ UNCHANGED <<db, typed>>
    BY DEF SelectEdit
  <1>2. /\ pc = "work" /\ req.op = "edit" /\ req' = req /\ hurt' = (hurt \/ o # "ok")
        /\ UNCHANGED <<articles, typed>>
    <2>1. Statement("work", {"edit"}, o)
      BY <1>1
    <2>2. UNCHANGED <<articles, typed>>
      BY <1>1 DEF db
    <2> QED BY <2>1, <2>2, StatementSays
  <1>3. req.id \in Id
    BY <1>2 DEF Told, RequestTexts
  <1>4. RowsOK'
    BY <1>2, RowsKept DEF Told
  <1>5. CASE /\ articles[req.id] # NoRow
             /\ Answer([kind |-> "editor", id |-> req.id,
                        fields |-> EditorPage(articles[req.id])])
    <2>1. /\ pc' = "idle" /\ page'.kind = "editor" /\ page'.id = req.id
          /\ page'.fields = EditorPage(articles[req.id])
      BY <1>5 DEF Answer
    <2>2. PICK row : row = articles[req.id]
      OBVIOUS
    <2>3. /\ typed'[req.id] = row /\ row \in Texts
          /\ row.title \in Seq(TextChar) /\ row.category \in Seq(TextChar)
          /\ row.content \in Seq(TextChar)
      BY <1>2, <1>3, <1>5, <2>2, RowTexts
    <2>4. EditorGets(row, EditorPage(row))
      BY <2>3, EditorShows
    <2>7. ShowsTheText'
      BY <2>1, <2>2, <2>3, <2>4, EditorShown
    <2>8. page'.fields \in Texts
      BY <2>1, <2>2, <2>3, EditorTyped
    <2>9. RequestTexts' /\ PageOK'
      BY <1>3, <2>1, <2>8 DEF RequestTexts, PageOK
    <2> QED BY <1>4, <2>1, <2>7, <2>9, Shows DEF Told
  <1>6. CASE AnswerKind("no template")
    <2>1. pc' = "idle" /\ page'.kind = "no template"
      BY <1>6, AnswerKindIs
    <2> QED BY <1>4, <2>1, Silent, Answered
  <1>7. CASE ~(o = "ok" /\ articles[req.id] # NoRow) /\ AnswerKind("not found")
    <2>1. pc' = "idle" /\ page'.kind = "not found"
      BY <1>7, AnswerKindIs
    <2>2. AnswerIsTrue'
      BY <1>2, <1>7, <2>1 DEF AnswerIsTrue
    <2> QED BY <1>4, <2>1, <2>2, Says, Answered
  <1> QED BY <1>1, <1>5, <1>6, <1>7

-----------------------------------------------------------------------------
(* What ShowsTheText asks of the list.                                     *)
Listed(items, rows, texts) ==
  /\ \A k \in DOMAIN items : ListGets(texts[items[k].id], items[k])
  /\ \A i \in Id : rows[i] # NoRow =>
       \/ \E k \in DOMAIN items : items[k].id = i
       \/ Len(items) = ListLimit /\ \A k \in DOMAIN items : items[k].id > i

LEMMA ListShown ==
  ASSUME page'.kind = "list", ~hurt' => Listed(page'.items, articles', typed')
  PROVE  ShowsTheText'
  BY DEF ShowsTheText, Listed

RowsFound(rows) == rows = NewestFirst({i \in Id : articles[i] # NoRow})

ItemsOf(items, rows, found) ==
  items = [k \in 1..Min({Len(rows), ListLimit}) |-> ListItem(rows[k], articles[rows[k]], found)]

LEMMA ListItems ==
  ASSUME Told, NEW rows, RowsFound(rows), NEW found \in BOOLEAN,
         NEW items, ItemsOf(items, rows, found)
  PROVE  Listed(items, articles, typed)
  <1> DEFINE ids == {i \in Id : articles[i] # NoRow}
             n == Min({Len(rows), ListLimit})
  <1>1. rows \in SeqOf(ids, MaxId) /\ Descends(rows, ids)
    <2>1. ids \subseteq Id /\ rows = NewestFirst(ids)
      BY DEF RowsFound
    <2> HIDE DEF ids
    <2> QED BY <2>1, NewestFirstIs
  <1>2. PICK m \in 0..MaxId : rows \in [1..m -> ids]
    BY <1>1 DEF SeqOf
  <1>3. m \in Nat /\ ListLimit \in Nat
    BY BlogAssumption
  <1>4. Len(rows) = m /\ DOMAIN rows = 1..m
    BY <1>2, <1>3
  <1>5. n \in {m, ListLimit} /\ n <= m /\ n <= ListLimit
    <2>1. {m, ListLimit} \in SUBSET Nat /\ {m, ListLimit} # {}
      BY <1>3
    <2>2. Min({m, ListLimit}) \in {m, ListLimit} /\ \A y \in {m, ListLimit} : Min({m, ListLimit}) <= y
      BY <2>1, MinOfNat
    <2> QED BY <1>4, <2>2
  <1>6. n \in Nat
    BY <1>3, <1>5
  <1> HIDE DEF n
  <1>7. DOMAIN items = 1..n
    BY DEF n, ItemsOf
  <1>8. ASSUME NEW k \in 1..n
        PROVE  /\ k \in 1..m
               /\ items[k].id = rows[k] /\ rows[k] \in Id
               /\ ListGets(typed[rows[k]], items[k])
    <2>1. k \in 1..m
      BY <1>3, <1>5, <1>6
    <2>2. rows[k] \in ids
      BY <1>2, <2>1
    <2>3. PICK i, row : i = rows[k] /\ row = articles[i]
      OBVIOUS
    <2>4. /\ i \in Id /\ typed[i] = row
          /\ row.title \in Seq(TextChar) /\ row.category \in Seq(TextChar)
      BY <2>2, <2>3, RowTexts
    <2>5. items[k] = ListItem(i, row, found)
      BY <2>3 DEF n, ItemsOf
    <2>6. ListItem(i, row, found).id = i /\ ListGets(row, ListItem(i, row, found))
      <3>1. row.title \in Seq(TextChar) /\ row.category \in Seq(TextChar)
        BY <2>4
      <3>2. ItemTold(i, row, found)
        BY <3>1, ListItemShows
      <3> QED BY <3>2 DEF ItemTold
    <2> QED BY <2>1, <2>3, <2>4, <2>5, <2>6
  <1>9. Len(items) = n
    <2>1. PICK T : T = {items[k] : k \in 1..n}
      OBVIOUS
    <2>2. items = [k \in 1..n |-> items[k]]
      BY <1>7 DEF n, ItemsOf
    <2>3. items \in [1..n -> T]
      BY <2>1, <2>2
    <2>4. items \in Seq(T)
      BY <1>6, <2>3
    <2>5. Len(items) \in Nat /\ DOMAIN items = 1..Len(items)
      BY <2>4
    <2> QED BY <1>6, <1>7, <2>5
  <1>10. ASSUME NEW i \in Id, articles[i] # NoRow
         PROVE  \/ \E k \in DOMAIN items : items[k].id = i
                \/ Len(items) = ListLimit /\ \A k \in DOMAIN items : items[k].id > i
    <2>1. i \in ids
      BY <1>10
    <2>2. PICK p \in 1..m : rows[p] = i
      <3> HIDE DEF ids
      <3> QED BY <1>1, <1>4, <2>1 DEF Descends, Range
    <2>3. CASE p <= n
      <3>1. p \in 1..n
        BY <1>6, <2>3
      <3> QED BY <1>7, <1>8, <2>2, <3>1
    <2>4. CASE ~(p <= n)
      <3>1. n = ListLimit
        BY <1>3, <1>5, <2>4
      <3>2. ASSUME NEW k \in 1..n PROVE items[k].id > i
        <4>0. k \in 1..m /\ items[k].id = rows[k]
          BY <1>8
        <4>1. k \in 1..m /\ k < p /\ items[k].id = rows[k]
          BY <1>6, <2>4, <4>0
        <4>2. rows[k] > rows[p]
          BY <1>1, <1>4, <4>1 DEF Descends
        <4> QED BY <2>2, <4>1, <4>2
      <3> QED BY <1>7, <1>9, <3>1, <3>2
    <2> QED BY <2>3, <2>4
  <1> QED BY <1>7, <1>8, <1>10 DEF Listed

LEMMA ToldSelectList == Told /\ SelectList => Told'
  <1> SUFFICES ASSUME Told, SelectList PROVE Told'
    OBVIOUS
  <1>1. PICK rows : RowsFound(rows)
    BY DEF RowsFound
  <1>2. PICK shown : shown = [f \in BOOLEAN |->
                               [k \in 1..Min({Len(rows), ListLimit}) |->
                                  ListItem(rows[k], articles[rows[k]], f)]]
    OBVIOUS
  <1>3. PICK o \in Query, found \in BOOLEAN :
          /\ Statement("work", {"list"}, o)
          /\ Answer([kind |-> "list", items |-> IF o = "ok" THEN shown[found] ELSE <<>>])
          /\ UNCHANGED <<db, typed>>
    <2>1. \A f \in BOOLEAN : shown[f] = [k \in 1..Min({Len(rows), ListLimit}) |->
                                          ListItem(rows[k], articles[rows[k]], f)]
      BY <1>2
    <2> QED BY <1>1, <2>1, Zenon DEF SelectList, RowsFound
  <1>3a. PICK items : items = shown[found]
    OBVIOUS
  <1>3b. ItemsOf(items, rows, found)
    BY <1>2, <1>3a DEF ItemsOf
  <1>4. hurt' = (hurt \/ o # "ok") /\ UNCHANGED <<articles, typed>>
    <2>1. Statement("work", {"list"}, o)
      BY <1>3
    <2>2. UNCHANGED <<articles, typed>>
      BY <1>3 DEF db
    <2> QED BY <2>1, <2>2, StatementSays
  <1>5. pc' = "idle" /\ page'.kind = "list" /\ page'.items = IF o = "ok" THEN items ELSE <<>>
    BY <1>3, <1>3a DEF Answer
  <1>6. Listed(items, articles, typed)
    BY <1>1, <1>3b, ListItems
  <1>7. ShowsTheText'
    <2>1. ~hurt' => page'.items = items
      BY <1>4, <1>5
    <2>2. ~hurt' => Listed(page'.items, articles', typed')
      BY <1>4, <1>6, <2>1
    <2> QED BY <1>5, <2>2, ListShown
  <1>8. RowsOK'
    BY <1>4, RowsKept DEF Told
  <1> QED BY <1>5, <1>7, <1>8, Shows, Answered

LEMMA ToldStutter == Told /\ UNCHANGED vars => Told'
  <1> SUFFICES ASSUME Told, UNCHANGED vars PROVE Told'
    OBVIOUS
  <1>1. UNCHANGED <<users, sessions, articles, nextId, pc, req, by, hurt, page, cookie, typed>>
    BY DEF vars, db, request, browsers
  <1>2. RequestTexts' /\ PageOK' /\ RowsOK'
    BY <1>1 DEF Told, RequestTexts, PageOK, RowsOK
  <1>3. AnswerIsTrue'
    BY <1>1, Zenon DEF Told, AnswerIsTrue
  <1>4. ShowsTheText'
    BY <1>1, Zenon DEF Told, ShowsTheText
  <1> QED BY <1>2, <1>3, <1>4 DEF Told

(* Told follows from itself and from BlogInv, step by step. *)
THEOREM BlogTruth == Spec => []Told
  <1>1. BlogInv /\ Told /\ [Next]_vars => Told'
    <2> SUFFICES ASSUME BlogInv, Told, [Next]_vars PROVE Told'
      OBVIOUS
    <2>1. ASSUME NEW b \in Browser, Send(b) \/ Save(b) PROVE Told'
      BY <2>1, StepSent, ToldArrival
    <2>2. ASSUME HandlerStep PROVE Told'
      BY <2>2, ToldAcquire, ToldFindSession, ToldInsertUser, ToldCheckPassword,
         ToldInsertSession, ToldSelectList, ToldSelectDetail, ToldSelectEdit,
         ToldInsertArticle, ToldUpdateArticle, ToldDeleteArticle
      DEF HandlerStep
    <2> QED BY <2>1, <2>2, ToldStutter DEF Next
  <1> QED BY BlogInvariant, ToldInit, <1>1, PTL DEF Spec

-----------------------------------------------------------------------------
(* What an answer says of accounts, sessions and articles is so; with the  *)
(* exceptions of AnswerIsTrue: after a failed statement nothing is said of *)
(* the session of a login and of a deletion, of 404 and of "log in".       *)
THEOREM BlogAnswers == Spec => []AnswerIsTrue
  BY BlogTruth, PTL DEF Told

(* Readers, the editor and the list show what the authors typed, for every *)
(* set of texts over any characters, but for the exceptions of             *)
(* ShowsTheText: a text with a marker that is filled later in the same     *)
(* page, a content with </script> or <!-- in it in the reader's page, and  *)
(* a line break at the start.                                              *)
THEOREM BlogShowsTheText == Spec => []ShowsTheText
  BY BlogTruth, PTL DEF Told

(* Every row, of texts over any characters, comes through the form as it   *)
(* was typed and is shown by the reader's page, the editor and the list,   *)
(* but for the exceptions of ShowsTheText.                                 *)
THEOREM EveryRow ==
  ASSUME NEW S, NEW row \in [title : Seq(S), category : Seq(S), content : Seq(S)]
  PROVE  RowSurvives(row)
  <1>1. row.title \in Seq(S) /\ row.category \in Seq(S) /\ row.content \in Seq(S)
    OBVIOUS
  <1>2. Row(row) = row
    BY RowIsFields DEF Decodes
  <1>3. EditorGets(row, EditorPage(row))
    BY <1>1, EditorShows
  <1>4. ASSUME NEW found \in BOOLEAN PROVE ReaderGets(row, DetailPage(row, found))
    BY <1>1, DetailShows
  <1>5. ASSUME NEW found \in BOOLEAN PROVE ListGets(row, ListItem(1, row, found))
    <2>1. ItemTold(1, row, found)
      BY <1>1, ListItemShows
    <2> QED BY <2>1 DEF ItemTold
  <1> QED BY <1>2, <1>3, <1>4, <1>5 DEF RowSurvives

(* What the run checks on short texts and on rows of a few, for every      *)
(* length, all characters and all sets of rows.                            *)
THEOREM BlogTexts == Spec => []EveryTextSurvives
  <1>1. ASSUME NEW s \in SeqOf(Char, MaxText) PROVE TextSurvives(s)
    <2>1. PICK n \in 0..MaxText : s \in [1..n -> Char]
      BY DEF SeqOf
    <2>2. n \in Nat
      BY TextAssumption
    <2>3. s \in Seq(Char)
      BY <2>1, <2>2
    <2> QED BY <2>3, EveryText
  <1>2. ASSUME NEW row \in [title : Samples, category : Samples, content : Samples]
        PROVE  RowSurvives(row)
    <2>1. row \in [title : Seq(Char), category : Seq(Char), content : Seq(Char)]
      BY TextAssumption
    <2> QED BY <2>1, EveryRow
  <1>3. EveryTextSurvives
    BY <1>1, <1>2 DEF EveryTextSurvives
  <1> QED BY <1>3, PTL
=============================================================================
