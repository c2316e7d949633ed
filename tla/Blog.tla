-------------------------------- MODULE Blog --------------------------------
(***************************************************************************)
(* What the request handlers of http/http_conn.cpp and http/auth.cpp do:   *)
(* accounts, logins, session cookies and articles, on the tables of the    *)
(* database and through guards of the connection pool.                     *)
(*                                                                         *)
(* process() runs with users_mutex_ held, so there is one handler at a     *)
(* time.  Its steps are: get a pool connection, or do a statement with it  *)
(* and go on to the next place where one is needed, or to the answer.  A   *)
(* statement may fail, and it may take effect and fail all the same, when  *)
(* the connection to the database breaks before the reply.                 *)
(*                                                                         *)
(* Users are their names, as get_form_value() returns them: encoded in     *)
(* the same way on both forms.  While the server runs the pool is not      *)
(* stopping, so guards are never empty.                                    *)
(***************************************************************************)
EXTENDS TextUtils

CONSTANTS
  Browser,      (* browsers, each with a cookie jar                         *)
  Name,         (* user names                                               *)
  Password,     (* passwords; a hash with its salt stands for its password  *)
  Token,        (* session tokens; each is drawn once                       *)
  MaxId,        (* bound of the model: articles created                     *)
  Char,         (* the characters of texts                                  *)
  Titles,       (* the titles that authors type                             *)
  Categories,   (* the categories that authors type                         *)
  Contents,     (* the contents that authors type                           *)
  PoolSize,     (* open handles in the pool                                 *)
  ListLimit,    (* LIMIT of the list's query, 50                            *)
  MaxFaults,    (* bound of the model: failing statements                   *)
  MaxText,      (* bound of EveryTextSurvives: characters of a text         *)
  Samples,      (* bound of EveryTextSurvives: texts of a row               *)
  NoUser, NoToken, NoPassword, NoRow, NoReq

ASSUME BlogAssumption ==
  /\ MaxId \in Nat
  /\ PoolSize \in Nat \ {0}
  /\ ListLimit \in Nat
  /\ MaxFaults \in Nat
  /\ NoUser \notin Name /\ NoToken \notin Token /\ NoPassword \notin Password

ASSUME TextAssumption ==
  /\ Titles \cup Categories \cup Contents \cup Samples \subseteq Seq(Char)
  /\ MaxText \in Nat

VARIABLES
  users,     (* table users: the password of each name                      *)
  sessions,  (* table sessions: the user of each token                      *)
  articles,  (* table articles                                              *)
  nextId,    (* its AUTO_INCREMENT counter                                  *)
  idle,      (* handles in the pool's queue                                 *)
  held,      (* whether the handler has a guard                             *)
  cached,    (* the templates in file_cache_                                *)
  pc,        (* where the handler is                                        *)
  req,       (* the request                                                 *)
  by,        (* the browser that sent it                                    *)
  hurt,      (* history: whether a statement of it has failed               *)
  page,      (* the last answer: its kind and what it shows                 *)
  cookie,    (* each browser's session_token                                *)
  owner,     (* history: the user each browser logged in as                 *)
  typed,     (* history: what the author of each row typed                  *)
  faults     (* statements that have failed                                 *)

Id == 1..MaxId

db == <<users, sessions, articles, nextId>>
browsers == <<cookie, owner>>
request == <<req, by, hurt>>
vars == <<db, idle, held, cached, pc, request, page, browsers, typed, faults>>

(* A form with something in it. *)
Fields ==
  {f \in [title : Titles \cup {<<>>}, category : Categories \cup {<<>>}, content : Contents \cup {<<>>}] :
     f.title # <<>> \/ f.content # <<>>}

(* The password, or it and the name, may be missing. *)
Account ==
  [op : {"register", "login"}, name : Name, password : Password \cup {""}]
  \cup [op : {"register", "login"}, name : {""}, password : {""}]

(* std::stoi() of the url's number, 0 where it throws. *)
Target == Id \cup {0}

(* The fields of a form for no article are not looked at. *)
Update ==
  {r \in [op : {"update"}, id : Target, fields : Fields] :
     r.id = 0 => r.fields.title = <<>> /\ r.fields.category = <<>>}

Request ==
  Account \cup [op : {"list", "new"}] \cup [op : {"detail", "edit", "delete"}, id : Target]
  \cup [op : {"create"}, fields : Fields] \cup Update

NeedsSession == {"new", "create", "edit", "update", "delete"}

TypeOK ==
  /\ users \in [Name -> Password \cup {NoPassword}]
  /\ sessions \in [Token -> Name \cup {NoUser}]
  /\ DOMAIN articles = Id /\ DOMAIN typed = Id
  /\ \A i \in Id : articles[i] # NoRow => i < nextId /\ articles[i].title # <<>>
  /\ idle \in 0..PoolSize /\ idle + (IF held THEN 1 ELSE 0) = PoolSize
  /\ cached \subseteq {"list", "detail", "editor"}
  /\ pc \in {"idle", "session", "work", "token"}
  /\ held => pc # "idle"
  /\ cookie \in [Browser -> Token \cup {NoToken}]
  /\ owner \in [Browser -> Name \cup {NoUser}]

Init ==
  /\ users = [n \in Name |-> NoPassword]
  /\ sessions = [t \in Token |-> NoUser]
  /\ articles = [i \in Id |-> NoRow]
  /\ nextId = 1
  /\ idle = PoolSize /\ held = FALSE
  /\ cached = {}
  /\ pc = "idle"
  /\ req = NoReq /\ by = NoReq /\ hurt = FALSE
  /\ page = [kind |-> "none"]
  /\ cookie = [b \in Browser |-> NoToken]
  /\ owner = [b \in Browser |-> NoUser]
  /\ typed = [i \in Id |-> NoRow]
  /\ faults = 0

-----------------------------------------------------------------------------
(* Answers.                                                                *)

Answer(p) == pc' = "idle" /\ page' = p

AnswerKind(k) == Answer([kind |-> k])

(* read_file(): a template that is not cached may be missing from the      *)
(* disk; one that was read once is never looked for again.                 *)
ReadFile(f, found) ==
  /\ f \in cached => found
  /\ cached' = IF found THEN cached \cup {f} ELSE cached

(* replace_placeholder() goes over the whole page, the texts that are in   *)
(* its places by then included.                                            *)
Fill(html, marker, value) ==
  [place \in DOMAIN html |-> ReplacePlaceholder(html[place], marker, value)]

(* handle_blog_detail(): the markers are filled one after another; or the  *)
(* page that stands in for the template, which has no category.  The       *)
(* content is what the script gets to render.                              *)
DetailPage(row, found) ==
  LET html == [title |-> <<"{{TITLE}}">>, category |-> <<"{{CATEGORY}}">>,
               content |-> <<"{{CONTENT_JSON}}">>]
      h1 == Fill(html, "{{TITLE}}", HtmlEscape(row.title))
      h2 == Fill(h1, "{{CONTENT_JSON}}", EscapeJson(row.content))
      h3 == Fill(h2, "{{DATE}}", <<"date">>)
      h4 == Fill(h3, "{{CATEGORY}}", HtmlEscape(row.category))
      h5 == Fill(h4, "{{ID}}", <<"id">>)
  IN  IF found
      THEN [title |-> HtmlShows(h5.title), category |-> HtmlShows(h5.category),
            content |-> ScriptValue(h5.content)]
      ELSE [title |-> HtmlShows(HtmlEscape(row.title)),
            content |-> BlockShows(HtmlEscape(row.content))]

(* delete_html: markup with the article's number in it. *)
DeleteForm == <<"<", "form", "\"", "id", "\"", ">">>

(* handle_blog_edit_page(), the same for the editor.  What is filled in    *)
(* before the texts is left out.                                           *)
EditorPage(row) ==
  LET html == [title |-> <<"{{TITLE_VALUE}}">>, category |-> <<"{{CATEGORY_VALUE}}">>,
               content |-> <<"{{CONTENT_VALUE}}">>]
      h1 == Fill(html, "{{TITLE_VALUE}}", HtmlEscape(row.title))
      h2 == Fill(h1, "{{CONTENT_VALUE}}", HtmlEscape(row.content))
      h3 == Fill(h2, "{{CATEGORY_VALUE}}", HtmlEscape(row.category))
      h4 == Fill(h3, "{{ID}}", <<"id">>)
      h5 == Fill(h4, "{{DELETE_HTML}}", DeleteForm)
  IN  [title |-> HtmlShows(h5.title), category |-> HtmlShows(h5.category),
       content |-> BlockShows(h5.content)]

(* handle_blog_list(): an article's title and category among the items.    *)
(* Without the template they are in the page when its marker is filled     *)
(* with all the items, which are markup.                                   *)
ListItem(id, row, found) ==
  LET shown(x) == HtmlShows(IF found THEN HtmlEscape(x)
                            ELSE ReplacePlaceholder(HtmlEscape(x), "{{ARTICLES}}", <<"<", "items">>))
  IN  [id |-> id, title |-> shown(row.title), category |-> shown(row.category)]

(* Mutant: a field is stored without url_decode(). *)
RowRaw(fields) ==
  LET value(key) == GetFormValue(FormBody(fields), key)
  IN  [title |-> value("title"), category |-> value("category"), content |-> value("content")]

(* What create and update store: the form's fields, decoded.               *)
Row(fields) ==
  LET value(key) == UrlDecode(GetFormValue(FormBody(fields), key))
  IN  [title |-> value("title"), category |-> value("category"), content |-> value("content")]

-----------------------------------------------------------------------------
(* A request arrives, and the handler runs up to its first guard.          *)

(* Mutant: the title and the content may be empty. *)
AfterSessionEmpty(r, known) ==
  \/ /\ ~known
     /\ AnswerKind("login first")
     /\ UNCHANGED cached
  \/ /\ known /\ r.op = "new"
     /\ AnswerKind("blank editor")
     /\ \E found \in BOOLEAN : ReadFile("editor", found)
  \/ /\ known /\ r.op # "new"
     /\ pc' = "work"
     /\ UNCHANGED <<page, cached>>

(* Mutant: a deletion does not ask who is logged in. *)
AfterSessionOpen(r, known) ==
  \/ /\ ~known /\ r.op # "delete"
     /\ AnswerKind("login first")
     /\ UNCHANGED cached
  \/ /\ known /\ r.op = "new"
     /\ AnswerKind("blank editor")
     /\ \E found \in BOOLEAN : ReadFile("editor", found)
  \/ /\ known /\ r.op \in {"create", "update"}
     /\ Row(r.fields).title = <<>> \/ Row(r.fields).content = <<>>
     /\ AnswerKind("fields empty")
     /\ UNCHANGED cached
  \/ /\ known \/ r.op = "delete"
     /\ r.op # "new"
     /\ r.op \in {"create", "update"} =>
          Row(r.fields).title # <<>> /\ Row(r.fields).content # <<>>
     /\ pc' = "work"
     /\ UNCHANGED <<page, cached>>

(* handle_blog_create() and the others past their session check.           *)
AfterSession(r, known) ==
  \/ /\ ~known
     /\ AnswerKind("login first")
     /\ UNCHANGED cached
  \/ /\ known /\ r.op = "new"
     /\ AnswerKind("blank editor")
     /\ \E found \in BOOLEAN : ReadFile("editor", found)
  \/ /\ known /\ r.op \in {"create", "update"}
     /\ Row(r.fields).title = <<>> \/ Row(r.fields).content = <<>>
     /\ AnswerKind("fields empty")
     /\ UNCHANGED cached
  \/ /\ known /\ r.op # "new"
     /\ r.op \in {"create", "update"} =>
          Row(r.fields).title # <<>> /\ Row(r.fields).content # <<>>
     /\ pc' = "work"
     /\ UNCHANGED <<page, cached>>

(* handle_get(), handle_post(), handle_blog_get() and handle_blog_post().  *)
Dispatch(b, r) ==
  /\ pc = "idle"
  /\ req' = r /\ by' = b /\ hurt' = FALSE
  /\ \/ /\ "id" \in DOMAIN r /\ r.id = 0
        /\ AnswerKind("not found")
        /\ UNCHANGED cached
     \/ /\ "name" \in DOMAIN r /\ (r.name = "" \/ r.password = "")
        /\ AnswerKind("name empty")
        /\ UNCHANGED cached
     \/ /\ "id" \in DOMAIN r => r.id # 0
        /\ r.op \in NeedsSession
        /\ IF cookie[b] = NoToken THEN AfterSession(r, FALSE)
           ELSE pc' = "session" /\ page' = [kind |-> "none"] /\ UNCHANGED cached
     \/ /\ "id" \in DOMAIN r => r.id # 0
        /\ "name" \in DOMAIN r => r.name # "" /\ r.password # ""
        /\ r.op \notin NeedsSession
        /\ pc' = "work"
        /\ page' = [kind |-> "none"]
        /\ UNCHANGED cached
  /\ UNCHANGED <<db, idle, held, browsers, typed, faults>>

(* The browser follows a link, or sends a form that its user has filled in. *)
Send(b) == \E r \in Request : (r.op = "create" => nextId \in Id) /\ Dispatch(b, r)

(* The editor is saved as it came, if its texts do not break its markup. *)
Save(b) ==
  /\ page.kind = "editor" /\ by = b
  /\ \A place \in DOMAIN page.fields : ~Contains(page.fields[place], "broken")
  /\ Dispatch(b, [op |-> "update", id |-> page.id, fields |-> page.fields])

-----------------------------------------------------------------------------
(* Guards and statements.                                                  *)

(* Sql_Connection_Guard: get_connection() waits while the queue is empty.  *)
Acquire ==
  /\ pc # "idle"
  /\ ~held
  /\ idle > 0
  /\ held' = TRUE
  /\ idle' = idle - 1
  /\ UNCHANGED <<db, cached, pc, request, page, browsers, typed, faults>>

(* The guard's destructor. *)
Release ==
  /\ held' = FALSE
  /\ idle' = idle + 1

(* A statement of the request's handler at place p: it succeeds, fails, or *)
(* takes effect and its reply is lost.                                     *)
Statement(p, ops, outcome) ==
  /\ pc = p /\ held
  /\ req.op \in ops
  /\ outcome # "ok" => faults < MaxFaults
  /\ faults' = IF outcome = "ok" THEN faults ELSE faults + 1
  /\ hurt' = (hurt \/ outcome # "ok")
  /\ UNCHANGED <<req, by>>

Query == {"ok", "fails"}
Change == {"ok", "fails", "lost"}

(* Mutant: the guard is still there when the handler asks for its own. *)
FindSessionHeld ==
  \E o \in Query :
    /\ Statement("session", NeedsSession, o)
    /\ held' = FALSE
    /\ UNCHANGED idle
    /\ AfterSession(req, o = "ok" /\ sessions[cookie[by]] # NoUser)
    /\ UNCHANGED <<db, browsers, typed>>

(* get_session_user_id() *)
FindSession ==
  \E o \in Query :
    /\ Statement("session", NeedsSession, o)
    /\ Release
    /\ AfterSession(req, o = "ok" /\ sessions[cookie[by]] # NoUser)
    /\ UNCHANGED <<db, browsers, typed>>

(* Mutant: the result of mysql_stmt_execute() is not looked at. *)
InsertUserAlways ==
  LET taken == users[req.name] # NoPassword IN
  \E o \in Change :
    /\ Statement("work", {"register"}, o)
    /\ Release
    /\ users' = IF o = "fails" \/ taken THEN users
                ELSE [users EXCEPT ![req.name] = req.password]
    /\ AnswerKind("registered")
    /\ UNCHANGED <<sessions, articles, nextId, cached, browsers, typed>>

(* register_user(): names are unique in the table. *)
InsertUser ==
  LET taken == users[req.name] # NoPassword IN
  \E o \in Change :
    /\ Statement("work", {"register"}, o)
    /\ Release
    /\ users' = IF o = "fails" \/ taken THEN users
                ELSE [users EXCEPT ![req.name] = req.password]
    /\ AnswerKind(IF o # "ok" THEN "error" ELSE IF taken THEN "exists" ELSE "registered")
    /\ UNCHANGED <<sessions, articles, nextId, cached, browsers, typed>>

(* login_user() *)
CheckPassword ==
  \E o \in Query :
    /\ Statement("work", {"login"}, o)
    /\ Release
    /\ IF o = "ok" /\ users[req.name] = req.password
       THEN pc' = "token" /\ UNCHANGED page
       ELSE AnswerKind(IF o = "ok" THEN "wrong" ELSE "error")
    /\ UNCHANGED <<db, cached, browsers, typed>>

(* Mutant: tokens may repeat. *)
FreshAny == Token

(* generate_token(): 32 random bytes, which are taken never to repeat. *)
Fresh == {t \in Token : sessions[t] = NoUser /\ \A b \in Browser : cookie[b] # t}

(* The rest of handle_login(), which does not look at the result.          *)
InsertSession ==
  \E o \in Change, t \in Fresh :
    /\ Statement("token", {"login"}, o)
    /\ Release
    /\ sessions' = IF o = "fails" THEN sessions ELSE [sessions EXCEPT ![t] = req.name]
    /\ cookie' = [cookie EXCEPT ![by] = t]
    /\ owner' = [owner EXCEPT ![by] = req.name]
    /\ AnswerKind("logged in")
    /\ UNCHANGED <<users, articles, nextId, cached, typed>>

(* Mutant: in ascending order. *)
OldestFirst(ids) ==
  CHOOSE s \in SeqOf(ids, MaxId) :
    Range(s) = ids /\ \A j, k \in DOMAIN s : j < k => s[j] < s[k]

(* ORDER BY: the newest first. *)
NewestFirst(ids) ==
  CHOOSE s \in SeqOf(ids, MaxId) :
    Range(s) = ids /\ \A j, k \in DOMAIN s : j < k => s[j] > s[k]

(* handle_blog_list() *)
SelectList ==
  LET rows == NewestFirst({i \in Id : articles[i] # NoRow})
      items(found) == [k \in 1..Min({Len(rows), ListLimit}) |->
                         ListItem(rows[k], articles[rows[k]], found)]
  IN \E o \in Query, found \in BOOLEAN :
       /\ Statement("work", {"list"}, o)
       /\ Release
       /\ ReadFile("list", found)
       /\ Answer([kind |-> "list", items |-> IF o = "ok" THEN items(found) ELSE <<>>])
       /\ UNCHANGED <<db, browsers, typed>>

(* handle_blog_detail() *)
SelectDetail ==
  \E o \in Query, found \in BOOLEAN :
    /\ Statement("work", {"detail"}, o)
    /\ Release
    /\ IF o = "ok" /\ articles[req.id] # NoRow
       THEN /\ ReadFile("detail", found)
            /\ Answer([kind |-> "article", id |-> req.id,
                       fields |-> DetailPage(articles[req.id], found)])
       ELSE AnswerKind("not found") /\ UNCHANGED cached
    /\ UNCHANGED <<db, browsers, typed>>

(* handle_blog_edit_page() *)
SelectEdit ==
  \E o \in Query, found \in BOOLEAN :
    /\ Statement("work", {"edit"}, o)
    /\ Release
    /\ IF o = "ok" /\ articles[req.id] # NoRow
       THEN /\ ReadFile("editor", found)
            /\ IF found
               THEN Answer([kind |-> "editor", id |-> req.id,
                            fields |-> EditorPage(articles[req.id])])
               ELSE AnswerKind("no template")
       ELSE AnswerKind("not found") /\ UNCHANGED cached
    /\ UNCHANGED <<db, browsers, typed>>

Store(id) ==
  /\ articles' = [articles EXCEPT ![id] = Row(req.fields)]
  /\ typed' = [typed EXCEPT ![id] = req.fields]

(* handle_blog_create() *)
InsertArticle ==
  \E o \in Change :
    /\ Statement("work", {"create"}, o)
    /\ Release
    /\ IF o = "fails" THEN UNCHANGED <<articles, typed, nextId>>
       ELSE Store(nextId) /\ nextId' = nextId + 1
    /\ AnswerKind(IF o = "ok" THEN "created" ELSE "error")
    /\ UNCHANGED <<users, sessions, cached, browsers>>

(* handle_blog_update(): an UPDATE that finds no row has succeeded. *)
UpdateArticle ==
  \E o \in Change :
    /\ Statement("work", {"update"}, o)
    /\ Release
    /\ IF o = "fails" \/ articles[req.id] = NoRow THEN UNCHANGED <<articles, typed>>
       ELSE Store(req.id)
    /\ AnswerKind(IF o = "ok" THEN "updated" ELSE "error")
    /\ UNCHANGED <<users, sessions, nextId, cached, browsers>>

(* handle_blog_delete(), which does not look at the result. *)
DeleteArticle ==
  \E o \in Change :
    /\ Statement("work", {"delete"}, o)
    /\ Release
    /\ IF o = "fails" THEN UNCHANGED <<articles, typed>>
       ELSE /\ articles' = [articles EXCEPT ![req.id] = NoRow]
            /\ typed' = [typed EXCEPT ![req.id] = NoRow]
    /\ AnswerKind("deleted")
    /\ UNCHANGED <<users, sessions, nextId, cached, browsers>>

HandlerStep ==
  \/ Acquire \/ FindSession
  \/ InsertUser \/ CheckPassword \/ InsertSession
  \/ SelectList \/ SelectDetail \/ SelectEdit
  \/ InsertArticle \/ UpdateArticle \/ DeleteArticle

Next == HandlerStep \/ \E b \in Browser : Send(b) \/ Save(b)

Spec == Init /\ [][Next]_vars

-----------------------------------------------------------------------------
(* A handler never waits for a pool connection, whatever the size of the   *)
(* pool, which matters because it would wait with users_mutex_ held: it    *)
(* has given its last one back whenever it asks for the next.              *)
HandlerNeverWaits == pc # "idle" /\ ~held => idle > 0

(* Articles change only in the row that the request names, or in a new     *)
(* one, and only for a browser whose cookie names a session.               *)
ChangesOwnRowLoggedIn ==
  [][\A i \in Id : articles'[i] # articles[i] =>
       /\ i = IF req.op = "create" THEN nextId ELSE req.id
       /\ req.op \in {"create", "update", "delete"}
       /\ cookie[by] # NoToken /\ sessions[cookie[by]] # NoUser]_vars

(* A cookie never opens somebody else's session: if the database knows a   *)
(* browser's token, it knows it as that of the user who logged in there.   *)
CookieIsOwnSession ==
  \A b \in Browser :
    cookie[b] # NoToken => sessions[cookie[b]] \in {NoUser, owner[b]}

(* What an answer says is so when it is sent.  Where handlers ignore a     *)
(* failure (the session of a login, a deletion) it is so unless one of the *)
(* request's statements failed, and 404 or "log in" may hide a failure;    *)
(* an error is reported only if there was one.                             *)
AnswerIsTrue ==
  CASE page.kind = "registered" -> users[req.name] = req.password
    [] page.kind = "exists" -> users[req.name] # NoPassword
    [] page.kind = "wrong" -> users[req.name] # req.password
    [] page.kind = "logged in" -> hurt \/ sessions[cookie[by]] = req.name
    [] page.kind = "created" -> articles[nextId - 1] = req.fields
    [] page.kind = "updated" -> articles[req.id] \in {NoRow, req.fields}
    [] page.kind = "deleted" -> hurt \/ articles[req.id] = NoRow
    [] page.kind = "not found" -> hurt \/ req.id = 0 \/ articles[req.id] = NoRow
    [] page.kind = "login first" ->
         hurt \/ cookie[by] = NoToken \/ sessions[cookie[by]] = NoUser
    [] page.kind = "error" -> hurt
    [] OTHER -> TRUE

(* The markers that are filled when texts of the authors are in the page   *)
(* already, and texts that hold none of them.                              *)
DetailMarkers == {"{{CONTENT_JSON}}", "{{DATE}}", "{{CATEGORY}}", "{{ID}}"}
EditorMarkers == {"{{CONTENT_VALUE}}", "{{CATEGORY_VALUE}}", "{{ID}}", "{{DELETE_HTML}}"}
ListMarkers == {"{{ARTICLES}}"}

Free(fields, markers) ==
  \A m \in markers :
    ~Contains(fields.title, m) /\ ~Contains(fields.category, m) /\ ~Contains(fields.content, m)

(* What the page of an article, the editor and the list's item show of     *)
(* what the author typed.  Excepted are texts that hold a marker filled    *)
(* later in the same page, contents that end the script they are in or     *)
(* begin a comment there, and a line break at the start, which <pre> and   *)
(* <textarea> swallow.                                                     *)
ReaderGets(t, shown) ==
  Free(t, DetailMarkers) =>
    /\ shown.title = t.title
    /\ "category" \in DOMAIN shown => shown.category = t.category
    /\ \/ shown.content \in {t.content, SkipBreak(t.content)}
       \/ LeavesScript(t.content)

EditorGets(t, shown) ==
  Free(t, EditorMarkers) =>
    shown = [title |-> t.title, category |-> t.category, content |-> SkipBreak(t.content)]

ListGets(t, item) ==
  Free(t, ListMarkers) => item.title = t.title /\ item.category = t.category

(* Readers, the list and the editor are shown what the author of the last  *)
(* change typed, through the form's encoding, the table, the escaping of   *)
(* each place of a page and the filling of the others, from the template   *)
(* or from the page in its stead, with the exceptions above.  So to open   *)
(* the editor and save changes nothing else.  The list has the newest      *)
(* articles.                                                               *)
ShowsTheText ==
  CASE page.kind = "article" -> ReaderGets(typed[page.id], page.fields)
    [] page.kind = "editor" -> EditorGets(typed[page.id], page.fields)
    [] page.kind = "list" /\ ~hurt ->
         /\ \A k \in DOMAIN page.items : ListGets(typed[page.items[k].id], page.items[k])
         /\ \A i \in Id : articles[i] # NoRow =>
              \/ \E k \in DOMAIN page.items : page.items[k].id = i
              \/ /\ Len(page.items) = ListLimit
                 /\ \A k \in DOMAIN page.items : page.items[k].id > i
    [] OTHER -> TRUE

(* A row comes through the form as it was typed, and is shown by each page *)
(* with the exceptions above.                                              *)
RowSurvives(row) ==
  /\ Row(row) = row
  /\ EditorGets(row, EditorPage(row))
  /\ \A found \in BOOLEAN :
       ReaderGets(row, DetailPage(row, found)) /\ ListGets(row, ListItem(1, row, found))

(* What an author types in a form is what the server decodes, and what it  *)
(* escapes for a page is what the browser reads there, for every short     *)
(* text; for a script, for every one that does not end it (TextSurvives).  *)
(* And every row of the sample texts survives the form and all the places  *)
(* of each page together.  It depends on no state; TLC evaluates it in the *)
(* first.                                                                  *)
EveryTextSurvives ==
  Init =>
    /\ \A s \in SeqOf(Char, MaxText) : TextSurvives(s)
    /\ \A row \in [title : Samples, category : Samples, content : Samples] : RowSurvives(row)

(* "the back end stores and returns the original text" (http-server-v1/README.md:64), and *)
(* escape_json() makes "a safe JSON string" of it (http/template.hpp:55):  *)
(* the reader's page shows every text as it was typed.                     *)
ReturnsOriginalText ==
  page.kind = "article" =>
    \A place \in DOMAIN page.fields : page.fields[place] = typed[page.id][place]
=============================================================================
