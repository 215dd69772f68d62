------------------------------- MODULE WebApp -------------------------------
(***************************************************************************)
(* The web application (application/hydrogenWeb.cpp) as the HttpCallback   *)
(* of an HttpServer: pages from files, a book list and accounts in an      *)
(* SQLite database, one client after another.  Without threads, as it is   *)
(* started by default, onRequest() runs from end to end on the loop.       *)
(*                                                                         *)
(* A process has MaxFds descriptors for connections, files and database    *)
(* handles.  serveFile() never closes its file and /booklist leaves its    *)
(* handle open when the query fails; files and dbs count these.            *)
(*                                                                         *)
(* app = "any" is the server under an arbitrary callback (AnyCallback).    *)
(***************************************************************************)
EXTENDS HttpServer

CONSTANTS
    WebScripts,    \* the scripts of clients of the web application
    Missing,       \* the paths of files that do not exist
    MaxFds,        \* bound: descriptors
    MaxClients     \* bound: connections, one after another

ASSUME WebAssumption ==
    /\ WebScripts \subseteq Scripts
    /\ {MaxFds, MaxClients} \subseteq Nat \ {0}

VARIABLES
    app,         \* the HttpCallback: "hydrogenWeb" or "any"
    clients,     \* connections accepted so far
    users,       \* rows of the table users: [username, password]
    files,       \* descriptors of serveFile()
    dbs,         \* database handles that are left open
    shown,       \* history: the last page that was sent, and the account
                 \* its request named
    costly       \* history: pages served from files, and failed book lists

webOnly == <<app, clients, users, files, dbs, shown, costly>>
webVars == <<vars, webOnly>>

Nothing == [path |-> "", page |-> "",
            account |-> [username |-> "", password |-> ""]]

WebInit ==
    /\ Init
    /\ app \in {"hydrogenWeb", "any"}
    /\ script \in WebScripts <=> app = "hydrogenWeb"
    /\ clients = 1
    /\ users = {}
    /\ files = 0 /\ dbs = 0
    /\ shown = Nothing
    /\ costly = 0

WebTypeOK ==
    /\ app \in {"hydrogenWeb", "any"}
    /\ clients \in 1..MaxClients
    /\ \A row \in users : DOMAIN row = {"username", "password"}
    /\ files \in 0..MaxFds /\ dbs \in 0..MaxFds /\ costly \in Nat
    /\ DOMAIN shown = {"path", "page", "account"}

(* descriptors in use, the connection's included, before a request *)
Used == 1 + files + dbs

-----------------------------------------------------------------------------
Target == script[request.path].target

(* getBody(), the empty string when nothing was posted *)
GetBody(name) == IF request.method = "POST" THEN Target[name] ELSE ""

AtPath(path) ==
    /\ app = "hydrogenWeb"
    /\ pc = "respond" /\ correct /\ state = "ALLOK"
    /\ Target.path = path

(* username and password of the request *)
Account == [username |-> GetBody("username"), password |-> GetBody("password")]

Rows(username) == {row \in users : row.username = username}

(* HttpResponse as onRequest() leaves it, and what the client sees of it *)
Show(page, code, last) ==
    /\ ProcessRequest(code, last)
    /\ shown' = IF conn = "CONNECTED"
                  THEN [path |-> Target.path, page |-> page, account |-> Account]
                  ELSE shown

Response404 == Show("404", 404, TRUE)
Response500 == Show("500", 500, TRUE)

(* a database error that onRequest() only logs: no status is set *)
ResponseUnset == Show("", 0, AsksToClose)

(* serveStatic() and serveFile(), while held database handles are open; a  *)
(* file that can be opened can be mapped.                                  *)
ServeStatic(page, held) ==
    \/ /\ page \notin Missing /\ Used + held < MaxFds
       /\ files' = files + 1
       /\ costly' = costly + 1
       /\ Show(page, 200, TRUE)
    \/ /\ page \in Missing \/ Used + held = MaxFds
       /\ Response500
       /\ UNCHANGED <<files, costly>>

StaticPaths == {"/home.html", "/none.html"}

StaticPage ==
    \E path \in StaticPaths :
        /\ AtPath(path)
        /\ ServeStatic(path, 0)
        /\ UNCHANGED <<app, clients, users, dbs>>

Time ==
    /\ AtPath("/time")
    /\ Show("/time", 200, TRUE)
    /\ UNCHANGED <<app, clients, users, files, dbs, costly>>

NotFound ==
    /\ AtPath("/unknown")
    /\ Response404
    /\ UNCHANGED <<app, clients, users, files, dbs, costly>>

(* openDb() fails *)
NoDatabase ==
    /\ \E path \in {"/booklist", "/signup", "/signin"} : AtPath(path)
    /\ Response500
    /\ UNCHANGED <<app, clients, users, files, dbs, costly>>

AtDatabase(path) == AtPath(path) /\ Used < MaxFds

(* the book list that is served with its handle left open *)
BookListKeepsHandle ==
    /\ AtDatabase("/booklist")
    /\ Show("/booklist", 200, TRUE)
    /\ dbs' = dbs + 1
    /\ UNCHANGED <<app, clients, users, files, costly>>

BookList ==
    /\ AtDatabase("/booklist")
    /\ Show("/booklist", 200, TRUE)
    /\ UNCHANGED <<app, clients, users, files, dbs, costly>>

BookListFails ==
    /\ AtDatabase("/booklist")
    /\ Response500
    /\ dbs' = dbs + 1
    /\ costly' = costly + 1
    /\ UNCHANGED <<app, clients, users, files>>

(* a query or the insertion fails *)
AccountFails ==
    /\ AtDatabase("/signup") \/ AtDatabase("/signin")
    /\ ResponseUnset
    /\ UNCHANGED <<app, clients, users, files, dbs, costly>>

(* a sign-up that does not look for the name first *)
SignUpBlindly ==
    /\ AtDatabase("/signup")
    /\ users' = users \cup {Account}
    /\ ServeStatic("/signin.html", 1)
    /\ UNCHANGED <<app, clients, dbs>>

(* a sign-up that inserts before it looks for the name *)
SignUpInsertsFirst ==
    /\ AtDatabase("/signup")
    /\ users' = users \cup {Account}
    /\ ServeStatic("/signup_error.html", 1)
    /\ UNCHANGED <<app, clients, dbs>>

SignUp ==
    /\ AtDatabase("/signup")
    /\ \/ /\ Rows(Account.username) = {}
          /\ users' = users \cup {Account}
          /\ ServeStatic("/signin.html", 1)
       \/ /\ Rows(Account.username) # {}
          /\ UNCHANGED users
          /\ ServeStatic("/signup_error.html", 1)
    /\ UNCHANGED <<app, clients, dbs>>

(* checkPassword() of every row *)
PasswordCorrect ==
    \A row \in Rows(Account.username) : row = Account

(* the error page also when the query for the password fails *)
SignIn ==
    /\ AtDatabase("/signin")
    /\ \/ ServeStatic("/signin_error.html", 1)
       \/ /\ Rows(Account.username) # {}
          /\ PasswordCorrect
          /\ ServeStatic("/selection.html", 1)
    /\ UNCHANGED <<app, clients, users, dbs>>

OnRequest ==
    \/ StaticPage \/ Time \/ NotFound \/ NoDatabase \/ BookList
    \/ BookListFails \/ AccountFails \/ SignUp \/ SignIn

-----------------------------------------------------------------------------
(* The client closes when all it sent was read; its connection goes down,  *)
(* the next one is accepted and onConnection() sets a fresh context.       *)
NextClient ==
    /\ app = "hydrogenWeb"
    /\ pc = "poll" /\ net = <<>>
    /\ clients < MaxClients
    /\ clients' = clients + 1
    /\ script' \in WebScripts /\ pipelines' \in BOOLEAN
    /\ sent' = 0 /\ buffer' = <<>> /\ skip' = FALSE
    /\ state' = "EXPECTREQUESTLINE" /\ request' = EmptyRequest
    /\ correct' = TRUE /\ conn' = "CONNECTED" /\ responses' = <<>>
    /\ assertFailed' = FALSE
    /\ shown' = Nothing
    /\ UNCHANGED <<net, pc, app, users, files, dbs, costly>>

WebStep ==
    \/ LoopStep /\ UNCHANGED webOnly
    \/ app = "any" /\ AnyCallback /\ UNCHANGED webOnly
    \/ OnRequest

WebNext ==
    \/ ClientSends /\ UNCHANGED webOnly
    \/ OnMessageWithoutData /\ UNCHANGED webOnly
    \/ WebStep
    \/ NextClient

(* The loop thread is scheduled; clients do as they like. *)
WebSpec == WebInit /\ [][WebNext]_webVars /\ WF_webVars(WebStep)

-----------------------------------------------------------------------------
(* What the pages of /signup and /signin say is so: no two accounts have   *)
(* one name; who sees the selection gave the password of the account, who  *)
(* is sent to sign in after a sign-up has the account with the password he *)
(* chose, and who is told that the name is taken chose the name of one.    *)
PagesAreTrue ==
    /\ WebTypeOK
    /\ \A a, b \in users : a.username = b.username => a = b
    /\ shown.page \in {"/selection.html", "/signin.html"} => shown.account \in users
    /\ shown.page = "/signup_error.html" => Rows(shown.account.username) # {}

(* Whoever gets an account is told so, with three exceptions: serveFile()  *)
(* found no page or no descriptor for it; a client that did not wait for   *)
(* the answer before, which closed the connection; and a body that came in *)
(* two segments, of which the first is answered with a 400, while the      *)
(* second completes the request and has it processed after all.            *)
SignUpsAreConfirmed ==
    [][users' # users =>
          \/ shown'.page = "/signin.html"
          \/ "/signin.html" \in Missing \/ Used + 1 = MaxFds
          \/ pipelines
          \/ responses # <<>> /\ responses[Len(responses)].code = 400]_webVars

(* A page that exists is served, until so many were served, or book lists  *)
(* failed, that nothing is left but the descriptor of the connection:      *)
(* nothing else uses descriptors up.                                       *)
PagesServed ==
    shown.path \in StaticPaths \ Missing /\ shown.page = "500"
        => costly + 1 >= MaxFds
=============================================================================
