---------------------------- MODULE WebAppProofs ----------------------------
(***************************************************************************)
(* Proofs about HttpServer and WebApp for any scripts of any length, cut   *)
(* into segments in any way, and any number of clients and descriptors:    *)
(* answers match requests, and what the pages say is so.                   *)
(***************************************************************************)
EXTENDS WebApp, SequenceTheorems, TLAPS

(* The pieces the server has not consumed yet: those in the buffer and     *)
(* behind them those on the net.                                           *)
Ahead == Len(buffer) + Len(net)

Piece(j) == IF j <= Len(buffer) THEN buffer[j] ELSE net[j - Len(buffer)]

(* pieces of the request of the j-th piece that follow it *)
Rest(j) == Size(Piece(j).req) - Piece(j).pos

(* They are in the order they were sent in, none is missing, and the last  *)
(* one is the last piece of the last request that was sent.                *)
Contiguous ==
    \A j \in 1..Ahead :
        /\ Piece(j).req \in 1..sent /\ Piece(j).pos \in 1..Size(Piece(j).req)
        /\ \A l \in j..Ahead :
              /\ l - j <= Rest(j) =>
                    Piece(l).req = Piece(j).req /\ Piece(l).pos = Piece(j).pos + (l - j)
              /\ l - j = Rest(j) + 1 =>
                    Piece(l).req = Piece(j).req + 1 /\ Piece(l).pos = 1

EndsWithLast ==
    Ahead > 0 => Piece(Ahead).req = sent /\ Piece(Ahead).pos = Size(sent)

Undamaged == \A j \in 1..Len(net) : ~net[j].damaged

Queue == Contiguous /\ EndsWithLast /\ Undamaged

(* the next piece is piece k of request c *)
First(c, k) ==
    IF Ahead > 0 THEN Piece(1).req = c /\ Piece(1).pos = k
                 ELSE c = sent + 1 /\ k = 1

-----------------------------------------------------------------------------
IsPost(c) == script[c].method = "POST"

AfterPost(c) == c > 1 /\ IsPost(c - 1)

(* the request line of c was parsed, and its header was or was not *)
Parsed(c, headers) ==
    /\ c <= sent
    /\ script[c].line = "ok"
    /\ request = [method |-> script[c].method, version |-> script[c].version,
                  path |-> c, headers |-> headers]

(* How far the parser is in request c. *)
Position(c) ==
    \/ /\ state = "EXPECTREQUESTLINE"
       /\ First(c, 1) /\ request.headers = {}
    \/ /\ state = "EXPECTHEADERS"
       /\ \/ Parsed(c, {}) /\ First(c, 3)
          \/ Parsed(c, {c}) /\ First(c, 5)
    \/ /\ state = "EXPECTBODY"
       /\ Parsed(c, {c}) /\ IsPost(c)
       /\ IF script[c].pairs > 0 THEN First(c, 7) ELSE First(c + 1, 1)
    \/ /\ state = "ALLOK" /\ pc = "respond" /\ correct
       /\ Parsed(c, {c}) /\ WellFormed(c) /\ First(c + 1, 1)

(* The byte that is lost behind a body is one of the next request line. *)
Damage(c) ==
    /\ \A j \in 1..Len(buffer) :
          buffer[j].damaged => j = 1 /\ state = "EXPECTREQUESTLINE" /\ AfterPost(c)
    /\ skip => /\ buffer = <<>>
               /\ \/ state = "ALLOK" /\ IsPost(c)
                  \/ state = "EXPECTREQUESTLINE" /\ AfterPost(c)

(* What parseRequest() has found: nothing wrong yet, or why it refuses. *)
Verdict(c) ==
    /\ pc = "parse" => correct
    /\ pc = "respond" /\ ~correct =>
          c <= sent /\ (WellFormed(c) => IsPost(c) \/ AfterPost(c))
    /\ pc = "dead" => \E k \in 1..sent : IsPost(k) /\ (script[k].measured => skip)

(* While the connection is open, request c is the next one to be answered  *)
(* and setMethod() will find a cleared request.                            *)
Open(c) ==
    conn = "CONNECTED" =>
        /\ Len(responses) = c - 1
        /\ ~assertFailed
        /\ state = "EXPECTREQUESTLINE" =>
              request.method = "INVALID" \/ (pc = "respond" /\ ~correct)

(* every answer: to which request, why a refusal, and does it close *)
Answered(k) ==
    /\ responses[k].code # 400 => k <= sent /\ responses[k].of = {k} /\ WellFormed(k)
    /\ responses[k].code = 400 =>
          responses[k].last /\ (WellFormed(k) => IsPost(k) \/ AfterPost(k))
    /\ responses[k].last => k = Len(responses)
    /\ ~responses[k].last => ~Close(script[k].version, script[k].connection)

Answers ==
    /\ \A k \in 1..Len(responses) : Answered(k)
    /\ conn = "DISCONNECTING" <=> responses # <<>> /\ responses[Len(responses)].last

(* A client that waits for its answers has one request under way, and none *)
(* behind an answer that closes the connection, unless it was a refusal.   *)
Waits(c) ==
    ~pipelines =>
        /\ sent <= Len(responses) + 1
        /\ conn = "DISCONNECTING" /\ responses[Len(responses)].code # 400
              => c = sent + 1

Parser(c) ==
    Position(c) /\ Damage(c) /\ Verdict(c) /\ Open(c) /\ Waits(c)

(* The inductive invariant of HttpServer. *)
HttpInv ==
    /\ TypeOK /\ Queue /\ Answers
    /\ \E c \in 1..sent + 1 : Parser(c)

(* The inductive invariant of the web application's own state. *)
WebInv ==
    /\ PagesAreTrue /\ PagesServed
    /\ costly = files + dbs


-----------------------------------------------------------------------------
(* What the client sees is left as it is or replaced by page. *)
Seen(path, page) ==
    shown' \in {shown, [path |-> path, page |-> page, account |-> Account]}

(* Show() shows nothing but its page. *)
LEMMA ShowIsSeen ==
    ASSUME NEW page, NEW code, NEW last, NEW path, AtPath(path), Show(page, code, last)
    PROVE  Seen(path, page)
BY DEF Show, AtPath, Seen

(* ServeStatic() shows the page or an error, and counts its descriptor. *)
LEMMA ServeStaticShows ==
    ASSUME WebInv, NEW path, AtPath(path), NEW page, NEW held \in Nat,
           ServeStatic(page, held)
    PROVE  /\ files' \in 0..MaxFds /\ costly' \in Nat /\ costly' >= costly
           /\ costly' = files' + dbs
           /\ \/ Seen(path, page)
              \/ Seen(path, "500") /\ (page \in Missing \/ 1 + costly + held = MaxFds)
<1>1. /\ files \in Nat /\ dbs \in Nat /\ MaxFds \in Nat /\ costly \in Nat
      /\ files \in 0..MaxFds /\ costly = files + dbs
  BY WebAssumption DEF WebInv, PagesAreTrue, WebTypeOK
<1>2. CASE /\ page \notin Missing /\ Used + held < MaxFds
           /\ files' = files + 1 /\ costly' = costly + 1
           /\ Show(page, 200, TRUE)
  <2>1. 1 + files + dbs + held < MaxFds
    BY <1>2 DEF Used
  <2>2. /\ files + 1 \in 0..MaxFds /\ costly + 1 \in Nat /\ costly + 1 >= costly
        /\ costly + 1 = files + 1 + dbs
    BY <1>1, <2>1
  <2>3. Seen(path, page)
    BY <1>2, ShowIsSeen
  <2> QED
    BY <1>2, <2>2, <2>3
<1>3. CASE /\ page \in Missing \/ Used + held = MaxFds
           /\ Response500
           /\ UNCHANGED <<files, costly>>
  <2>1. 1 + files + dbs + held = MaxFds => 1 + costly + held = MaxFds
    BY <1>1
  <2>2. costly >= costly
    BY <1>1
  <2>3. Seen(path, "500")
    BY <1>3, ShowIsSeen DEF Response500
  <2> QED
    BY <1>1, <1>3, <2>1, <2>2, <2>3 DEF Used
<1> QED
  BY <1>2, <1>3 DEF ServeStatic

(* The state of the application after a page was shown. *)
LEMMA ShownIsTrue ==
    ASSUME WebInv, NEW page, NEW path,
           Seen(path, page),
           users \subseteq users',
           \A row \in users' : row \in users \/ row = Account,
           users' = users \/ Rows(Account.username) = {},
           page \in {"/selection.html", "/signin.html"} => Account \in users',
           page = "/signup_error.html" => Rows(Account.username) # {},
           path \in StaticPaths \ Missing /\ page = "500" => costly + 1 >= MaxFds,
           UNCHANGED <<app, clients>>,
           files' \in 0..MaxFds, dbs' \in 0..MaxFds, costly' \in Nat,
           costly' >= costly, costly' = files' + dbs'
    PROVE  WebInv'
<1>1. /\ WebTypeOK /\ PagesAreTrue /\ PagesServed /\ costly \in Nat /\ MaxFds \in Nat
  BY WebAssumption DEF WebInv, PagesAreTrue, WebTypeOK
<1>2. DOMAIN Account = {"username", "password"}
  BY DEF Account
<1>3. WebTypeOK'
  BY <1>1, <1>2 DEF WebTypeOK, Seen
<1>4. \A a, b \in users' : a.username = b.username => a = b
  BY <1>1 DEF PagesAreTrue, Rows
<1>5. /\ shown'.page \in {"/selection.html", "/signin.html"} => shown'.account \in users'
      /\ shown'.page = "/signup_error.html" => \E row \in users' : row.username = shown'.account.username
  BY <1>1 DEF PagesAreTrue, Rows, Seen
<1>6. PagesAreTrue'
  BY <1>3, <1>4, <1>5 DEF PagesAreTrue, Rows
<1>7. PagesServed'
  <2>1. /\ shown'.path \in StaticPaths \ Missing /\ shown'.page = "500"
            => costly + 1 >= MaxFds
    BY <1>1 DEF PagesServed, Seen
  <2>2. costly + 1 >= MaxFds => costly' + 1 >= MaxFds
    <3>1. \A a, b, m \in Nat : b >= a /\ a + 1 >= m => b + 1 >= m
      OBVIOUS
    <3> QED
      BY <1>1, <3>1
  <2>3. StaticPaths' = StaticPaths
    BY DEF StaticPaths
  <2> QED
    BY <2>1, <2>2, <2>3 DEF PagesServed
<1> QED
  BY <1>6, <1>7 DEF WebInv

(* Every branch of onRequest() keeps the pages true and the leaks counted. *)
LEMMA NextWebInv == WebInv /\ [WebNext]_webVars => WebInv'
<1> SUFFICES ASSUME WebInv, [WebNext]_webVars PROVE WebInv'
  OBVIOUS
<1>0. /\ WebTypeOK /\ costly \in Nat /\ files \in 0..MaxFds /\ dbs \in 0..MaxFds
      /\ MaxFds \in Nat /\ files \in Nat /\ dbs \in Nat /\ costly = files + dbs
  BY WebAssumption DEF WebInv, PagesAreTrue, WebTypeOK
<1>1. ASSUME UNCHANGED webOnly PROVE WebInv'
  BY <1>1 DEF WebInv, PagesAreTrue, PagesServed, WebTypeOK, Rows, webOnly
<1>2. ASSUME NEW page, NEW code, NEW last, NEW path, AtPath(path),
             Show(page, code, last), UNCHANGED <<app, clients, users, files, dbs, costly>>,
             page \notin {"/selection.html", "/signin.html", "/signup_error.html"},
             page = "500" => path \notin StaticPaths
      PROVE  WebInv'
  <2>1. Seen(path, page)
    BY <1>2, ShowIsSeen
  <2> QED
    BY <1>0, <1>2, <2>1, ShownIsTrue
<1>3. CASE NextClient
  <2>1. /\ clients' \in 1..MaxClients /\ shown' = Nothing
        /\ UNCHANGED <<app, users, files, dbs, costly>>
    BY <1>0, <1>3, WebAssumption DEF NextClient, WebTypeOK
  <2> QED
    BY <1>0, <2>1 DEF WebInv, PagesAreTrue, PagesServed, WebTypeOK, Nothing, Rows
<1>4. CASE StaticPage
  <2>1. PICK path \in StaticPaths : /\ AtPath(path) /\ ServeStatic(path, 0)
                                    /\ UNCHANGED <<app, clients, users, dbs>>
    BY <1>4 DEF StaticPage
  <2>2. /\ files' \in 0..MaxFds /\ costly' \in Nat /\ costly' >= costly
        /\ costly' = files' + dbs'
    BY <1>0, <2>1, ServeStaticShows
  <2>3. path \notin {"/selection.html", "/signin.html", "/signup_error.html", "500"}
    BY DEF StaticPaths
  <2>4. CASE Seen(path, path)
    BY <1>0, <2>1, <2>2, <2>3, <2>4, ShownIsTrue
  <2>5. CASE Seen(path, "500") /\ (path \in Missing \/ 1 + costly + 0 = MaxFds)
    <3>1. path \notin Missing => costly + 1 >= MaxFds
      BY <1>0, <2>5
    <3> QED
      BY <1>0, <2>1, <2>2, <2>5, <3>1, ShownIsTrue
  <2> QED
    BY <2>1, <2>4, <2>5, ServeStaticShows
<1>5. CASE Time
  BY <1>2, <1>5 DEF Time
<1>6. CASE NotFound
  BY <1>2, <1>6 DEF NotFound, Response404
<1>7. CASE NoDatabase
  BY <1>2, <1>7 DEF NoDatabase, Response500, StaticPaths
<1>8. CASE BookList
  BY <1>2, <1>8 DEF BookList, AtDatabase
<1>9. CASE BookListFails
  <2>1. /\ AtPath("/booklist") /\ Show("500", 500, TRUE)
        /\ dbs' = dbs + 1 /\ costly' = costly + 1
        /\ UNCHANGED <<app, clients, users, files>>
        /\ dbs + 1 \in 0..MaxFds
    <3>1. 1 + files + dbs < MaxFds
      BY <1>9 DEF BookListFails, AtDatabase, Used
    <3>2. dbs + 1 \in 0..MaxFds
      BY <1>0, <3>1
    <3> QED
      BY <1>9, <3>2 DEF BookListFails, AtDatabase, Response500
  <2>2. Seen("/booklist", "500")
    BY <2>1, ShowIsSeen
  <2>3. /\ costly' \in Nat /\ costly' >= costly /\ costly' = files' + dbs'
    BY <1>0, <2>1
  <2>4. "/booklist" \notin StaticPaths
    BY DEF StaticPaths
  <2> QED
    BY <1>0, <2>1, <2>2, <2>3, <2>4, ShownIsTrue
<1>10. CASE AccountFails
  BY <1>2, <1>10 DEF AccountFails, AtDatabase, ResponseUnset
<1>11. ASSUME NEW path \in {"/signup", "/signin"}, AtPath(path),
              NEW page, page \notin {"500"}, ServeStatic(page, 1),
              users \subseteq users',
              \A row \in users' : row \in users \/ row = Account,
              users' = users \/ Rows(Account.username) = {},
              page \in {"/selection.html", "/signin.html"} => Account \in users',
              page = "/signup_error.html" => Rows(Account.username) # {},
              UNCHANGED <<app, clients, dbs>>
       PROVE  WebInv'
  <2>1. /\ files' \in 0..MaxFds /\ costly' \in Nat /\ costly' >= costly
        /\ costly' = files' + dbs' /\ dbs' \in 0..MaxFds
        /\ Seen(path, page) \/ Seen(path, "500")
    BY <1>0, <1>11, ServeStaticShows
  <2>2. path \notin StaticPaths
    BY DEF StaticPaths
  <2>3. /\ users \subseteq users' /\ UNCHANGED <<app, clients, dbs>>
        /\ \A row \in users' : row \in users \/ row = Account
        /\ users' = users \/ Rows(Account.username) = {}
    BY <1>11
  <2>4. CASE Seen(path, page)
    BY <1>11, <2>1, <2>2, <2>3, <2>4, ShownIsTrue
  <2>5. CASE Seen(path, "500")
    <3>1. "500" \notin {"/selection.html", "/signin.html", "/signup_error.html"}
      OBVIOUS
    <3> QED
      BY <2>1, <2>2, <2>3, <2>5, <3>1, ShownIsTrue
  <2> QED
    BY <2>1, <2>4, <2>5
<1>12. CASE SignUp
  BY <1>11, <1>12 DEF SignUp, AtDatabase
<1>13. CASE SignIn
  <2>1. AtPath("/signin") /\ UNCHANGED <<app, clients, users, dbs>>
    BY <1>13 DEF SignIn, AtDatabase
  <2>2. CASE ServeStatic("/signin_error.html", 1)
    BY <1>11, <2>1, <2>2
  <2>3. CASE /\ Rows(Account.username) # {} /\ PasswordCorrect
             /\ ServeStatic("/selection.html", 1)
    <3>1. Account \in users
      BY <2>3 DEF Rows, PasswordCorrect
    <3> QED
      BY <1>11, <2>1, <2>3, <3>1
  <2> QED
    BY <1>13, <2>2, <2>3 DEF SignIn
<1>14. CASE UNCHANGED webVars
  BY <1>1, <1>14 DEF webVars
<1> QED
  BY <1>1, <1>3, <1>4, <1>5, <1>6, <1>7, <1>8, <1>9, <1>10, <1>12, <1>13, <1>14
     DEF WebNext, WebStep, OnRequest

(* Nothing is shown and nothing leaked at the start. *)
LEMMA InitWebInv == WebInit => WebInv
<1> SUFFICES ASSUME WebInit PROVE WebInv
  OBVIOUS
<1>1. /\ 1 \in 1..MaxClients /\ 0 \in 0..MaxFds /\ 0 = 0 + 0
  BY WebAssumption
<1>2. WebTypeOK
  BY <1>1 DEF WebInit, WebTypeOK, Nothing
<1>3. shown.page = ""
  BY DEF WebInit, Nothing
<1> QED
  BY <1>1, <1>2, <1>3 DEF WebInit, WebInv, PagesAreTrue, PagesServed

(* What the pages of /signup and /signin say is so, for any clients: the   *)
(* accounts of the table users are never two of one name, and a page that  *)
(* confirms or denies something was decided on the rows that are there.    *)
THEOREM PagesAreTrueHolds == WebSpec => []PagesAreTrue
<1>1. WebInv => PagesAreTrue
  BY DEF WebInv
<1> QED
  BY <1>1, InitWebInv, NextWebInv, PTL DEF WebSpec

(* A page that exists is refused only when all the descriptors are gone    *)
(* into serveFile() and failed book lists, for any number of descriptors.  *)
THEOREM PagesServedHolds == WebSpec => []PagesServed
<1>1. WebInv => PagesServed
  BY DEF WebInv
<1> QED
  BY <1>1, InitWebInv, NextWebInv, PTL DEF WebSpec

-----------------------------------------------------------------------------
(* Types the lemmas below are about. *)
LEMMA Types ==
    ASSUME TypeOK
    PROVE  /\ script \in Seq(Requests) /\ Len(script) \in Nat
           /\ sent \in Nat /\ sent <= Len(script)
           /\ buffer \in Seq(Pieces) /\ Len(buffer) \in Nat
           /\ net \in Seq(Pieces) /\ Len(net) \in Nat
           /\ Ahead \in Nat
           /\ \A j \in 1..Len(buffer) : buffer[j] \in Pieces
           /\ \A j \in 1..Len(net) : net[j] \in Pieces
<1>1. script \in Seq(Requests) /\ buffer \in Seq(Pieces) /\ net \in Seq(Pieces)
  BY HttpAssumption DEF TypeOK
<1>2. Len(script) \in Nat /\ Len(buffer) \in Nat /\ Len(net) \in Nat
  BY <1>1
<1>3. sent \in Nat /\ sent <= Len(script)
  BY <1>2 DEF TypeOK
<1>4. /\ \A j \in 1..Len(buffer) : buffer[j] \in Pieces
      /\ \A j \in 1..Len(net) : net[j] \in Pieces
  BY <1>1
<1> QED
  BY <1>1, <1>2, <1>3, <1>4 DEF Ahead

(* How many pieces a request has. *)
LEMMA Sizes ==
    ASSUME TypeOK, NEW i \in 1..Len(script)
    PROVE  /\ script[i] \in Requests
           /\ script[i].pairs \in Nat
           /\ Size(i) \in Nat /\ Size(i) = 6 + 2 * script[i].pairs
           /\ script[i].method \in {"GET", "POST"}
           /\ script[i].method = "GET" => Size(i) = 6
<1>1. script[i] \in Requests /\ (script[i].method = "GET" => script[i].pairs = 0)
  BY HttpAssumption, Types DEF TypeOK
<1> QED
  BY <1>1 DEF Requests, Size

(* What is ahead are pieces. *)
LEMMA PieceTypes ==
    ASSUME TypeOK, NEW j \in 1..Ahead
    PROVE  /\ Piece(j) \in Pieces
           /\ Piece(j).req \in Nat /\ Piece(j).pos \in Nat
<1>1. Piece(j) \in Pieces
  BY Types DEF Piece, Ahead
<1> QED
  BY <1>1 DEF Pieces

(* Pieces that are read into the buffer stay where they are. *)
LEMMA QueueKept ==
    ASSUME TypeOK, Queue, UNCHANGED <<script, sent>>, Ahead' = Ahead,
           \A j \in 1..Ahead : /\ Piece(j)'.req = Piece(j).req
                               /\ Piece(j)'.pos = Piece(j).pos
    PROVE  /\ Contiguous' /\ EndsWithLast'
           /\ \A c, k : First(c, k)' <=> First(c, k)
<1>1. Ahead \in Nat
  BY Types
<1>2. \A i : Size(i)' = Size(i)
  BY DEF Size
<1>3. \A j \in 1..Ahead : Rest(j)' = Rest(j)
  BY <1>2 DEF Rest
<1>4. Contiguous'
  BY <1>1, <1>2, <1>3 DEF Queue, Contiguous
<1>5. EndsWithLast'
  BY <1>1, <1>2 DEF Queue, EndsWithLast
<1>6. \A c, k : First(c, k)' <=> First(c, k)
  BY <1>1 DEF First
<1> QED
  BY <1>4, <1>5, <1>6

(* Pieces that are consumed leave the others in order. *)
LEMMA QueueDropped ==
    ASSUME TypeOK, Queue, UNCHANGED <<script, sent, net>>,
           NEW n \in 1..Len(buffer),
           buffer' = SubSeq(buffer, n + 1, Len(buffer))
    PROVE  /\ buffer' \in Seq(Pieces) /\ Len(buffer') = Len(buffer) - n
           /\ \A j \in 1..Len(buffer') : buffer'[j] = buffer[j + n]
           /\ Ahead' = Ahead - n
           /\ \A j \in 1..Ahead' : Piece(j)' = Piece(j + n)
<1>1. /\ buffer' \in Seq(Pieces) /\ Len(buffer') = Len(buffer) - n
      /\ \A j \in 1..Len(buffer') : buffer'[j] = buffer[j + n]
  <2>1. \A i \in n + 1..Len(buffer) : buffer[i] \in Pieces
    BY Types
  <2>2. n + 1 \in Int /\ Len(buffer) \in Int /\ n \in Nat /\ n <= Len(buffer)
    BY Types
  <2>3. /\ buffer' \in Seq(Pieces)
        /\ Len(buffer') = IF n + 1 <= Len(buffer) THEN Len(buffer) - (n + 1) + 1 ELSE 0
        /\ \A i \in 1..Len(buffer) - (n + 1) + 1 : buffer'[i] = buffer[(n + 1) + i - 1]
    BY <2>1, <2>2, SubSeqProperties
  <2>4. Len(buffer') = Len(buffer) - n
    BY <2>2, <2>3
  <2>5. \A i \in 1..Len(buffer') : i \in 1..Len(buffer) - (n + 1) + 1 /\ (n + 1) + i - 1 = i + n
    BY <2>2, <2>4
  <2> QED
    BY <2>3, <2>4, <2>5
<1>2. Ahead' = Ahead - n
  <2>1. Len(buffer) \in Nat /\ Len(net) \in Nat /\ n \in Nat
    BY Types
  <2>2. Ahead' = (Len(buffer) - n) + Len(net)
    BY <1>1 DEF Ahead
  <2> QED
    BY <2>1, <2>2 DEF Ahead
<1>3. ASSUME NEW j \in 1..Ahead' PROVE Piece(j)' = Piece(j + n)
  <2>1. Len(buffer) \in Nat /\ Len(net) \in Nat /\ n \in Nat /\ j \in Nat /\ j >= 1
    BY <1>2, Types
  <2>2. CASE j <= Len(buffer')
    <3>1. j + n <= Len(buffer) /\ j \in 1..Len(buffer')
      BY <1>1, <2>1, <2>2
    <3> QED
      BY <1>1, <2>2, <3>1 DEF Piece
  <2>3. CASE ~(j <= Len(buffer'))
    <3>1. ~(j + n <= Len(buffer)) /\ j - Len(buffer') = j + n - Len(buffer)
      BY <1>1, <2>1, <2>3
    <3> QED
      BY <1>1, <2>3, <3>1 DEF Piece
  <2> QED
    BY <2>2, <2>3
<1> QED
  BY <1>1, <1>2, <1>3

(* Consuming pieces from the front keeps the rest in order. *)
LEMMA QueueStillOrdered ==
    ASSUME TypeOK, Queue, UNCHANGED <<script, sent>>,
           NEW n \in 1..Ahead, Ahead' = Ahead - n,
           \A j \in 1..Ahead' : Piece(j)' = Piece(j + n)
    PROVE  Contiguous' /\ EndsWithLast'
<1>1. Ahead \in Nat /\ n \in Nat
  BY Types
<1>2. \A i : Size(i)' = Size(i)
  BY DEF Size
<1>3. \A j \in 1..Ahead' : Rest(j)' = Rest(j + n) /\ j + n \in 1..Ahead
  BY <1>1, <1>2 DEF Rest
<1>4. ASSUME NEW j \in 1..Ahead'
      PROVE  /\ Piece(j)'.req \in 1..sent' /\ (Piece(j).pos \in 1..Size(Piece(j).req))'
             /\ \A l \in j..Ahead' :
                  /\ l - j <= Rest(j)' =>
                        /\ Piece(l)'.req = Piece(j)'.req
                        /\ Piece(l)'.pos = Piece(j)'.pos + (l - j)
                  /\ l - j = Rest(j)' + 1 =>
                        Piece(l)'.req = Piece(j)'.req + 1 /\ Piece(l)'.pos = 1
  <2>1. j + n \in 1..Ahead /\ Piece(j)' = Piece(j + n) /\ Rest(j)' = Rest(j + n)
    BY <1>3
  <2>2. ASSUME NEW l \in j..Ahead'
        PROVE  /\ l + n \in (j + n)..Ahead /\ Piece(l)' = Piece(l + n)
               /\ (l + n) - (j + n) = l - j
    BY <1>1
  <2> QED
    BY <1>2, <2>1, <2>2 DEF Queue, Contiguous
<1>5. EndsWithLast'
  <2>1. Ahead' > 0 => Ahead' \in 1..Ahead' /\ Ahead' + n = Ahead /\ Ahead > 0
    BY <1>1
  <2> QED
    BY <1>2, <2>1 DEF Queue, EndsWithLast
<1> QED
  BY <1>4, <1>5 DEF Contiguous

(* Where the queue starts after n pieces of request c were consumed. *)
LEMMA FirstAfter ==
    ASSUME TypeOK, Queue, UNCHANGED <<script, sent>>,
           NEW n \in 1..Ahead, Ahead' = Ahead - n,
           \A j \in 1..Ahead' : Piece(j)' = Piece(j + n),
           NEW c, NEW k, First(c, k)
    PROVE  /\ c \in 1..sent /\ k \in 1..Size(c)
           /\ n <= Size(c) - k => First(c, k + n)'
           /\ n = Size(c) - k + 1 => First(c + 1, 1)'
           /\ \A i \in 1..n : i <= Size(c) - k + 1 => Piece(i).req = c
<1>1. Ahead \in Nat /\ n \in Nat /\ n >= 1 /\ n <= Ahead /\ Ahead > 0
  BY Types
<1>2. 1 \in 1..Ahead /\ Piece(1).req = c /\ Piece(1).pos = k
  BY <1>1 DEF First
<1>3. c \in 1..sent /\ k \in 1..Size(c) /\ Rest(1) = Size(c) - k
  BY <1>2 DEF Queue, Contiguous, Rest
<1>4. /\ sent \in Nat /\ Size(c) \in Nat /\ k \in Nat
  <2>1. sent \in Nat /\ c \in 1..Len(script)
    BY <1>3, Types
  <2> QED
    BY <1>3, <2>1, Sizes
<1>5. ASSUME NEW i \in 1..Ahead
      PROVE  /\ i - 1 <= Size(c) - k => Piece(i).req = c /\ Piece(i).pos = k + (i - 1)
             /\ i - 1 = Size(c) - k + 1 => Piece(i).req = c + 1 /\ Piece(i).pos = 1
  BY <1>1, <1>2, <1>3 DEF Queue, Contiguous
<1>6. ASSUME n <= Size(c) - k PROVE First(c, k + n)'
  <2>1. Piece(n).req = c /\ Piece(n).pos = k + (n - 1)
    BY <1>1, <1>4, <1>5, <1>6
  <2>2. Ahead' > 0
    <3>1. n # Ahead
      BY <1>1, <1>4, <1>6, <2>1 DEF Queue, EndsWithLast
    <3> QED
      BY <1>1, <3>1
  <2>3. 1 \in 1..Ahead' /\ 1 + n \in 1..Ahead /\ (1 + n) - 1 = n
    BY <1>1, <2>2
  <2>4. Piece(1 + n).req = c /\ Piece(1 + n).pos = k + n
    BY <1>1, <1>4, <1>5, <1>6, <2>3
  <2> QED
    BY <2>2, <2>3, <2>4 DEF First
<1>7. ASSUME n = Size(c) - k + 1 PROVE First(c + 1, 1)'
  <2>1. Piece(n).req = c /\ Piece(n).pos = Size(c)
    BY <1>1, <1>4, <1>5, <1>7
  <2>2. CASE n = Ahead
    <3>1. c = sent /\ ~(Ahead' > 0)
      BY <1>1, <2>1, <2>2 DEF Queue, EndsWithLast
    <3> QED
      BY <3>1 DEF First
  <2>3. CASE n # Ahead
    <3>1. Ahead' > 0 /\ 1 \in 1..Ahead' /\ 1 + n \in 1..Ahead /\ (1 + n) - 1 = n
      BY <1>1, <2>3
    <3>2. Piece(1 + n).req = c + 1 /\ Piece(1 + n).pos = 1
      BY <1>5, <1>7, <3>1
    <3> QED
      BY <3>1, <3>2 DEF First
  <2> QED
    BY <2>2, <2>3
<1>8. ASSUME NEW i \in 1..n, i <= Size(c) - k + 1 PROVE Piece(i).req = c
  BY <1>1, <1>4, <1>5, <1>8
<1> QED
  BY <1>3, <1>6, <1>7, <1>8

(* A request that is sent is put behind the pieces that are there. *)
Joined(b, s, t, u) ==
    /\ u \in Seq(Pieces) /\ Len(u) = Len(s) + Len(t)
    /\ \A j \in 1..Len(s) : u[j] = s[j]
    /\ \A j \in 1..Len(t) : u[Len(s) + j] = t[j]
    /\ \A j \in 1..Len(b) + Len(s) :
          (IF j <= Len(b) THEN b[j] ELSE u[j - Len(b)])
            = (IF j <= Len(b) THEN b[j] ELSE s[j - Len(b)])

(* Which piece is where after a concatenation behind the buffer. *)
LEMMA ConcatPieces ==
    ASSUME NEW b \in Seq(Pieces), NEW s \in Seq(Pieces), NEW t \in Seq(Pieces),
           NEW u, u = s \o t
    PROVE  Joined(b, s, t, u)
<1>1. Len(b) \in Nat /\ Len(s) \in Nat /\ Len(t) \in Nat
  OBVIOUS
<1>2. /\ u \in Seq(Pieces) /\ Len(u) = Len(s) + Len(t)
      /\ \A i \in 1..Len(s) + Len(t) :
            u[i] = IF i <= Len(s) THEN s[i] ELSE t[i - Len(s)]
  BY ConcatProperties
<1>3. \A j \in 1..Len(s) : u[j] = s[j]
  BY <1>1, <1>2
<1>4. ASSUME NEW j \in 1..Len(t) PROVE u[Len(s) + j] = t[j]
  <2>1. /\ Len(s) + j \in 1..Len(s) + Len(t) /\ ~(Len(s) + j <= Len(s))
        /\ Len(s) + j - Len(s) = j
    BY <1>1
  <2> QED
    BY <1>2, <2>1
<1>5. ASSUME NEW j \in 1..Len(b) + Len(s)
      PROVE  (IF j <= Len(b) THEN b[j] ELSE u[j - Len(b)])
               = (IF j <= Len(b) THEN b[j] ELSE s[j - Len(b)])
  <2>1. ~(j <= Len(b)) => j - Len(b) \in 1..Len(s)
    BY <1>1
  <2> QED
    BY <1>3, <2>1
<1> QED
  BY <1>2, <1>3, <1>4, <1>5 DEF Joined

(* The pieces of a request in the order they are sent in. *)
LEMMA StreamIs ==
    ASSUME TypeOK, NEW r \in 1..Len(script)
    PROVE  /\ Stream(r) \in Seq(Pieces) /\ Len(Stream(r)) = Size(r)
           /\ Size(r) \in Nat /\ Size(r) >= 6
           /\ \A k \in 1..Size(r) :
                 Stream(r)[k] = [req |-> r, pos |-> k, damaged |-> FALSE]
<1>1. Size(r) \in Nat /\ Size(r) >= 6
  <2>1. script[r].pairs \in Nat /\ Size(r) = 6 + 2 * script[r].pairs
    BY Sizes
  <2> QED
    BY <2>1
<1>2. \A k \in 1..Size(r) : [req |-> r, pos |-> k, damaged |-> FALSE] \in Pieces
  BY <1>1, Types DEF Pieces
<1>3. Stream(r) = [k \in 1..Size(r) |-> [req |-> r, pos |-> k, damaged |-> FALSE]]
  BY DEF Stream
<1>4. Stream(r) \in [1..Size(r) -> Pieces]
  BY <1>2, <1>3
<1>5. Stream(r) \in Seq(Pieces)
  <2>1. [1..Size(r) -> Pieces] \subseteq Seq(Pieces)
    BY <1>1, SeqDef
  <2> QED
    BY <1>4, <2>1
<1>6. Len(Stream(r)) \in Nat /\ 1..Len(Stream(r)) = 1..Size(r)
  BY <1>4, <1>5, LenProperties
<1>7. Len(Stream(r)) = Size(r)
  BY <1>1, <1>6
<1> QED
  BY <1>1, <1>3, <1>5, <1>7

(* Sending a request puts its pieces behind those ahead. *)
LEMMA PiecesSent ==
    ASSUME TypeOK, Queue, UNCHANGED buffer, sent < Len(script),
           net' = net \o Stream(sent + 1)
    PROVE  /\ net' \in Seq(Pieces) /\ Ahead' = Ahead + Size(sent + 1)
           /\ \A j \in 1..Ahead : Piece(j)' = Piece(j)
           /\ \A k \in 1..Size(sent + 1) :
                 \A j : j = Ahead + k => Piece(j)' = [req |-> sent + 1, pos |-> k, damaged |-> FALSE]
           /\ Undamaged'
<1> DEFINE r == sent + 1
           t == Stream(sent + 1)
<1>1. /\ r \in 1..Len(script) /\ Len(buffer) \in Nat /\ Len(net) \in Nat
      /\ buffer \in Seq(Pieces) /\ net \in Seq(Pieces)
      /\ Ahead = Len(buffer) + Len(net)
  BY Types DEF Ahead
<1>2. /\ t \in Seq(Pieces) /\ Len(t) = Size(r) /\ Size(r) \in Nat
      /\ \A k \in 1..Size(r) : t[k] = [req |-> r, pos |-> k, damaged |-> FALSE]
  BY <1>1, StreamIs
<1>3. net' = net \o t
  OBVIOUS
<1> HIDE DEF r, t
<1>4. /\ net' \in Seq(Pieces) /\ Len(net') = Len(net) + Size(r)
      /\ \A j \in 1..Len(net) : net'[j] = net[j]
      /\ \A j \in 1..Size(r) : net'[Len(net) + j] = t[j]
      /\ \A j \in 1..Len(buffer) + Len(net) :
                 (IF j <= Len(buffer) THEN buffer[j] ELSE net'[j - Len(buffer)])
                   = (IF j <= Len(buffer) THEN buffer[j] ELSE net[j - Len(buffer)])
  <2>1. Joined(buffer, net, t, net')
    BY <1>1, <1>2, <1>3, ConcatPieces
  <2> QED
    BY <1>2, <2>1, Zenon DEF Joined
<1>5. Ahead' = Ahead + Size(r)
  <2>1. Ahead' = Len(buffer) + (Len(net) + Size(r))
    BY <1>4 DEF Ahead
  <2> QED
    BY <1>1, <1>2, <2>1
<1>6. \A j \in 1..Ahead : Piece(j)' = Piece(j)
  BY <1>1, <1>4 DEF Piece
<1>7. ASSUME NEW k \in 1..Size(r), NEW j, j = Ahead + k
      PROVE  Piece(j)' = [req |-> r, pos |-> k, damaged |-> FALSE]
  <2>1. ~(j <= Len(buffer)) /\ j - Len(buffer) = Len(net) + k
    BY <1>1, <1>2, <1>7
  <2>2. Piece(j)' = net'[Len(net) + k]
    BY <2>1 DEF Piece
  <2> QED
    BY <1>2, <1>4, <2>2
<1>8. ASSUME NEW i \in 1..Len(net') PROVE ~net'[i].damaged
  <2>1. CASE i \in 1..Len(net)
    BY <1>4, <2>1 DEF Queue, Undamaged
  <2>2. CASE i \notin 1..Len(net)
    <3>1. i - Len(net) \in 1..Size(r) /\ i = Len(net) + (i - Len(net))
      BY <1>1, <1>2, <1>4, <2>2
    <3>2. net'[i] = t[i - Len(net)]
      BY <1>4, <3>1
    <3> QED
      BY <1>2, <3>1, <3>2
  <2> QED
    BY <2>1, <2>2
<1> QED
  BY <1>4, <1>5, <1>6, <1>7, <1>8 DEF r, Undamaged

(* The order is kept when the next request is put behind the others. *)
LEMMA QueueSent ==
    ASSUME TypeOK, Queue, UNCHANGED script, sent' = sent + 1,
           NEW r \in 1..Len(script), r = sent + 1, NEW n \in Nat, n = Ahead,
           Ahead' = n + Size(r), \A j \in 1..n : Piece(j)' = Piece(j),
           \A k \in 1..Size(r) :
                 \A j : j = n + k => Piece(j)' = [req |-> r, pos |-> k, damaged |-> FALSE]
    PROVE  /\ Contiguous' /\ EndsWithLast'
           /\ \A c, k : First(c, k) => First(c, k)'
<1>1. /\ sent \in Nat /\ r \in Nat /\ Size(r) \in Nat /\ Size(r) >= 6
  BY Types, StreamIs
<1>5. \A j \in 1..n : Piece(j)' = Piece(j)
  OBVIOUS
<1>6. \A k \in 1..Size(r) : Piece(n + k)' = [req |-> r, pos |-> k, damaged |-> FALSE]
  OBVIOUS
<1>7. \A i : Size(i)' = Size(i)
  BY DEF Size
<1>8. ASSUME NEW j \in 1..Ahead' PROVE j \in 1..n \/ \E k \in 1..Size(r) : j = n + k
  <2>1. j \in 1..n \/ (j - n \in 1..Size(r) /\ j = n + (j - n))
    BY <1>1
  <2> QED
    BY <2>1
<1>9. ASSUME NEW j \in 1..Ahead'
      PROVE  /\ Piece(j)'.req \in 1..sent' /\ (Piece(j).pos \in 1..Size(Piece(j).req))'
             /\ \A l \in j..Ahead' :
                  /\ l - j <= Rest(j)' =>
                        /\ Piece(l)'.req = Piece(j)'.req
                        /\ Piece(l)'.pos = Piece(j)'.pos + (l - j)
                  /\ l - j = Rest(j)' + 1 =>
                        Piece(l)'.req = Piece(j)'.req + 1 /\ Piece(l)'.pos = 1
  <2>1. CASE j \in 1..n
    <3>1. /\ Piece(j)' = Piece(j) /\ Rest(j)' = Rest(j)
          /\ Piece(j).req \in 1..sent /\ Piece(j).pos \in 1..Size(Piece(j).req)
      BY <1>5, <1>7, <2>1 DEF Queue, Contiguous, Rest
    <3>2. Rest(j) \in Nat /\ Size(Piece(j).req) \in Nat /\ Piece(j).pos \in Nat
      <4>1. Piece(j).req \in 1..Len(script)
        BY <1>1, <3>1, Types
      <4>2. Size(Piece(j).req) \in Nat
        BY <4>1, Sizes
      <4> QED
        BY <3>1, <4>2 DEF Rest
    <3>3. n - j < Rest(j) => FALSE
      <4>1. n \in j..n /\ n > 0
        BY <1>1, <2>1
      <4>2. ASSUME n - j < Rest(j) PROVE FALSE
        <5>1. n - j <= Rest(j)
          BY <1>1, <2>1, <3>2, <4>2
        <5>2. Piece(n).req = Piece(j).req /\ Piece(n).pos = Piece(j).pos + (n - j)
          BY <2>1, <4>1, <5>1 DEF Queue, Contiguous
        <5>3. Piece(n).pos = Size(Piece(j).req)
          BY <4>1, <5>2 DEF Queue, EndsWithLast
        <5> QED
          BY <1>1, <2>1, <3>2, <4>2, <5>2, <5>3 DEF Rest
      <4> QED
        BY <4>2
    <3>4. ASSUME NEW l \in j..Ahead', l \in 1..n
          PROVE  /\ l - j <= Rest(j) =>
                      Piece(l)'.req = Piece(j).req /\ Piece(l)'.pos = Piece(j).pos + (l - j)
                 /\ l - j = Rest(j) + 1 =>
                      Piece(l)'.req = Piece(j).req + 1 /\ Piece(l)'.pos = 1
      <4>1. l \in j..n
        BY <1>1, <3>4
      <4> QED
        BY <1>5, <2>1, <3>4, <4>1 DEF Queue, Contiguous
    <3>5. ASSUME NEW l \in j..Ahead', NEW k \in 1..Size(r), l = n + k
          PROVE  /\ l - j <= Rest(j) =>
                      Piece(l)'.req = Piece(j).req /\ Piece(l)'.pos = Piece(j).pos + (l - j)
                 /\ l - j = Rest(j) + 1 =>
                      Piece(l)'.req = Piece(j).req + 1 /\ Piece(l)'.pos = 1
      <4>1. ~(l - j <= Rest(j))
        BY <1>1, <2>1, <3>2, <3>3, <3>5
      <4>2. ASSUME l - j = Rest(j) + 1
            PROVE  Piece(l)'.req = Piece(j).req + 1 /\ Piece(l)'.pos = 1
        <5>0. ~(n - j < Rest(j)) /\ n + k - j = Rest(j) + 1
          BY <3>3, <3>5, <4>2
        <5>1. k = 1 /\ n - j = Rest(j) /\ n - j <= Rest(j) /\ n \in j..n /\ n > 0
          <6>1. j \in Nat /\ 1 <= j /\ j <= n /\ k \in Nat /\ 1 <= k
            BY <1>1, <2>1
          <6>2. Rest(j) \in Nat /\ n \in Nat
            BY <3>2
          <6>3. \A a, m \in Nat : a >= 1 /\ ~(n - j < m) /\ n + a - j = m + 1
                   => a = 1 /\ n - j = m
            BY <6>1, <6>2
          <6> QED
            BY <5>0, <6>1, <6>2, <6>3
        <5>2. Piece(n).req = Piece(j).req /\ Piece(n).req = sent
          <6>1. \A i \in j..Ahead : i - j <= Rest(j) => Piece(i).req = Piece(j).req
            BY <2>1 DEF Queue, Contiguous
          <6>2. Piece(n).req = sent
            BY <5>1 DEF Queue, EndsWithLast
          <6> QED
            BY <5>1, <6>1, <6>2
        <5> QED
          BY <1>6, <3>5, <5>1, <5>2
      <4> QED
        BY <4>1, <4>2
    <3>6. sent' = sent + 1 /\ \A i \in 1..sent : i \in 1..sent'
      BY <1>1
    <3>7. \A l \in j..Ahead' : l \in 1..Ahead'
      BY <1>1, <2>1
    <3> QED
      BY <1>7, <1>8, <3>1, <3>4, <3>5, <3>6, <3>7
  <2>2. ASSUME NEW k \in 1..Size(r), j = n + k
        PROVE  /\ Piece(j)'.req \in 1..sent' /\ (Piece(j).pos \in 1..Size(Piece(j).req))'
               /\ \A l \in j..Ahead' :
                    /\ l - j <= Rest(j)' =>
                          /\ Piece(l)'.req = Piece(j)'.req
                          /\ Piece(l)'.pos = Piece(j)'.pos + (l - j)
                    /\ l - j = Rest(j)' + 1 =>
                          Piece(l)'.req = Piece(j)'.req + 1 /\ Piece(l)'.pos = 1
    <3>1. Piece(j)'.req = r /\ Piece(j)'.pos = k /\ Rest(j)' = Size(r) - k
      BY <1>6, <1>7, <2>2 DEF Rest
    <3>2. r \in 1..sent' /\ (Piece(j).pos \in 1..Size(Piece(j).req))'
      BY <1>1, <1>7, <3>1
    <3>3. ASSUME NEW l \in j..Ahead'
          PROVE  /\ l - n \in 1..Size(r) /\ l = n + (l - n)
                 /\ l - n = k + (l - j) /\ ~(l - j = (Size(r) - k) + 1)
      BY <1>1, <2>2
    <3>4. \A l \in j..Ahead' : Piece(l)'.req = r /\ Piece(l)'.pos = k + (l - j)
      <4> TAKE l \in j..Ahead'
      <4>1. PICK m \in 1..Size(r) : l = n + m /\ m = k + (l - j)
        BY <3>3
      <4> QED
        BY <4>1
    <3> QED
      BY <3>1, <3>2, <3>3, <3>4
  <2> QED
    BY <1>8, <2>1, <2>2
<1>10. Contiguous'
  BY <1>9 DEF Contiguous
<1>11. EndsWithLast'
  <2>1. Size(r) \in 1..Size(r)
    BY <1>1
  <2>2. Piece(Ahead)' = [req |-> r, pos |-> Size(r), damaged |-> FALSE]
    BY <1>6, <2>1
  <2> QED
    BY <1>7, <2>2 DEF EndsWithLast
<1>13. ASSUME NEW c, NEW k, First(c, k) PROVE First(c, k)'
  <2>1. Ahead' > 0 /\ 1 \in 1..Size(r)
    BY <1>1
  <2>2. CASE n > 0
    <3>1. 1 \in 1..n
      BY <1>1, <2>2
    <3> QED
      BY <1>5, <1>13, <2>1, <2>2, <3>1 DEF First
  <2>3. CASE ~(n > 0)
    <3>1. n = 0 /\ 1 = n + 1 /\ c = r /\ k = 1
      BY <1>1, <1>13, <2>3 DEF First
    <3> QED
      BY <1>6, <2>1, <3>1 DEF First
  <2> QED
    BY <2>2, <2>3
<1> QED
  BY <1>10, <1>11, <1>13

(* The first n pieces of the net are read into the buffer; the first of    *)
(* them loses a byte when skip says so.                                    *)
MovedPieces(b, s, n, d, u, v) ==
    /\ u \in Seq(Pieces) /\ Len(u) = Len(b) + n
    /\ v \in Seq(Pieces) /\ Len(v) = Len(s) - n
    /\ \A j \in 1..Len(b) : u[j] = b[j]
    /\ \A k \in 1..n : /\ u[Len(b) + k].req = s[k].req
                       /\ u[Len(b) + k].pos = s[k].pos
                       /\ u[Len(b) + k].damaged = (d /\ k = 1)
    /\ \A k \in 1..Len(s) - n : v[k] = s[k + n]

(* Which piece is where after some of them moved from net to buffer. *)
LEMMA PiecesMoved ==
    ASSUME NEW b \in Seq(Pieces), NEW s \in Seq(Pieces), NEW n \in 1..Len(s),
           NEW d \in BOOLEAN, NEW u, NEW v,
           u = b \o [k \in 1..n |-> [s[k] EXCEPT !.damaged = d /\ k = 1]],
           v = SubSeq(s, n + 1, Len(s))
    PROVE  MovedPieces(b, s, n, d, u, v)
<1> DEFINE m == [k \in 1..n |-> [s[k] EXCEPT !.damaged = d /\ k = 1]]
<1>1. /\ Len(b) \in Nat /\ Len(s) \in Nat /\ n \in Nat /\ 1 <= n /\ n <= Len(s)
      /\ \A k \in 1..Len(s) : s[k] \in Pieces
  OBVIOUS
<1>2. \A k \in 1..n : /\ m[k] \in Pieces /\ m[k].req = s[k].req
                      /\ m[k].pos = s[k].pos /\ m[k].damaged = (d /\ k = 1)
  <2> TAKE k \in 1..n
  <2>1. s[k] \in Pieces
    BY <1>1
  <2>2. m[k] = [s[k] EXCEPT !.damaged = d /\ k = 1]
    OBVIOUS
  <2>3. (d /\ k = 1) \in BOOLEAN
    OBVIOUS
  <2> HIDE DEF m
  <2>4. \A x \in BOOLEAN : /\ [s[k] EXCEPT !.damaged = x] \in Pieces
                           /\ [s[k] EXCEPT !.damaged = x].req = s[k].req
                           /\ [s[k] EXCEPT !.damaged = x].pos = s[k].pos
                           /\ [s[k] EXCEPT !.damaged = x].damaged = x
    BY <2>1 DEF Pieces
  <2> QED
    BY <2>2, <2>3, <2>4
<1>3. m \in [1..n -> Pieces]
  <2>1. m = [k \in 1..n |-> m[k]]
    OBVIOUS
  <2> HIDE DEF m
  <2> QED
    BY <1>2, <2>1
<1>4. u = b \o m
  OBVIOUS
<1> HIDE DEF m
<1>5. m \in Seq(Pieces) /\ Len(m) = n
  <2>1. [1..n -> Pieces] \subseteq Seq(Pieces)
    BY <1>1, SeqDef
  <2>2. m \in Seq(Pieces)
    BY <1>3, <2>1
  <2>3. Len(m) \in Nat /\ 1..Len(m) = 1..n
    BY <1>3, <2>2, LenProperties
  <2> QED
    BY <1>1, <2>2, <2>3
<1>6. Joined(b, b, m, u)
  BY <1>4, <1>5, ConcatPieces
<1>7. /\ u \in Seq(Pieces) /\ Len(u) = Len(b) + n
      /\ \A j \in 1..Len(b) : u[j] = b[j]
      /\ \A k \in 1..n : u[Len(b) + k] = m[k]
  BY <1>5, <1>6, Zenon DEF Joined
<1>8. /\ v \in Seq(Pieces) /\ Len(v) = Len(s) - n
      /\ \A k \in 1..Len(s) - n : v[k] = s[k + n]
  <2>1. \A i \in n + 1..Len(s) : s[i] \in Pieces
    BY <1>1
  <2>2. n + 1 \in Int /\ Len(s) \in Int
    BY <1>1
  <2>3. /\ v \in Seq(Pieces)
        /\ Len(v) = IF n + 1 <= Len(s) THEN Len(s) - (n + 1) + 1 ELSE 0
        /\ \A i \in 1..Len(s) - (n + 1) + 1 : v[i] = s[(n + 1) + i - 1]
    BY <2>1, <2>2, SubSeqProperties
  <2>4. Len(v) = Len(s) - n
    BY <1>1, <2>3
  <2>5. \A i \in 1..Len(s) - n : i \in 1..Len(s) - (n + 1) + 1 /\ (n + 1) + i - 1 = i + n
    BY <1>1
  <2> QED
    BY <2>3, <2>4, <2>5
<1> QED
  BY <1>2, <1>7, <1>8 DEF MovedPieces

(* Reading a segment leaves what is ahead as it is, but for one damage. *)
LEMMA PiecesRead ==
    ASSUME TypeOK, Queue, OnMessage
    PROVE  /\ buffer' \in Seq(Pieces) /\ net' \in Seq(Pieces)
           /\ Contiguous' /\ EndsWithLast' /\ Undamaged'
           /\ \A c, k : First(c, k)' <=> First(c, k)
           /\ Len(net) > 0
           /\ \A j \in 1..Len(buffer') : buffer'[j].damaged =>
                 \/ j \in 1..Len(buffer) /\ buffer[j].damaged
                 \/ skip /\ j = Len(buffer) + 1
<1>1. PICK n \in 1..Len(net) :
          /\ buffer' = buffer \o
                [k \in 1..n |-> [net[k] EXCEPT !.damaged = skip /\ k = 1]]
          /\ net' = SubSeq(net, n + 1, Len(net))
  BY DEF OnMessage
<1>2. /\ buffer \in Seq(Pieces) /\ net \in Seq(Pieces) /\ skip \in BOOLEAN
      /\ Len(buffer) \in Nat /\ Len(net) \in Nat /\ Ahead = Len(buffer) + Len(net)
      /\ n \in Nat /\ 1 <= n /\ n <= Len(net)
      /\ UNCHANGED <<script, sent>>
  <2>1. skip \in BOOLEAN /\ buffer \in Seq(Pieces) /\ net \in Seq(Pieces)
    BY DEF TypeOK
  <2>2. UNCHANGED <<script, sent>>
    BY DEF OnMessage, client
  <2>3. Len(buffer) \in Nat /\ Len(net) \in Nat
    BY Types
  <2>4. n \in Nat /\ 1 <= n /\ n <= Len(net)
    BY <2>3
  <2> QED
    BY <2>1, <2>2, <2>3, <2>4 DEF Ahead
<1>3. /\ buffer' \in Seq(Pieces) /\ Len(buffer') = Len(buffer) + n
      /\ net' \in Seq(Pieces) /\ Len(net') = Len(net) - n
      /\ \A j \in 1..Len(buffer) : buffer'[j] = buffer[j]
      /\ \A k \in 1..n : /\ buffer'[Len(buffer) + k].req = net[k].req
                         /\ buffer'[Len(buffer) + k].pos = net[k].pos
                         /\ buffer'[Len(buffer) + k].damaged = (skip /\ k = 1)
      /\ \A k \in 1..Len(net) - n : net'[k] = net[k + n]
  <2>1. MovedPieces(buffer, net, n, skip, buffer', net')
    BY <1>1, <1>2, PiecesMoved
  <2> QED
    BY <2>1, Zenon DEF MovedPieces
<1> HIDE <1>1
<1>4. Ahead' = Ahead
  <2>1. Ahead' = (Len(buffer) + n) + (Len(net) - n)
    BY <1>3 DEF Ahead
  <2> QED
    BY <1>2, <2>1
<1>5. ASSUME NEW j \in 1..Ahead
      PROVE  Piece(j)'.req = Piece(j).req /\ Piece(j)'.pos = Piece(j).pos
  <2>1. CASE j <= Len(buffer)
    <3>1. j \in 1..Len(buffer) /\ j <= Len(buffer')
      BY <1>2, <1>3, <2>1
    <3> QED
      BY <1>3, <2>1, <3>1 DEF Piece
  <2>2. CASE ~(j <= Len(buffer)) /\ j <= Len(buffer) + n
    <3>1. j - Len(buffer) \in 1..n /\ j = Len(buffer) + (j - Len(buffer)) /\ j <= Len(buffer')
      BY <1>2, <1>3, <2>2
    <3>2. Piece(j) = net[j - Len(buffer)] /\ Piece(j)' = buffer'[j]
      BY <2>2, <3>1 DEF Piece
    <3> QED
      BY <1>3, <3>1, <3>2
  <2>3. CASE ~(j <= Len(buffer)) /\ ~(j <= Len(buffer) + n)
    <3>1. /\ j - Len(buffer') \in 1..Len(net) - n /\ ~(j <= Len(buffer'))
          /\ (j - Len(buffer')) + n = j - Len(buffer)
      BY <1>2, <1>3, <2>3
    <3>2. Piece(j) = net[j - Len(buffer)] /\ Piece(j)' = net'[j - Len(buffer')]
      BY <2>3, <3>1 DEF Piece
    <3> QED
      BY <1>3, <3>1, <3>2
  <2> QED
    BY <2>1, <2>2, <2>3
<1>6. /\ Contiguous' /\ EndsWithLast'
      /\ \A c, k : First(c, k)' <=> First(c, k)
  BY <1>2, <1>4, <1>5, QueueKept
<1>7. Undamaged'
  <2>1. \A k \in 1..Len(net') : k \in 1..Len(net) - n /\ k + n \in 1..Len(net)
    BY <1>2, <1>3
  <2> QED
    BY <1>3, <2>1 DEF Queue, Undamaged
<1>8. ASSUME NEW j \in 1..Len(buffer'), buffer'[j].damaged
      PROVE  \/ j \in 1..Len(buffer) /\ buffer[j].damaged
             \/ skip /\ j = Len(buffer) + 1
  <2>1. CASE j \in 1..Len(buffer)
    BY <1>3, <1>8, <2>1
  <2>2. CASE j \notin 1..Len(buffer)
    <3>1. j - Len(buffer) \in 1..n /\ j = Len(buffer) + (j - Len(buffer))
      BY <1>2, <1>3, <2>2
    <3>2. PICK k \in 1..n : j = Len(buffer) + k
      BY <3>1
    <3>3. skip /\ k = 1
      BY <1>3, <1>8, <3>2
    <3> QED
      BY <3>2, <3>3
  <2> QED
    BY <2>1, <2>2
<1>9. Len(net) > 0
  BY <1>2
<1> QED
  BY <1>3, <1>6, <1>7, <1>8, <1>9

-----------------------------------------------------------------------------
(* The steps of the parser.  Of each it is shown that the invariant of     *)
(* HttpServer holds afterwards, with the request the parser is in then.    *)

(* A step that moves no piece keeps the queue. *)
LEMMA SameQueue ==
    ASSUME Queue, UNCHANGED <<script, sent, net, buffer>>
    PROVE  Queue' /\ \A c, k : First(c, k)' <=> First(c, k)
BY DEF Queue, Contiguous, EndsWithLast, Undamaged, First, Ahead, Piece, Rest, Size

(* A step that sends nothing keeps the answers. *)
LEMMA SameAnswers ==
    ASSUME Answers, UNCHANGED <<script, sent, responses, conn>>
    PROVE  Answers'
BY DEF Answers, Answered, WellFormed, IsPost, AfterPost

(* A request of which something is in the buffer was sent. *)
LEMMA LineIs ==
    ASSUME TypeOK, Queue, NEW c, NEW k, First(c, k), buffer # <<>>
    PROVE  /\ c \in 1..sent /\ c \in 1..Len(script) /\ k \in 1..Size(c)
           /\ Len(buffer) >= 1 /\ Ahead >= Len(buffer)
           /\ Line \in Pieces /\ Line.req = c /\ Line.pos = k
<1>1. Len(buffer) \in Nat /\ Len(net) \in Nat /\ Len(buffer) # 0
  BY Types
<1>2. Len(buffer) >= 1 /\ Ahead >= Len(buffer) /\ Ahead > 0 /\ 1 \in 1..Len(buffer) /\ 1 \in 1..Ahead
  BY <1>1 DEF Ahead
<1>3. Piece(1) = Line /\ Line \in Pieces
  BY <1>2, Types DEF Piece, Line
<1>4. Line.req = c /\ Line.pos = k
  BY <1>2, <1>3 DEF First
<1>5. c \in 1..sent /\ k \in 1..Size(c)
  BY <1>2, <1>3, <1>4 DEF Queue, Contiguous
<1>6. c \in 1..Len(script)
  BY <1>5, Types
<1> QED
  BY <1>2, <1>3, <1>4, <1>5, <1>6

(* A line of request c is consumed. *)
LEMMA LineConsumed ==
    ASSUME TypeOK, Queue, NEW c, NEW k \in {1, 3, 5}, First(c, k), HasLine,
           UNCHANGED <<script, sent, net>>, buffer' = AfterLine
    PROVE  /\ buffer' \in Seq(Pieces) /\ Queue'
           /\ Len(buffer) > 1 /\ Len(buffer') = Len(buffer) - 2
           /\ \A j \in 1..Len(buffer') : buffer'[j] = buffer[j + 2]
           /\ k + 2 <= Size(c) => First(c, k + 2)'
           /\ k + 1 = Size(c) => First(c + 1, 1)'
<1>1. Len(buffer) \in Nat /\ buffer # <<>>
  BY Types DEF HasLine
<1>2. Line.pos = k /\ Ahead >= Len(buffer) /\ c \in 1..Len(script)
  BY <1>1, LineIs
<1>3. PICK i \in 1..Len(buffer) : buffer[i].pos \in {2, 4, 6}
  BY DEF HasLine, LineEnds
<1>4. i # 1
  BY <1>2, <1>3 DEF Line
<1>5. 2 \in 1..Len(buffer) /\ Len(buffer) > 1
  BY <1>1, <1>3, <1>4
<1>6. buffer' = SubSeq(buffer, 2 + 1, Len(buffer))
  BY DEF AfterLine
<1>7. /\ buffer' \in Seq(Pieces) /\ Len(buffer') = Len(buffer) - 2
      /\ \A j \in 1..Len(buffer') : buffer'[j] = buffer[j + 2]
      /\ Ahead' = Ahead - 2
      /\ \A j \in 1..Ahead' : Piece(j)' = Piece(j + 2)
  BY <1>5, <1>6, QueueDropped
<1>8. 2 \in 1..Ahead
  <2>1. Ahead \in Nat
    BY Types
  <2> QED
    BY <1>1, <1>2, <1>5, <2>1
<1>9. Contiguous' /\ EndsWithLast' /\ Undamaged'
  <2>1. Contiguous' /\ EndsWithLast'
    BY <1>7, <1>8, QueueStillOrdered
  <2>2. Undamaged'
    BY DEF Queue, Undamaged
  <2> QED
    BY <2>1, <2>2
<1>10. /\ 2 <= Size(c) - k => First(c, k + 2)'
       /\ 2 = Size(c) - k + 1 => First(c + 1, 1)'
  BY <1>7, <1>8, FirstAfter
<1>11. Size(c) \in Nat /\ k \in Nat
  BY <1>2, Sizes
<1>12. /\ k + 2 <= Size(c) => 2 <= Size(c) - k
       /\ k + 1 = Size(c) => 2 = Size(c) - k + 1
  BY <1>11
<1> QED
  BY <1>5, <1>7, <1>9, <1>10, <1>12 DEF Queue

(* A client that sends keeps HttpInv; the parser stays where it is. *)
LEMMA ClientSendsInv ==
    ASSUME TypeOK, Queue, Answers, NEW c \in 1..sent + 1, Parser(c), ClientSends
    PROVE  HttpInv'
<1>1. /\ sent < Len(script) /\ sent' = sent + 1 /\ net' = net \o Stream(sent + 1)
      /\ pc # "dead"
      /\ pipelines \/ (Len(responses) = sent /\ conn = "CONNECTED")
      /\ UNCHANGED <<script, pipelines, buffer, skip, state, request, correct, pc,
                     conn, responses, assertFailed>>
  BY DEF ClientSends, client, ctxVars
<1>2. sent \in Nat /\ Len(script) \in Nat /\ sent + 1 \in 1..Len(script) /\ Ahead \in Nat
      /\ c \in Nat
  BY <1>1, Types
<1>3. /\ net' \in Seq(Pieces) /\ Ahead' = Ahead + Size(sent + 1)
      /\ \A j \in 1..Ahead : Piece(j)' = Piece(j)
      /\ \A k \in 1..Size(sent + 1) :
            \A j : j = Ahead + k => Piece(j)' = [req |-> sent + 1, pos |-> k, damaged |-> FALSE]
      /\ Undamaged'
  BY <1>1, PiecesSent
<1>4. Queue' /\ \A d, k : First(d, k) => First(d, k)'
  <2>1. PICK r \in 1..Len(script), n \in Nat : r = sent + 1 /\ n = Ahead
    BY <1>2
  <2>2. /\ Ahead' = n + Size(r)
        /\ \A j \in 1..n : Piece(j)' = Piece(j)
        /\ \A k \in 1..Size(r) :
              \A j : j = n + k => Piece(j)' = [req |-> r, pos |-> k, damaged |-> FALSE]
    BY <1>3, <2>1
  <2>3. UNCHANGED script /\ sent' = sent + 1
    BY <1>1
  <2>4. /\ Contiguous' /\ EndsWithLast'
        /\ \A d, k : First(d, k) => First(d, k)'
    BY <2>1, <2>2, <2>3, QueueSent
  <2> QED
    BY <1>3, <2>4 DEF Queue
<1>5. TypeOK'
  <2>1. sent' \in 0..Len(script')
    BY <1>1, <1>2
  <2> QED
    BY <1>1, <1>3, <2>1 DEF TypeOK
<1>6. \A k : k <= sent /\ k \in Nat => k <= sent'
  BY <1>1, <1>2
<1>7. Answers'
  <2>1. responses' = responses /\ conn' = conn /\ script' = script
    BY <1>1
  <2>2. ASSUME NEW k \in 1..Len(responses) PROVE Answered(k)'
    <3>1. Answered(k)
      BY DEF Answers
    <3>2. k <= sent => k <= sent'
      BY <1>6
    <3> QED
      BY <2>1, <3>1, <3>2 DEF Answered, WellFormed, IsPost, AfterPost
  <2> QED
    BY <2>1, <2>2 DEF Answers
<1>8. c \in 1..sent' + 1
  BY <1>1, <1>2
<1>9. Position(c)'
  BY <1>1, <1>2, <1>4, <1>6 DEF Parser, Position, Parsed, IsPost, WellFormed
<1>10. Damage(c)' /\ Verdict(c)'
  BY <1>1, <1>2, <1>6 DEF Parser, Damage, Verdict, IsPost, AfterPost, WellFormed
<1>11. Open(c)'
  BY <1>1 DEF Parser, Open
<1>12. Waits(c)'
  <2>1. ~pipelines => Len(responses) = sent /\ conn = "CONNECTED"
    BY <1>1
  <2>2. sent + 1 <= sent + 1
    BY <1>2
  <2> QED
    BY <1>1, <2>1, <2>2 DEF Waits
<1> QED
  BY <1>4, <1>5, <1>7, <1>8, <1>9, <1>10, <1>11, <1>12 DEF HttpInv, Parser

(* A segment that is read keeps HttpInv, wherever it ends. *)
LEMMA OnMessageInv ==
    ASSUME TypeOK, Queue, Answers, NEW c \in 1..sent + 1, Parser(c), OnMessage
    PROVE  HttpInv'
<1>1. /\ pc = "poll" /\ skip' = FALSE /\ correct' = TRUE /\ pc' = "parse"
      /\ UNCHANGED <<script, pipelines, sent, state, request, conn, responses, assertFailed>>
  BY DEF OnMessage, client
<1>2. /\ buffer' \in Seq(Pieces) /\ net' \in Seq(Pieces) /\ Queue'
      /\ \A d, k : First(d, k)' <=> First(d, k)
      /\ \A j \in 1..Len(buffer') : buffer'[j].damaged =>
            \/ j \in 1..Len(buffer) /\ buffer[j].damaged
            \/ skip /\ j = Len(buffer) + 1
  BY PiecesRead DEF Queue
<1>3. state # "ALLOK"
  BY <1>1 DEF Parser, Position
<1>4. TypeOK'
  BY <1>1, <1>2, <1>3 DEF TypeOK
<1>5. Answers'
  BY <1>1, SameAnswers
<1>6. Position(c)'
  BY <1>1, <1>2, <1>3 DEF Parser, Position, Parsed, IsPost
<1>7. ASSUME NEW j \in 1..Len(buffer'), buffer'[j].damaged
      PROVE  j = 1 /\ state = "EXPECTREQUESTLINE" /\ AfterPost(c)
  <2>1. CASE j \in 1..Len(buffer) /\ buffer[j].damaged
    BY <2>1 DEF Parser, Damage
  <2>2. CASE skip /\ j = Len(buffer) + 1
    <3>1. Len(buffer) = 0
      BY <2>2 DEF Parser, Damage
    <3>2. j = 1
      BY <2>2, <3>1
    <3> QED
      BY <1>3, <2>2, <3>2 DEF Parser, Damage
  <2> QED
    BY <1>2, <1>7, <2>1, <2>2
<1>8. Damage(c)'
  BY <1>1, <1>7 DEF Damage, AfterPost, IsPost
<1>9. Verdict(c)'
  BY <1>1 DEF Verdict
<1>10. Open(c)' /\ Waits(c)'
  BY <1>1 DEF Parser, Open, Waits
<1> QED
  BY <1>1, <1>2, <1>4, <1>5, <1>6, <1>8, <1>9, <1>10 DEF HttpInv, Parser

(* A step that changes nothing but pc keeps most of the invariant. *)
LEMMA OnlyPc ==
    ASSUME TypeOK, Queue, Answers, NEW c \in 1..sent + 1, Parser(c),
           UNCHANGED <<script, pipelines, sent, net, buffer, skip, state, request, conn,
                       responses, assertFailed>>,
           state # "ALLOK", correct' \in BOOLEAN,
           pc' \in {"poll", "parse", "respond", "dead"},
           conn = "CONNECTED" /\ state = "EXPECTREQUESTLINE" =>
               request.method = "INVALID" \/ (pc' = "respond" /\ ~correct'),
           Verdict(c)'
    PROVE  HttpInv'
<1>1. Queue' /\ \A d, k : First(d, k)' <=> First(d, k)
  BY SameQueue
<1>2. Answers'
  BY SameAnswers
<1>3. TypeOK'
  BY DEF TypeOK
<1>4. Position(c)'
  BY <1>1 DEF Parser, Position, Parsed, IsPost
<1>5. Damage(c)'
  BY DEF Parser, Damage, AfterPost, IsPost
<1>6. Open(c)' /\ Waits(c)'
  BY DEF Parser, Open, Waits
<1>7. c \in 1..sent' + 1
  OBVIOUS
<1> QED
  BY <1>1, <1>2, <1>3, <1>4, <1>5, <1>6, <1>7 DEF HttpInv, Parser

(* A read that fails keeps HttpInv; it is fatal behind a body. *)
LEMMA OnMessageWithoutDataInv ==
    ASSUME TypeOK, Queue, Answers, NEW c \in 1..sent + 1, Parser(c), OnMessageWithoutData
    PROVE  HttpInv'
<1>1. /\ pc = "poll" /\ correct' = TRUE /\ pc' = (IF skip THEN "dead" ELSE "parse")
      /\ UNCHANGED <<script, pipelines, sent, net, buffer, skip, state, request, conn,
                     responses, assertFailed>>
  BY DEF OnMessageWithoutData, client, ctxVars
<1>2. state # "ALLOK"
  BY <1>1 DEF Parser, Position
<1>3. ASSUME pc' = "dead" PROVE \E k \in 1..sent : IsPost(k) /\ (script[k].measured => skip)
  <2>1. skip /\ c > 1 /\ IsPost(c - 1)
    BY <1>1, <1>2, <1>3 DEF Parser, Damage, AfterPost
  <2>2. c - 1 \in 1..sent
    BY <2>1, Types
  <2> QED
    BY <2>1, <2>2
<1>4. Verdict(c)'
  BY <1>1, <1>3 DEF Verdict, IsPost
<1>5. conn = "CONNECTED" /\ state = "EXPECTREQUESTLINE" => request.method = "INVALID"
  BY <1>1 DEF Parser, Open
<1> QED
  BY <1>1, <1>2, <1>4, <1>5, OnlyPc

(* An incomplete line leaves the parser where it is. *)
LEMMA NoLineInv ==
    ASSUME TypeOK, Queue, Answers, NEW c \in 1..sent + 1, Parser(c), NoLine
    PROVE  HttpInv'
<1>1. /\ pc = "parse" /\ state # "ALLOK" /\ pc' = "respond"
      /\ UNCHANGED <<script, pipelines, sent, net, buffer, skip, state, request, correct,
                     conn, responses, assertFailed>>
  BY DEF NoLine, client, ctxVars, Parsing
<1>2. correct /\ (conn = "CONNECTED" /\ state = "EXPECTREQUESTLINE" => request.method = "INVALID")
  BY <1>1 DEF Parser, Open, Verdict
<1>3. correct' \in BOOLEAN
  BY <1>1 DEF TypeOK
<1>4. Verdict(c)'
  BY <1>1, <1>2 DEF Verdict
<1> QED
  BY <1>1, <1>2, <1>3, <1>4, OnlyPc

(* An incomplete request is left for the next segment. *)
LEMMA NeedMoreInv ==
    ASSUME TypeOK, Queue, Answers, NEW c \in 1..sent + 1, Parser(c), NeedMore
    PROVE  HttpInv'
<1>1. /\ pc = "respond" /\ correct /\ state # "ALLOK" /\ pc' = "poll"
      /\ UNCHANGED <<script, pipelines, sent, net, buffer, skip, state, request, correct,
                     conn, responses, assertFailed>>
  BY DEF NeedMore, client, ctxVars
<1>2. conn = "CONNECTED" /\ state = "EXPECTREQUESTLINE" => request.method = "INVALID"
  BY <1>1 DEF Parser, Open
<1>3. correct' \in BOOLEAN
  BY <1>1 DEF TypeOK
<1>4. Verdict(c)'
  BY <1>1 DEF Verdict
<1> QED
  BY <1>1, <1>2, <1>3, <1>4, OnlyPc

(* The parser is in the body of request c, of which the header was parsed. *)
LEMMA InBody ==
    ASSUME TypeOK, NEW c \in 1..sent + 1, Parser(c), Parsing("EXPECTBODY")
    PROVE  /\ pc = "parse" /\ state = "EXPECTBODY" /\ correct
           /\ c \in 1..sent /\ c \in 1..Len(script) /\ Parsed(c, {c}) /\ IsPost(c)
           /\ request.headers = {c}
           /\ Measured <=> script[c].measured
           /\ ContentLength = 2 * script[c].pairs
           /\ IF script[c].pairs > 0 THEN First(c, 7) ELSE First(c + 1, 1)
<1>1. pc = "parse" /\ state = "EXPECTBODY"
  BY DEF Parsing
<1>2. /\ Parsed(c, {c}) /\ IsPost(c) /\ correct
      /\ IF script[c].pairs > 0 THEN First(c, 7) ELSE First(c + 1, 1)
  BY <1>1 DEF Parser, Position, Verdict
<1>3. c \in 1..sent /\ c \in 1..Len(script)
  BY <1>2, Types DEF Parsed
<1>4. request.headers = {c}
  BY <1>2 DEF Parsed
<1>5. (CHOOSE i \in request.headers : TRUE) = c
  BY <1>4
<1> QED
  BY <1>1, <1>2, <1>3, <1>4, <1>5 DEF Measured, ContentLength

(* A body without a length ends the process; it is that of a POST. *)
LEMMA ParseUnmeasuredBodyInv ==
    ASSUME TypeOK, Queue, Answers, NEW c \in 1..sent + 1, Parser(c), ParseUnmeasuredBody
    PROVE  HttpInv'
<1>1. /\ Parsing("EXPECTBODY") /\ ~Measured /\ pc' = "dead"
      /\ UNCHANGED <<script, pipelines, sent, net, buffer, skip, state, request, correct,
                     conn, responses, assertFailed>>
  BY DEF ParseUnmeasuredBody, client, ctxVars
<1>2. state = "EXPECTBODY" /\ c \in 1..sent /\ IsPost(c) /\ ~script[c].measured
  BY <1>1, InBody
<1>3. correct' \in BOOLEAN
  BY <1>1 DEF TypeOK
<1>4. Verdict(c)'
  BY <1>1, <1>2 DEF Verdict, IsPost
<1> QED
  BY <1>1, <1>2, <1>3, <1>4, OnlyPc

(* What SetMethod finds in the first line of the buffer, of request c. *)
LEMMA MethodOfLine ==
    ASSUME TypeOK, Queue, NEW c \in 1..sent + 1, Parser(c),
           state = "EXPECTREQUESTLINE", buffer # <<>>
    PROVE  /\ Line.req = c /\ c \in 1..sent /\ c \in 1..Len(script)
           /\ SetMethod \in {"INVALID", "GET", "POST"}
           /\ SetMethod # "INVALID" =>
                 SetMethod = script[c].method /\ script[c].line # "badMethod"
           /\ SetMethod = "INVALID" => script[c].line = "badMethod" \/ AfterPost(c)
           /\ script[c].line \in {"ok", "badMethod", "badVersion"}
           /\ script[c].version \in {"HTTP10", "HTTP11"}
<1>1. First(c, 1)
  BY DEF Parser, Position
<1>2. /\ Line.req = c /\ Line \in Pieces /\ c \in 1..sent /\ c \in 1..Len(script)
      /\ Len(buffer) >= 1
  BY <1>1, LineIs
<1>3. script[c] \in Requests
  BY <1>2, Sizes
<1>4. /\ script[c].line \in {"ok", "badMethod", "badVersion"}
      /\ script[c].version \in {"HTTP10", "HTTP11"}
      /\ script[c].method \in {"GET", "POST"}
  BY <1>3 DEF Requests
<1>5. Line.damaged => AfterPost(c)
  <2>1. 1 \in 1..Len(buffer)
    BY <1>2, Types
  <2> QED
    BY <2>1 DEF Parser, Damage, Line
<1>6. /\ Line.damaged \/ script[c].line = "badMethod" => SetMethod = "INVALID"
      /\ ~(Line.damaged \/ script[c].line = "badMethod") => SetMethod = script[c].method
  BY <1>2 DEF SetMethod
<1> QED
  BY <1>2, <1>4, <1>5, <1>6

(* A request line is parsed, or refused for a reason Verdict gives. *)
LEMMA ParseRequestLineInv ==
    ASSUME TypeOK, Queue, Answers, NEW c \in 1..sent + 1, Parser(c), ParseRequestLine
    PROVE  HttpInv'
<1>1. /\ pc = "parse" /\ state = "EXPECTREQUESTLINE" /\ HasLine
      /\ UNCHANGED <<script, pipelines, sent, net, skip, conn, responses>>
      /\ assertFailed' = (assertFailed \/ request.method # "INVALID")
  BY DEF ParseRequestLine, Parsing, client
<1>2. buffer # <<>>
  BY <1>1 DEF HasLine
<1>3. /\ Line.req = c /\ c \in 1..sent /\ c \in 1..Len(script)
      /\ SetMethod \in {"INVALID", "GET", "POST"}
      /\ SetMethod # "INVALID" =>
            SetMethod = script[c].method /\ script[c].line # "badMethod"
      /\ SetMethod = "INVALID" => script[c].line = "badMethod" \/ AfterPost(c)
      /\ script[c].line \in {"ok", "badMethod", "badVersion"}
      /\ script[c].version \in {"HTTP10", "HTTP11"}
  BY <1>1, <1>2, MethodOfLine
<1>4. correct /\ First(c, 1) /\ request.headers = {} /\ ~skip
  BY <1>1, <1>2 DEF Parser, Position, Verdict, Damage
<1>5. assertFailed' \in BOOLEAN /\ (conn = "CONNECTED" => ~assertFailed')
  BY <1>1, <1>4 DEF Parser, Open, TypeOK
<1>6. Answers'
  BY <1>1, SameAnswers
<1>7. c \in 1..sent' + 1
  BY <1>1
<1>8. Waits(c)'
  BY <1>1 DEF Parser, Waits
<1>9. CASE SetMethod # "INVALID" /\ script[c].line # "badVersion"
  <2>1. /\ script[c].line = "ok" /\ buffer' = AfterLine
        /\ state' = "EXPECTHEADERS" /\ correct' = TRUE /\ pc' = "parse"
        /\ request' = [request EXCEPT !.method = script[c].method, !.path = c,
                                      !.version = script[c].version]
    BY <1>3, <1>9 DEF ParseRequestLine
  <2>2. request' = [method |-> script[c].method, version |-> script[c].version,
                    path |-> c, headers |-> {}]
    BY <1>4, <2>1 DEF TypeOK
  <2>3. 3 <= Size(c)
    BY <1>3, Sizes
  <2>4. /\ buffer' \in Seq(Pieces) /\ Queue' /\ Len(buffer') = Len(buffer) - 2
        /\ \A j \in 1..Len(buffer') : buffer'[j] = buffer[j + 2]
        /\ First(c, 3)'
    BY <1>1, <1>4, <2>1, <2>3, LineConsumed
  <2>5. TypeOK'
    <3>1. /\ script[c].method \in {"GET", "POST"} /\ c \in 0..Len(script)
          /\ {} \in SUBSET (1..Len(script))
      BY <1>3, Sizes
    <3>2. request' \in [method : {"INVALID", "GET", "POST"},
                        version : {"UNKNOWN", "HTTP10", "HTTP11"},
                        path : 0..Len(script), headers : SUBSET (1..Len(script))]
      BY <1>3, <2>2, <3>1
    <3> QED
      BY <1>1, <1>4, <1>5, <2>1, <2>4, <3>2 DEF TypeOK
  <2>6. Position(c)'
    <3>1. c <= sent
      BY <1>3
    <3> QED
      BY <1>1, <2>1, <2>2, <2>4, <3>1 DEF Position, Parsed
  <2>7. Damage(c)'
    <3>1. \A j \in 1..Len(buffer') : ~buffer'[j].damaged
      <4>1. \A j \in 1..Len(buffer') : j + 2 \in 1..Len(buffer) /\ j + 2 # 1
        BY <2>4, Types
      <4> QED
        BY <2>4, <4>1 DEF Parser, Damage
    <3> QED
      BY <1>1, <1>4, <3>1 DEF Damage
  <2>8. Verdict(c)'
    BY <2>1 DEF Verdict
  <2>9. Open(c)'
    BY <1>1, <1>5, <2>1 DEF Parser, Open
  <2> QED
    BY <1>6, <1>7, <1>8, <2>4, <2>5, <2>6, <2>7, <2>8, <2>9 DEF HttpInv, Parser
<1>10. CASE ~(SetMethod # "INVALID" /\ script[c].line # "badVersion")
  <2>1. /\ UNCHANGED <<buffer, state>> /\ correct' = FALSE /\ pc' = "respond"
        /\ request' = [request EXCEPT
                          !.method = SetMethod,
                          !.path = IF SetMethod # "INVALID" THEN c ELSE @,
                          !.version = @]
    BY <1>3, <1>10 DEF ParseRequestLine
  <2>2. /\ request' \in [method : {"INVALID", "GET", "POST"},
                         version : {"UNKNOWN", "HTTP10", "HTTP11"},
                         path : 0..Len(script), headers : SUBSET (1..Len(script))]
        /\ request'.headers = {}
    <3>1. PICK p \in 0..Len(script) :
             request' = [request EXCEPT !.method = SetMethod, !.path = p]
      <4>1. request.path \in 0..Len(script) /\ c \in 0..Len(script)
        BY <1>3 DEF TypeOK
      <4>2. CASE SetMethod # "INVALID"
        BY <2>1, <4>1, <4>2 DEF TypeOK
      <4>3. CASE SetMethod = "INVALID"
        BY <2>1, <4>1, <4>3 DEF TypeOK
      <4> QED
        BY <4>2, <4>3
    <3> QED
      BY <1>3, <1>4, <3>1 DEF TypeOK
  <2>3. Queue' /\ First(c, 1)'
    BY <1>1, <1>4, <2>1, SameQueue
  <2>4. TypeOK'
    BY <1>1, <1>5, <2>1, <2>2 DEF TypeOK
  <2>5. Position(c)'
    BY <1>1, <2>1, <2>2, <2>3 DEF Position
  <2>6. Damage(c)'
    BY <1>1, <2>1 DEF Parser, Damage, AfterPost, IsPost
  <2>7. WellFormed(c) => AfterPost(c)
    BY <1>3, <1>10 DEF WellFormed
  <2>8. c <= sent'
    BY <1>1, <1>3
  <2>9. Verdict(c)'
    BY <1>1, <2>1, <2>7, <2>8 DEF Verdict, WellFormed, AfterPost, IsPost
  <2>10. Open(c)'
    BY <1>1, <1>5, <2>1 DEF Parser, Open
  <2> QED
    BY <1>6, <1>7, <1>8, <2>3, <2>4, <2>5, <2>6, <2>9, <2>10 DEF HttpInv, Parser
<1> QED
  BY <1>9, <1>10

(* The header that is added is one of the request whose line was parsed. *)
LEMMA AddHeaderInv ==
    ASSUME TypeOK, Queue, Answers, NEW c \in 1..sent + 1, Parser(c), AddHeader
    PROVE  HttpInv'
<1>1. /\ pc = "parse" /\ state = "EXPECTHEADERS" /\ HasLine /\ Line.pos = 3
      /\ request' = [request EXCEPT !.headers = @ \cup {Line.req}]
      /\ buffer' = AfterLine
      /\ UNCHANGED <<script, pipelines, sent, net, skip, state, correct, pc, conn,
                     responses, assertFailed>>
  BY DEF AddHeader, Parsing, client, HeaderStart
<1>2. buffer # <<>>
  BY <1>1 DEF HasLine
<1>3. ~First(c, 5)
  BY <1>1, <1>2, LineIs
<1>4. Parsed(c, {}) /\ First(c, 3) /\ correct /\ ~skip
  BY <1>1, <1>2, <1>3 DEF Parser, Position, Verdict, Damage
<1>5. Line.req = c /\ c \in 1..Len(script)
  BY <1>2, <1>4, LineIs
<1>6. request' = [method |-> script[c].method, version |-> script[c].version,
                  path |-> c, headers |-> {c}]
  BY <1>1, <1>4, <1>5 DEF Parsed
<1>7. Parsed(c, {c})'
  BY <1>1, <1>4, <1>6 DEF Parsed
<1>8. 5 <= Size(c)
  <2>1. script[c].pairs \in Nat /\ Size(c) = 6 + 2 * script[c].pairs
    BY <1>5, Sizes
  <2> QED
    BY <2>1
<1>9. /\ buffer' \in Seq(Pieces) /\ Queue' /\ Len(buffer') = Len(buffer) - 2
      /\ \A j \in 1..Len(buffer') : buffer'[j] = buffer[j + 2]
      /\ First(c, 5)'
  BY <1>1, <1>4, <1>8, LineConsumed
<1>10. TypeOK'
  <2>1. /\ request' \in [method : {"INVALID", "GET", "POST"},
                         version : {"UNKNOWN", "HTTP10", "HTTP11"},
                         path : 0..Len(script), headers : SUBSET (1..Len(script))]
    BY <1>1, <1>5 DEF TypeOK
  <2> QED
    BY <1>1, <1>4, <1>9, <2>1 DEF TypeOK
<1>11. Damage(c)'
  <2>1. \A j \in 1..Len(buffer') : j + 2 \in 1..Len(buffer)
    BY <1>9, Types
  <2> QED
    BY <1>1, <1>4, <1>9, <2>1 DEF Parser, Damage
<1>12. Position(c)'
  BY <1>1, <1>7, <1>9 DEF Position
<1>13. Verdict(c)' /\ Open(c)' /\ Waits(c)' /\ Answers' /\ c \in 1..sent' + 1
  <2>1. Answers'
    BY <1>1, SameAnswers
  <2> QED
    BY <1>1, <1>4, <2>1 DEF Parser, Verdict, Open, Waits
<1> QED
  BY <1>9, <1>10, <1>11, <1>12, <1>13 DEF HttpInv, Parser

(* Behind the headers a GET is complete, and a POST has its body next. *)
LEMMA EndOfHeadersInv ==
    ASSUME TypeOK, Queue, Answers, NEW c \in 1..sent + 1, Parser(c), EndOfHeaders
    PROVE  HttpInv'
<1>1. /\ pc = "parse" /\ state = "EXPECTHEADERS" /\ HasLine /\ Line.pos # 3
      /\ buffer' = AfterLine
      /\ \/ request.method = "GET" /\ state' = "ALLOK" /\ pc' = "respond"
         \/ request.method # "GET" /\ state' = "EXPECTBODY" /\ pc' = pc
      /\ UNCHANGED <<script, pipelines, sent, net, skip, request, correct, conn,
                     responses, assertFailed>>
  BY DEF EndOfHeaders, Parsing, client, HeaderStart
<1>2. buffer # <<>>
  BY <1>1 DEF HasLine
<1>3. ~First(c, 3)
  BY <1>1, <1>2, LineIs
<1>4. Parsed(c, {c}) /\ First(c, 5) /\ correct /\ ~skip
  BY <1>1, <1>2, <1>3 DEF Parser, Position, Verdict, Damage
<1>5. c \in 1..Len(script) /\ c \in 1..sent
  BY <1>2, <1>4, LineIs
<1>6. /\ script[c].pairs \in Nat /\ Size(c) = 6 + 2 * script[c].pairs
      /\ script[c].method \in {"GET", "POST"} /\ (script[c].method = "GET" => Size(c) = 6)
  BY <1>5, Sizes
<1>7. /\ script[c].pairs > 0 => 5 + 2 <= Size(c)
      /\ ~(script[c].pairs > 0) => 5 + 1 = Size(c)
      /\ script[c].method = "GET" => 5 + 1 = Size(c)
  BY <1>6
<1>8. /\ buffer' \in Seq(Pieces) /\ Queue' /\ Len(buffer') = Len(buffer) - 2
      /\ \A j \in 1..Len(buffer') : buffer'[j] = buffer[j + 2]
      /\ 5 + 2 <= Size(c) => First(c, 5 + 2)'
      /\ 5 + 1 = Size(c) => First(c + 1, 1)'
  BY <1>1, <1>4, LineConsumed
<1>9. 5 + 2 = 7
  OBVIOUS
<1>10. Parsed(c, {c})' /\ request.method = script[c].method
  BY <1>1, <1>4 DEF Parsed
<1>11. TypeOK'
  BY <1>1, <1>4, <1>8 DEF TypeOK
<1>12. Damage(c)'
  <2>1. \A j \in 1..Len(buffer') : j + 2 \in 1..Len(buffer)
    BY <1>8, Types
  <2> QED
    BY <1>1, <1>4, <1>8, <2>1 DEF Parser, Damage
<1>13. Position(c)'
  <2>1. CASE request.method = "GET"
    <3>1. WellFormed(c)' /\ First(c + 1, 1)'
      BY <1>1, <1>4, <1>7, <1>8, <1>10, <2>1 DEF WellFormed, Parsed
    <3> QED
      BY <1>1, <1>4, <1>10, <2>1, <3>1 DEF Position
  <2>2. CASE request.method # "GET"
    <3>1. IsPost(c)'
      BY <1>1, <1>6, <1>10, <2>2 DEF IsPost
    <3>2. IF script[c].pairs > 0 THEN First(c, 7)' ELSE First(c + 1, 1)'
      BY <1>7, <1>8, <1>9
    <3> QED
      BY <1>1, <1>10, <2>2, <3>1, <3>2 DEF Position
  <2> QED
    BY <2>1, <2>2
<1>14. Verdict(c)' /\ Open(c)' /\ Waits(c)' /\ Answers' /\ c \in 1..sent' + 1
  <2>1. Answers'
    BY <1>1, SameAnswers
  <2> QED
    BY <1>1, <1>4, <2>1 DEF Parser, Verdict, Open, Waits
<1> QED
  BY <1>8, <1>11, <1>12, <1>13, <1>14 DEF HttpInv, Parser

(* A body is complete, or is refused and the request is a POST. *)
LEMMA ParseBodyInv ==
    ASSUME TypeOK, Queue, Answers, NEW c \in 1..sent + 1, Parser(c), ParseBody
    PROVE  HttpInv'
<1>1. /\ Parsing("EXPECTBODY") /\ Measured /\ pc' = "respond"
      /\ UNCHANGED <<script, pipelines, sent, net, conn, responses, assertFailed>>
  BY DEF ParseBody, client
<1>2. /\ pc = "parse" /\ state = "EXPECTBODY" /\ correct
      /\ c \in 1..sent /\ c \in 1..Len(script) /\ Parsed(c, {c}) /\ IsPost(c)
      /\ request.headers = {c}
      /\ ContentLength = 2 * script[c].pairs
      /\ IF script[c].pairs > 0 THEN First(c, 7) ELSE First(c + 1, 1)
  BY <1>1, InBody
<1>3. CASE ~BodyIsThere
  <2>1. correct' = FALSE /\ UNCHANGED <<buffer, skip, state, request>>
    BY <1>3 DEF ParseBody
  <2>2. Verdict(c)'
    <3>1. c <= sent
      BY <1>2
    <3> QED
      BY <1>1, <1>2, <2>1, <3>1 DEF Verdict, IsPost
  <2> QED
    BY <1>1, <1>2, <2>1, <2>2, OnlyPc
<1>4. CASE BodyIsThere
  <2>1. /\ Len(buffer) = 2 * script[c].pairs /\ buffer # <<>>
        /\ buffer' = <<>> /\ skip' = TRUE /\ state' = "ALLOK" /\ UNCHANGED correct
        /\ request' = [request EXCEPT
                          !.headers = @ \cup {buffer[k].req : k \in 1..Len(buffer)}]
    BY <1>2, <1>4 DEF ParseBody, BodyIsThere
  <2>2. /\ Len(buffer) \in Nat /\ Len(buffer) # 0 /\ Ahead \in Nat /\ Len(net) \in Nat
        /\ script[c].pairs \in Nat /\ Size(c) = 6 + 2 * script[c].pairs
    BY <1>2, <2>1, Types, Sizes
  <2>3. /\ Len(buffer) \in 1..Len(buffer) /\ Len(buffer) \in 1..Ahead
        /\ script[c].pairs > 0 /\ Len(buffer) = Size(c) - 7 + 1
    <3>1. \A b, n, p, z \in Nat : b # 0 /\ b = 2 * p /\ z = 6 + 2 * p =>
             /\ b \in 1..b /\ b \in 1..(b + n) /\ p > 0 /\ b = z - 7 + 1
      OBVIOUS
    <3>2. Size(c) \in Nat /\ Len(buffer) = 2 * script[c].pairs
      BY <1>2, <2>1, Sizes
    <3> QED
      BY <2>2, <3>1, <3>2 DEF Ahead
  <2>4. First(c, 7)
    BY <1>2, <2>3
  <2>5. buffer' = SubSeq(buffer, Len(buffer) + 1, Len(buffer))
    <3>1. \A b \in Seq(Pieces) : SubSeq(b, Len(b) + 1, Len(b)) = <<>>
      BY SubSeqEmpty
    <3> QED
      BY <2>1, <3>1, Types
  <2>6. /\ buffer' \in Seq(Pieces)
        /\ Ahead' = Ahead - Len(buffer)
        /\ \A j \in 1..Ahead' : Piece(j)' = Piece(j + Len(buffer))
    BY <1>1, <2>3, <2>5, QueueDropped
  <2>7. Queue'
    <3>1. Contiguous' /\ EndsWithLast'
      BY <1>1, <2>3, <2>6, QueueStillOrdered
    <3>2. Undamaged'
      BY <1>1 DEF Queue, Undamaged
    <3> QED
      BY <3>1, <3>2 DEF Queue
  <2>8. First(c + 1, 1)' /\ \A i \in 1..Len(buffer) : Piece(i).req = c
    <3>1. /\ Len(buffer) = Size(c) - 7 + 1 => First(c + 1, 1)'
          /\ \A i \in 1..Len(buffer) : i <= Size(c) - 7 + 1 => Piece(i).req = c
      BY <1>1, <2>3, <2>4, <2>6, FirstAfter
    <3>2. \A i \in 1..Len(buffer) : i <= Size(c) - 7 + 1
      BY <2>2, <2>3
    <3> QED
      BY <2>3, <3>1, <3>2
  <2>9. \A i \in 1..Len(buffer) : buffer[i].req = c
    <3>1. \A i \in 1..Len(buffer) : i <= Len(buffer)
      BY <2>2
    <3> QED
      BY <2>8, <3>1 DEF Piece
  <2>10. request' = request
    <3>1. {c} \cup {buffer[k].req : k \in 1..Len(buffer)} = {c}
      BY <2>9
    <3> QED
      BY <1>2, <2>1, <3>1 DEF TypeOK
  <2>11. TypeOK'
    BY <1>1, <2>1, <2>6, <2>10 DEF TypeOK
  <2>12. Position(c)'
    <3>1. WellFormed(c)' /\ Parsed(c, {c})'
      BY <1>1, <1>2, <2>3, <2>10 DEF WellFormed, Parsed
    <3> QED
      BY <1>1, <1>2, <2>1, <2>8, <3>1 DEF Position
  <2>13. Damage(c)'
    BY <1>1, <1>2, <2>1 DEF Damage, IsPost
  <2>14. Verdict(c)' /\ Open(c)' /\ Waits(c)' /\ Answers' /\ c \in 1..sent' + 1
    <3>1. Answers'
      BY <1>1, SameAnswers
    <3> QED
      BY <1>1, <1>2, <2>1, <3>1 DEF Parser, Verdict, Open, Waits
  <2> QED
    BY <2>7, <2>11, <2>12, <2>13, <2>14 DEF HttpInv, Parser
<1> QED
  BY <1>3, <1>4

-----------------------------------------------------------------------------
(* What is sent and what is not. *)

AnswerRecords == [code : Codes, of : SUBSET (1..Len(script)), last : BOOLEAN]

(* Sending the answer to request c, if the connection is still open. *)
LEMMA AnswerSent ==
    ASSUME TypeOK, Answers, NEW c \in 1..sent + 1,
           conn = "CONNECTED" => Len(responses) = c - 1,
           NEW a \in AnswerRecords, responses' = Send(a), UNCHANGED <<script, sent>>,
           a.last => conn' = "DISCONNECTING", ~a.last => conn' = conn,
           a.code # 400 => c <= sent /\ a.of = {c} /\ WellFormed(c),
           a.code = 400 => a.last /\ (WellFormed(c) => IsPost(c) \/ AfterPost(c)),
           ~a.last => ~Close(script[c].version, script[c].connection)
    PROVE  /\ Answers'
           /\ conn' \in {"CONNECTED", "DISCONNECTING"}
           /\ responses' \in Seq(AnswerRecords)
           /\ conn = "CONNECTED" => Len(responses') = c /\ responses'[c] = a
           /\ conn = "DISCONNECTING" => UNCHANGED <<conn, responses>>
<1>1. responses \in Seq(AnswerRecords) /\ conn \in {"CONNECTED", "DISCONNECTING"}
  BY DEF TypeOK, AnswerRecords
<1>2. CASE conn = "DISCONNECTING"
  <2>1. UNCHANGED <<conn, responses>>
    BY <1>2 DEF Send
  <2>2. Answers'
    BY <2>1, SameAnswers
  <2> QED
    BY <1>1, <1>2, <2>1, <2>2
<1>3. CASE conn = "CONNECTED"
  <2>1. c \in Nat /\ c >= 1 /\ Len(responses) = c - 1
    BY <1>3, Types
  <2>4. /\ responses' \in Seq(AnswerRecords) /\ Len(responses') = Len(responses) + 1
        /\ responses'[Len(responses) + 1] = a
        /\ \A k \in 1..Len(responses) : responses'[k] = responses[k]
    <3>1. responses' = Append(responses, a)
      BY <1>3 DEF Send
    <3> QED
      BY <1>1, <3>1, AppendProperties
  <2>5. Len(responses') = c /\ responses'[c] = a
    BY <2>1, <2>4
  <2>6. \A k \in 1..Len(responses) : ~responses[k].last
    <3>1. ASSUME NEW k \in 1..Len(responses), responses[k].last PROVE FALSE
      <4>1. k = Len(responses) /\ responses # <<>>
        BY <3>1 DEF Answers, Answered
      <4> QED
        BY <1>3, <3>1, <4>1 DEF Answers
    <3> QED
      BY <3>1
  <2>7. \A k \in 1..c : k = c \/ k \in 1..Len(responses)
    BY <2>1
  <2>8. Answered(c)'
    BY <2>5 DEF Answered, WellFormed, IsPost, AfterPost
  <2>9. \A k \in 1..Len(responses) : Answered(k)'
    BY <2>4, <2>6 DEF Answers, Answered, WellFormed, IsPost, AfterPost
  <2>10. \A k \in 1..Len(responses') : Answered(k)'
    BY <2>5, <2>7, <2>8, <2>9
  <2>11. responses' # <<>>
    BY <2>1, <2>5
  <2>12. (conn = "DISCONNECTING" <=> responses # <<>> /\ responses[Len(responses)].last)'
    BY <1>3, <2>5, <2>11
  <2> QED
    BY <1>3, <2>4, <2>5, <2>10, <2>12 DEF Answers
<1> QED
  BY <1>1, <1>2, <1>3

(* A refusal keeps HttpInv: it is the last answer. *)
LEMMA BadRequestInv ==
    ASSUME TypeOK, Queue, Answers, NEW c \in 1..sent + 1, Parser(c), BadRequest
    PROVE  HttpInv'
<1>1. /\ pc = "respond" /\ ~correct /\ conn' = "DISCONNECTING" /\ pc' = "poll"
      /\ responses' = Send(Answer(400, {}, TRUE))
      /\ UNCHANGED <<script, pipelines, sent, net, buffer, skip, state, request, correct,
                     assertFailed>>
  BY DEF BadRequest, client, ctxVars
<1>2. /\ state # "ALLOK" /\ c <= sent
      /\ WellFormed(c) => IsPost(c) \/ AfterPost(c)
      /\ conn = "CONNECTED" => Len(responses) = c - 1
      /\ ~pipelines => sent <= Len(responses) + 1
  BY <1>1 DEF Parser, Position, Verdict, Open, Waits
<1>3. PICK a \in AnswerRecords : a = Answer(400, {}, TRUE)
  BY DEF AnswerRecords, Answer, Codes
<1>4. a.code = 400 /\ a.last = TRUE
  BY <1>3 DEF Answer
<1>5. /\ Answers' /\ responses' \in Seq(AnswerRecords)
      /\ conn = "CONNECTED" => Len(responses') = c /\ responses'[c].code = 400
      /\ conn = "DISCONNECTING" => UNCHANGED <<conn, responses>>
  <2>1. responses' = Send(a) /\ UNCHANGED <<script, sent>>
    BY <1>1, <1>3
  <2> QED
    <3>1. /\ a.last => conn' = "DISCONNECTING"
          /\ ~a.last => conn' = conn
          /\ a.code # 400 => c <= sent /\ a.of = {c} /\ WellFormed(c)
          /\ a.code = 400 => a.last /\ (WellFormed(c) => IsPost(c) \/ AfterPost(c))
          /\ ~a.last => ~Close(script[c].version, script[c].connection)
      BY <1>1, <1>2, <1>4
    <3>2. /\ Answers' /\ responses' \in Seq(AnswerRecords)
          /\ conn = "CONNECTED" => Len(responses') = c /\ responses'[c] = a
          /\ conn = "DISCONNECTING" => UNCHANGED <<conn, responses>>
      BY <1>2, <2>1, <3>1, AnswerSent
    <3> QED
      BY <1>4, <3>2
<1>6. Queue' /\ \A d, k : First(d, k)' <=> First(d, k)
  BY <1>1, SameQueue
<1>7. TypeOK'
  BY <1>1, <1>2, <1>5 DEF TypeOK, AnswerRecords
<1>8. Position(c)'
  BY <1>1, <1>2, <1>6 DEF Parser, Position, Parsed, IsPost
<1>9. Damage(c)'
  BY <1>1 DEF Parser, Damage, AfterPost, IsPost
<1>10. Verdict(c)' /\ Open(c)' /\ c \in 1..sent' + 1
  BY <1>1 DEF Verdict, Open
<1>11. Waits(c)'
  <2>1. CASE conn = "CONNECTED"
    <3>1. ~pipelines => sent <= c + 1
      <4>1. c \in Nat /\ sent \in Nat /\ (~pipelines => sent <= (c - 1) + 1)
        BY <1>2, <2>1, Types
      <4> QED
        BY <4>1
    <3> QED
      BY <1>1, <1>5, <2>1, <3>1 DEF Waits
  <2>2. CASE conn = "DISCONNECTING"
    <3>1. UNCHANGED <<conn, responses, pipelines, sent>> /\ Waits(c)
      BY <1>1, <1>5, <2>2 DEF Parser
    <3> QED
      BY <3>1 DEF Waits
  <2> QED
    BY <2>1, <2>2 DEF TypeOK
<1> QED
  BY <1>5, <1>6, <1>7, <1>8, <1>9, <1>10, <1>11 DEF HttpInv, Parser

(* A request that was parsed and comes after an answer that closed the     *)
(* connection, of a client that waits for its answers, was refused before. *)
LEMMA ParsedAgain ==
    ASSUME TypeOK, NEW c \in 1..sent + 1, Parser(c), state = "ALLOK",
           conn = "DISCONNECTING", ~pipelines
    PROVE  responses[Len(responses)].code = 400
<1>1. c <= sent
  BY DEF Parser, Position, Parsed
<1>2. c # sent + 1
  BY <1>1, Types
<1> QED
  BY <1>2 DEF Parser, Waits

(* An answer keeps HttpInv: the parser is at the next request then. *)
LEMMA ProcessRequestInv ==
    ASSUME TypeOK, Queue, Answers, NEW c \in 1..sent + 1, Parser(c),
           NEW code \in Codes \ {400}, NEW last \in BOOLEAN,
           ProcessRequest(code, last), ~last => ~AsksToClose
    PROVE  HttpInv'
<1>1. /\ pc = "respond" /\ correct /\ state = "ALLOK" /\ pc' = "poll"
      /\ responses' = Send(Answer(code, request.headers, last))
      /\ conn' = IF last THEN "DISCONNECTING" ELSE conn
      /\ state' = "EXPECTREQUESTLINE" /\ request' = EmptyRequest
      /\ UNCHANGED <<script, pipelines, sent, net, buffer, skip, correct, assertFailed>>
  BY DEF ProcessRequest, ResetContext, client
<1>2. /\ Parsed(c, {c}) /\ WellFormed(c) /\ First(c + 1, 1) /\ c <= sent
      /\ conn = "CONNECTED" => Len(responses) = c - 1 /\ ~assertFailed
      /\ ~pipelines => sent <= Len(responses) + 1
  BY <1>1 DEF Parser, Position, Open, Waits, Parsed
<1>3. /\ sent \in Nat /\ c \in Nat /\ c >= 1 /\ c \in 1..Len(script)
  BY <1>2, Types
<1>4. request.headers = {c} /\ request.version = script[c].version
  BY <1>2 DEF Parsed
<1>5. ~last => ~Close(script[c].version, script[c].connection)
  BY <1>4 DEF AsksToClose
<1>6. PICK a \in AnswerRecords : a = Answer(code, {c}, last)
  BY <1>3 DEF AnswerRecords, Answer
<1>7. /\ Answers' /\ conn' \in {"CONNECTED", "DISCONNECTING"}
      /\ responses' \in Seq(AnswerRecords)
      /\ conn = "CONNECTED" => Len(responses') = c
      /\ conn = "DISCONNECTING" => UNCHANGED <<conn, responses>>
  <2>1. responses' = Send(a) /\ UNCHANGED <<script, sent>>
    BY <1>1, <1>4, <1>6
  <2>2. a.code # 400 /\ a.of = {c} /\ a.last = last
    BY <1>6 DEF Answer
  <2> QED
    BY <1>1, <1>2, <1>5, <2>1, <2>2, AnswerSent
<1>8. Queue' /\ First(c + 1, 1)'
  BY <1>1, <1>2, SameQueue
<1>9. TypeOK'
  <2>1. request' \in [method : {"INVALID", "GET", "POST"},
                      version : {"UNKNOWN", "HTTP10", "HTTP11"},
                      path : 0..Len(script), headers : SUBSET (1..Len(script))]
    <3>1. 0 \in 0..Len(script) /\ {} \in SUBSET (1..Len(script))
      BY Types
    <3> QED
      BY <1>1, <3>1 DEF EmptyRequest
  <2> QED
    BY <1>1, <1>7, <2>1 DEF TypeOK, AnswerRecords
<1>10. Position(c + 1)'
  BY <1>1, <1>8 DEF Position, EmptyRequest
<1>11. Damage(c + 1)'
  <2>1. /\ \A j \in 1..Len(buffer) : ~buffer[j].damaged
        /\ skip => buffer = <<>> /\ IsPost(c)
    BY <1>1 DEF Parser, Damage
  <2>2. c + 1 > 1 /\ (c + 1) - 1 = c
    BY <1>3
  <2>3. IsPost(c) => AfterPost(c + 1)'
    BY <1>1, <2>2 DEF AfterPost, IsPost
  <2> QED
    BY <1>1, <2>1, <2>3 DEF Damage
<1>12. Verdict(c + 1)'
  BY <1>1 DEF Verdict
<1>13. Open(c + 1)'
  <2>1. conn' = "CONNECTED" => conn = "CONNECTED"
    BY <1>1, <1>7
  <2>2. c = (c + 1) - 1
    BY <1>3
  <2> QED
    BY <1>1, <1>2, <1>7, <2>1, <2>2 DEF Open, EmptyRequest
<1>14. Waits(c + 1)'
  <2>1. CASE conn = "CONNECTED"
    <3>1. ~pipelines => sent <= (c - 1) + 1
      BY <1>2, <2>1
    <3>2. ~pipelines => sent <= c + 1 /\ c + 1 = sent + 1
      BY <1>2, <1>3, <3>1
    <3> QED
      BY <1>1, <1>7, <2>1, <3>2 DEF Waits
  <2>2. CASE conn = "DISCONNECTING"
    <3>1. ~pipelines => responses[Len(responses)].code = 400
      BY <1>1, <2>2, ParsedAgain
    <3> QED
      BY <1>1, <1>2, <1>7, <2>2, <3>1 DEF Waits
  <2> QED
    BY <2>1, <2>2 DEF TypeOK
<1>15. c + 1 \in 1..sent' + 1
  BY <1>1, <1>2, <1>3
<1> QED
  BY <1>7, <1>8, <1>9, <1>10, <1>11, <1>12, <1>13, <1>14, <1>15 DEF HttpInv, Parser

(* The two ways a callback leaves _closeConnection: set by itself, or as   *)
(* the request asks for it.                                                *)
Responds(code) == ProcessRequest(code, TRUE) \/ ProcessRequest(code, AsksToClose)

(* So does any callback that ends in processRequest(). *)
LEMMA CallbackInv ==
    ASSUME TypeOK, Queue, Answers, NEW c \in 1..sent + 1, Parser(c),
           NEW code \in Codes \ {400}, Responds(code)
    PROVE  HttpInv'
<1>1. CASE ProcessRequest(code, TRUE)
  BY <1>1, ProcessRequestInv
<1>2. CASE ProcessRequest(code, AsksToClose)
  <2>1. AsksToClose \in BOOLEAN
    BY DEF AsksToClose
  <2> QED
    BY <1>2, <2>1, ProcessRequestInv
<1> QED
  BY <1>1, <1>2 DEF Responds

(* ServeStatic() responds with the page or an error. *)
LEMMA ServeStaticResponds ==
    ASSUME NEW page, NEW held, ServeStatic(page, held)
    PROVE  Responds(200) \/ Responds(500)
BY DEF ServeStatic, Response500, Show, Responds

(* Every branch of onRequest() responds, and never with 400. *)
LEMMA OnRequestResponds ==
    ASSUME OnRequest
    PROVE  \E code \in Codes \ {400} : Responds(code)
<1>1. {0, 200, 404, 500} \subseteq Codes \ {400}
  BY DEF Codes
<1>2. ASSUME NEW page, NEW held, ServeStatic(page, held)
      PROVE  \E code \in Codes \ {400} : Responds(code)
  BY <1>1, <1>2, ServeStaticResponds
<1>3. CASE StaticPage \/ SignUp \/ SignIn
  BY <1>2, <1>3 DEF StaticPage, SignUp, SignIn
<1>4. CASE NotFound \/ NoDatabase \/ BookListFails
  <2>1. Responds(404) \/ Responds(500)
    BY <1>4 DEF NotFound, NoDatabase, BookListFails, Response404, Response500, Show,
              Responds
  <2> QED
    BY <1>1, <2>1
<1>5. CASE Time \/ BookList
  <2>1. Responds(200)
    BY <1>5 DEF Time, BookList, Show, Responds
  <2> QED
    BY <1>1, <2>1
<1>6. CASE AccountFails
  <2>1. Responds(0)
    BY <1>6 DEF AccountFails, ResponseUnset, Show, Responds
  <2> QED
    BY <1>1, <2>1
<1> QED
  BY <1>3, <1>4, <1>5, <1>6 DEF OnRequest

(* a connection that was just accepted *)
Fresh ==
    /\ script \in Scripts /\ pipelines \in BOOLEAN /\ sent = 0 /\ net = <<>>
    /\ buffer = <<>> /\ skip = FALSE /\ state = "EXPECTREQUESTLINE"
    /\ request = EmptyRequest /\ correct = TRUE /\ pc = "poll"
    /\ conn = "CONNECTED" /\ responses = <<>> /\ assertFailed = FALSE

(* A new connection has its parser at the first request. *)
LEMMA FreshConnection == Fresh => HttpInv
<1> SUFFICES ASSUME Fresh PROVE HttpInv
  OBVIOUS
<1> USE DEF Fresh
<1>1. Len(script) \in Nat
  BY HttpAssumption
<1>2. TypeOK
  <2>1. request \in [method : {"INVALID", "GET", "POST"},
                     version : {"UNKNOWN", "HTTP10", "HTTP11"},
                     path : 0..Len(script), headers : SUBSET (1..Len(script))]
    <3>1. 0 \in 0..Len(script) /\ {} \in SUBSET (1..Len(script))
      BY <1>1
    <3> QED
      BY <3>1 DEF EmptyRequest
  <2>2. /\ <<>> \in Seq(Pieces) /\ sent \in 0..Len(script)
        /\ <<>> \in Seq([code : Codes, of : SUBSET (1..Len(script)), last : BOOLEAN])
    BY <1>1
  <2> QED
    BY <2>1, <2>2 DEF TypeOK
<1>3. Ahead = 0 /\ Len(net) = 0 /\ Len(buffer) = 0 /\ Len(responses) = 0
  BY DEF Ahead
<1>4. Queue
  BY <1>3 DEF Queue, Contiguous, EndsWithLast, Undamaged
<1>5. Answers
  BY <1>3 DEF Answers
<1>6. First(1, 1)
  BY <1>3 DEF First
<1>7. Position(1)
  BY <1>6 DEF Position, EmptyRequest
<1>8. Damage(1) /\ Verdict(1)
  BY <1>3 DEF Damage, Verdict
<1>9. Open(1) /\ Waits(1) /\ 1 \in 1..sent + 1
  BY <1>3 DEF Open, Waits, EmptyRequest
<1> QED
  BY <1>2, <1>4, <1>5, <1>7, <1>8, <1>9 DEF HttpInv, Parser

(* The same for the connection of the next client. *)
LEMMA FreshConnectionNext == Fresh' => HttpInv'
BY FreshConnection, PTL

(* The first connection is a new one. *)
LEMMA InitHttpInv == WebInit => HttpInv
BY FreshConnection DEF WebInit, Init, Fresh

(* Every step of server, client and application keeps HttpInv. *)
LEMMA NextHttpInv == HttpInv /\ [WebNext]_webVars => HttpInv'
<1> SUFFICES ASSUME HttpInv, [WebNext]_webVars PROVE HttpInv'
  OBVIOUS
<1>1. PICK c \in 1..sent + 1 : Parser(c)
  BY DEF HttpInv
<1>2. TypeOK /\ Queue /\ Answers
  BY DEF HttpInv
<1>3. CASE ClientSends
  BY <1>1, <1>2, <1>3, ClientSendsInv
<1>4. CASE OnMessageWithoutData
  BY <1>1, <1>2, <1>4, OnMessageWithoutDataInv
<1>5. CASE OnMessage
  BY <1>1, <1>2, <1>5, OnMessageInv
<1>6. CASE NoLine
  BY <1>1, <1>2, <1>6, NoLineInv
<1>7. CASE ParseRequestLine
  BY <1>1, <1>2, <1>7, ParseRequestLineInv
<1>8. CASE AddHeader
  BY <1>1, <1>2, <1>8, AddHeaderInv
<1>9. CASE EndOfHeaders
  BY <1>1, <1>2, <1>9, EndOfHeadersInv
<1>10. CASE ParseBody
  BY <1>1, <1>2, <1>10, ParseBodyInv
<1>11. CASE ParseUnmeasuredBody
  BY <1>1, <1>2, <1>11, ParseUnmeasuredBodyInv
<1>12. CASE BadRequest
  BY <1>1, <1>2, <1>12, BadRequestInv
<1>13. CASE NeedMore
  BY <1>1, <1>2, <1>13, NeedMoreInv
<1>14. CASE AnyCallback
  <2>1. Responds(200)
    BY <1>14 DEF AnyCallback, Responds
  <2>2. 200 \in Codes \ {400}
    BY DEF Codes
  <2> QED
    BY <1>1, <1>2, <2>1, <2>2, CallbackInv
<1>15. CASE OnRequest
  <2>1. PICK code \in Codes \ {400} : Responds(code)
    BY <1>15, OnRequestResponds
  <2> QED
    BY <1>1, <1>2, <2>1, CallbackInv
<1>16. CASE NextClient
  <2>1. script' \in Scripts
    BY <1>16, WebAssumption DEF NextClient
  <2>2. Fresh'
    BY <1>16, <2>1 DEF NextClient, Fresh
  <2> QED
    BY <2>2, FreshConnectionNext
<1>17. CASE UNCHANGED webVars
  <2>1. UNCHANGED <<script, pipelines, sent, net, buffer, skip, state, request, correct,
                    pc, conn, responses, assertFailed>>
    BY <1>17 DEF webVars, vars
  <2>2. Queue' /\ Answers' /\ TypeOK'
    BY <1>2, <2>1, SameQueue, SameAnswers DEF TypeOK
  <2>3. Position(c)'
    <3>1. \A d, k : First(d, k)' <=> First(d, k)
      BY <1>2, <2>1, SameQueue
    <3> QED
      BY <1>1, <2>1, <3>1 DEF Parser, Position, Parsed, IsPost, WellFormed
  <2>4. Damage(c)' /\ Verdict(c)' /\ Open(c)' /\ Waits(c)' /\ c \in 1..sent' + 1
    BY <1>1, <2>1 DEF Parser, Damage, Verdict, Open, Waits, IsPost, AfterPost, WellFormed
  <2> QED
    BY <2>2, <2>3, <2>4 DEF HttpInv, Parser
<1> QED
  BY <1>3, <1>4, <1>5, <1>6, <1>7, <1>8, <1>9, <1>10, <1>11, <1>12, <1>13, <1>14,
     <1>15, <1>16, <1>17 DEF WebNext, WebStep, LoopStep, Parse

-----------------------------------------------------------------------------
(* The k-th success answers the k-th request, from its own lines only, for *)
(* any requests cut into any segments: no state of HttpContext is carried  *)
(* from one request into the answer of another.                            *)
THEOREM AnswersMatchHolds == WebSpec => []AnswersMatch
<1>1. HttpInv => AnswersMatch
  <2> SUFFICES ASSUME HttpInv PROVE AnswersMatch
    OBVIOUS
  <2>1. TypeOK /\ Answers
    BY DEF HttpInv
  <2>2. conn = "CONNECTED" => ~assertFailed
    BY DEF HttpInv, Parser, Open
  <2>3. assertFailed => conn = "DISCONNECTING"
    BY <2>1, <2>2 DEF TypeOK
  <2> QED
    BY <2>1, <2>3 DEF AnswersMatch, Answers, Answered
<1> QED
  BY <1>1, InitHttpInv, NextHttpInv, PTL DEF WebSpec

(* After an answer that closes the connection nothing is sent, and every   *)
(* other answer leaves it open, for any number of requests.                *)
THEOREM LastAnswerIsLastHolds == WebSpec => []LastAnswerIsLast
<1>1. HttpInv => LastAnswerIsLast
  <2> SUFFICES ASSUME HttpInv PROVE LastAnswerIsLast
    OBVIOUS
  <2>1. Answers /\ Len(responses) \in Nat
    BY DEF HttpInv, TypeOK
  <2>2. \A k \in 1..Len(responses) - 1 : k \in 1..Len(responses) /\ k # Len(responses)
    BY <2>1
  <2> QED
    BY <2>1, <2>2 DEF LastAnswerIsLast, Answers, Answered
<1> QED
  BY <1>1, InitHttpInv, NextHttpInv, PTL DEF WebSpec

(* A well-formed request is refused only as a POST or right behind one,    *)
(* and only a POST brings the process down.                                *)
THEOREM OnlyBodiesFailHolds == WebSpec => []OnlyBodiesFail
<1>1. HttpInv => OnlyBodiesFail
  <2> SUFFICES ASSUME HttpInv PROVE OnlyBodiesFail
    OBVIOUS
  <2>1. Answers
    BY DEF HttpInv
  <2>2. pc = "dead" =>
           \E k \in 1..sent : script[k].method = "POST" /\ (script[k].measured => skip)
    BY DEF HttpInv, Parser, Verdict, IsPost
  <2> QED
    BY <2>1, <2>2 DEF OnlyBodiesFail, Answers, Answered, IsPost, AfterPost
<1> QED
  BY <1>1, InitHttpInv, NextHttpInv, PTL DEF WebSpec

(* Whoever gets an account is told so, but for a missing page, descriptors *)
(* that ran out, a client that pipelines, and a body that was refused when *)
(* its first segment came and processed with the second.                   *)
THEOREM SignUpsAreConfirmedHolds == WebSpec => SignUpsAreConfirmed
<1> DEFINE Confirmed ==
        users' # users =>
          \/ shown'.page = "/signin.html"
          \/ "/signin.html" \in Missing \/ Used + 1 = MaxFds
          \/ pipelines
          \/ responses # <<>> /\ responses[Len(responses)].code = 400
<1>1. HttpInv /\ [WebNext]_webVars => [Confirmed]_webVars
  <2> SUFFICES ASSUME HttpInv, WebNext, users' # users PROVE Confirmed
    BY DEF webVars, webOnly
  <2>1. SignUp
    BY DEF WebNext, WebStep, OnRequest, StaticPage, Time, NotFound, NoDatabase, BookList,
           BookListFails, AccountFails, SignIn, NextClient, webOnly
  <2>2. AtPath("/signup") /\ ServeStatic("/signin.html", 1)
    BY <2>1 DEF SignUp, AtDatabase
  <2>3. CASE "/signin.html" \in Missing \/ Used + 1 = MaxFds
    BY <2>3
  <2>4. CASE Show("/signin.html", 200, TRUE)
    <3>1. CASE conn = "CONNECTED"
      BY <2>4, <3>1 DEF Show
    <3>2. CASE conn # "CONNECTED"
      <4>1. state = "ALLOK" /\ conn = "DISCONNECTING" /\ TypeOK /\ Answers
        BY <2>2, <3>2 DEF AtPath, HttpInv, TypeOK
      <4>2. responses # <<>>
        BY <4>1 DEF Answers
      <4>3. ~pipelines => responses[Len(responses)].code = 400
        BY <4>1, ParsedAgain DEF HttpInv
      <4> QED
        BY <4>2, <4>3
    <3> QED
      BY <3>1, <3>2
  <2> QED
    BY <2>2, <2>3, <2>4 DEF ServeStatic
<1>2. WebSpec => [][Confirmed]_webVars
  BY <1>1, InitHttpInv, NextHttpInv, PTL DEF WebSpec
<1> QED
  BY <1>2 DEF SignUpsAreConfirmed

-----------------------------------------------------------------------------
(* What onMessage() leaves behind of a client that waits for its answers:  *)
(* no line that was not parsed and no body that was not looked at.         *)
Drained ==
    conn = "CONNECTED" /\ ~pipelines
    /\ (pc = "poll" \/ (pc = "respond" /\ correct /\ state # "ALLOK"))
        => ~HasLine /\ state # "EXPECTBODY"

(* When such a client's stream was read to its end, its every request has  *)
(* an answer.                                                              *)
NothingOverlooked ==
    pc = "poll" /\ conn = "CONNECTED" /\ ~pipelines /\ net = <<>>
        => Len(responses) >= sent

(* Behind the request that is answered last nothing is in the buffer. *)
LEMMA AnsweredIsLast ==
    ASSUME HttpInv, state = "ALLOK", conn = "CONNECTED", ~pipelines
    PROVE  buffer = <<>>
<1>1. PICK c \in 1..sent + 1 : Parser(c)
  BY DEF HttpInv
<1>2. TypeOK /\ Queue
  BY DEF HttpInv
<1>3. /\ First(c + 1, 1) /\ c <= sent
      /\ Len(responses) = c - 1 /\ sent <= Len(responses) + 1
  BY <1>1 DEF Parser, Position, Open, Waits, Parsed
<1>4. sent \in Nat /\ c \in Nat /\ Len(buffer) \in Nat /\ Len(net) \in Nat /\ Ahead \in Nat
  BY <1>2, Types
<1>5. c = sent
  BY <1>3, <1>4
<1>6. Ahead > 0 => Piece(1).req \in 1..sent
  BY <1>2, <1>4 DEF Queue, Contiguous
<1>7. Ahead = 0
  BY <1>3, <1>4, <1>5, <1>6 DEF First
<1>8. Len(buffer) = 0
  BY <1>4, <1>7 DEF Ahead
<1> QED
  BY <1>2, <1>8, Types

(* An answer leaves nothing to be parsed. *)
LEMMA RespondsDrained ==
    ASSUME HttpInv, NEW code, Responds(code)
    PROVE  Drained'
<1>1. /\ state = "ALLOK" /\ state' = "EXPECTREQUESTLINE"
      /\ UNCHANGED <<pipelines, buffer>>
      /\ conn' \in {"DISCONNECTING", conn}
  BY DEF Responds, ProcessRequest, ResetContext, client
<1>2. CASE conn' = "CONNECTED" /\ ~pipelines
  <2>1. buffer' = <<>>
    BY <1>1, <1>2, AnsweredIsLast
  <2>2. ~HasLine'
    BY <2>1 DEF HasLine
  <2> QED
    BY <1>1, <2>2 DEF Drained
<1>3. CASE ~(conn' = "CONNECTED" /\ ~pipelines)
  BY <1>1, <1>3 DEF Drained
<1> QED
  BY <1>2, <1>3

(* Every step keeps Drained. *)
LEMMA NextDrained == HttpInv /\ Drained /\ [WebNext]_webVars => Drained'
<1> SUFFICES ASSUME HttpInv, Drained, [WebNext]_webVars PROVE Drained'
  OBVIOUS
<1>1. ASSUME pc' \in {"parse", "dead"} PROVE Drained'
  BY <1>1 DEF Drained
<1>2. ASSUME UNCHANGED <<pipelines, buffer, state, correct, pc, conn>> PROVE Drained'
  BY <1>2 DEF Drained, HasLine
<1>3. CASE ClientSends
  BY <1>2, <1>3 DEF ClientSends, client, ctxVars
<1>4. CASE OnMessageWithoutData
  BY <1>1, <1>4 DEF OnMessageWithoutData
<1>5. CASE OnMessage
  BY <1>1, <1>5 DEF OnMessage
<1>6. CASE NoLine
  BY <1>6 DEF NoLine, Parsing, Drained, HasLine, client, ctxVars
<1>7. CASE ParseRequestLine
  BY <1>7 DEF ParseRequestLine, Drained
<1>8. CASE AddHeader
  BY <1>1, <1>8 DEF AddHeader, Parsing
<1>9. CASE EndOfHeaders
  BY <1>1, <1>9 DEF EndOfHeaders, Parsing, Drained
<1>10. CASE ParseBody
  BY <1>10 DEF ParseBody, Drained
<1>11. CASE ParseUnmeasuredBody
  BY <1>1, <1>11 DEF ParseUnmeasuredBody
<1>12. CASE BadRequest
  BY <1>12 DEF BadRequest, Drained
<1>13. CASE NeedMore
  BY <1>13 DEF NeedMore, Drained, HasLine, client, ctxVars
<1>14. CASE AnyCallback
  <2>1. Responds(200)
    BY <1>14 DEF AnyCallback, Responds
  <2> QED
    BY <2>1, RespondsDrained
<1>15. CASE OnRequest
  BY <1>15, OnRequestResponds, RespondsDrained
<1>16. CASE NextClient
  <2>1. buffer' = <<>> /\ state' = "EXPECTREQUESTLINE"
    BY <1>16 DEF NextClient
  <2> QED
    BY <2>1 DEF Drained, HasLine
<1>17. CASE UNCHANGED webVars
  BY <1>2, <1>17 DEF webVars, vars
<1> QED
  BY <1>3, <1>4, <1>5, <1>6, <1>7, <1>8, <1>9, <1>10, <1>11, <1>12, <1>13, <1>14,
     <1>15, <1>16, <1>17 DEF WebNext, WebStep, LoopStep, Parse

(* A line that is the next one and was received as a whole is found. *)
LEMMA WholeLineIsFound ==
    ASSUME TypeOK, Queue, net = <<>>, sent \in 1..Len(script),
           NEW k \in {1, 3, 5}, First(sent, k)
    PROVE  HasLine
<1>1. /\ Len(buffer) \in Nat /\ Ahead = Len(buffer) /\ Ahead \in Nat /\ sent \in Nat
  BY Types DEF Ahead
<1>2. Ahead > 0 /\ Piece(1).req = sent /\ Piece(1).pos = k
  BY <1>1 DEF First
<1>3. Size(sent) \in Nat /\ Size(sent) >= 6
  <2>1. script[sent].pairs \in Nat /\ Size(sent) = 6 + 2 * script[sent].pairs
    BY Sizes
  <2> QED
    BY <2>1
<1>4. Ahead # 1
  BY <1>2, <1>3 DEF Queue, EndsWithLast
<1>5. 2 <= Ahead /\ 1 \in 1..Ahead /\ 2 \in 1..Ahead
  BY <1>1, <1>2, <1>4
<1>6. Rest(1) = Size(sent) - k /\ 2 - 1 <= Rest(1)
  BY <1>2, <1>3 DEF Rest
<1>7. Piece(2).pos = k + 1
  <2>1. Piece(2).pos = Piece(1).pos + (2 - 1)
    BY <1>1, <1>5, <1>6 DEF Queue, Contiguous
  <2> QED
    BY <1>2, <2>1
<1>8. Piece(2) = buffer[2] /\ k + 1 \in LineEnds
  BY <1>1, <1>5 DEF Piece, LineEnds
<1> QED
  BY <1>1, <1>5, <1>7, <1>8 DEF HasLine

(* A client that waits for its answers is never left behind: whenever the  *)
(* server is back in poll() with all of the client's stream read and the   *)
(* connection open, it has answered every request.  This is the safety     *)
(* part of RequestsAnswered: no segment in which the stream may have been  *)
(* cut leaves a complete request in the buffer that no event would wake.   *)
THEOREM NothingOverlookedHolds == WebSpec => []NothingOverlooked
<1>1. WebInit => Drained
  BY DEF WebInit, Init, Drained, HasLine
<1>2. HttpInv /\ Drained => NothingOverlooked
  <2> SUFFICES ASSUME HttpInv, Drained, pc = "poll", conn = "CONNECTED", ~pipelines,
                      net = <<>>
               PROVE  Len(responses) >= sent
    BY DEF NothingOverlooked
  <2>1. PICK c \in 1..sent + 1 : Parser(c)
    BY DEF HttpInv
  <2>2. TypeOK /\ Queue
    BY DEF HttpInv
  <2>3. /\ sent \in Nat /\ sent <= Len(script) /\ Len(script) \in Nat
        /\ Len(responses) = c - 1
    BY <2>1, <2>2, Types DEF Parser, Open
  <2>4. \E k \in {1, 3, 5} : First(c, k)
    BY <2>1, <2>2 DEF Parser, Position, Drained, TypeOK
  <2>5. c # sent
    <3> SUFFICES ASSUME c = sent PROVE FALSE
      OBVIOUS
    <3>1. sent \in 1..Len(script)
      BY <2>3
    <3>2. HasLine
      BY <2>2, <2>4, <3>1, WholeLineIsFound
    <3> QED
      BY <3>2 DEF Drained
  <2>6. sent <= (c - 1) + 1
    BY <2>1, <2>3 DEF Parser, Waits
  <2> QED
    BY <2>3, <2>5, <2>6
<1> QED
  BY <1>1, <1>2, InitHttpInv, NextHttpInv, NextDrained, PTL DEF WebSpec
=============================================================================
