----------------------------- MODULE HttpServer -----------------------------
(***************************************************************************)
(* HttpServer and the request parser HttpContext on one connection         *)
(* (src/HttpServer.cpp, HttpContext.cpp, http/HttpRequest.hpp), with what  *)
(* they need of HyBuffer and TcpConnection.                                *)
(*                                                                         *)
(* Every line of a request (the request line, a header, the empty line)    *)
(* and every name=value pair of a body is two pieces: a segment of the TCP *)
(* stream may end inside each of them.  A line is found when its second    *)
(* piece, which holds the CRLF, is in the buffer.  The loop of             *)
(* parseRequest() is one step per round; onMessage() is on the loop thread *)
(* and is not interleaved with anything but the client.                    *)
(*                                                                         *)
(* clearUntil(getEOL() + 1) at the end of a body puts _readerIndex one     *)
(* byte behind _writerIndex, so that the first byte of what is read next   *)
(* is lost (skip).  The build compiles assertions out; assertFailed        *)
(* records that the one of HttpRequest::setMethod() would have failed.     *)
(* pc = "dead": the process was terminated by an exception nobody catches, *)
(* or went on with an inverted range of the buffer.                        *)
(***************************************************************************)
EXTENDS Naturals, Sequences

CONSTANTS
    Targets,    \* what a request may ask for
    Scripts     \* sequences of requests a client may send, see Requests

(* line: "ok", or a request line that is refused for its method or its     *)
(* version; connection: value of the Connection header, "other" also when  *)
(* there is none; pairs: name=value pairs of the body; measured: there is  *)
(* a Content-Length header, which is right; target: the path.              *)
Requests == [method     : {"GET", "POST"},
             version    : {"HTTP10", "HTTP11"},
             line       : {"ok", "badMethod", "badVersion"},
             connection : {"closed", "keep-alive", "other"},
             pairs      : Nat,
             measured   : BOOLEAN,
             target     : Targets]

(* a GET has no body *)
ASSUME HttpAssumption ==
    \A s \in Scripts :
        /\ s \in Seq(Requests)
        /\ \A i \in 1..Len(s) : s[i].method = "GET" => s[i].pairs = 0

VARIABLES
    script,       \* what this client sends
    pipelines,    \* does it send before it has an answer?
    sent,         \* how many requests of it were sent
    net,          \* pieces sent and not read
    buffer,       \* the pieces in _inputBuffer
    skip,         \* _readerIndex is one behind _writerIndex
    state,        \* HttpContext::_state
    request,      \* HttpContext::_request
    correct,      \* the local of parseRequest()
    pc,           \* "poll", "parse", "respond" or "dead"
    conn,         \* TcpConnection::_state
    responses,    \* what was sent back: [code, of, last]
    assertFailed

vars == <<script, pipelines, sent, net, buffer, skip, state, request, correct,
          pc, conn, responses, assertFailed>>

client == <<script, pipelines>>
ctxVars == <<buffer, skip, state, request>>

Pieces == [req : Nat, pos : Nat, damaged : BOOLEAN]

(* The pieces of request i: 1 and 2 are its request line, 3 and 4 a        *)
(* header, 5 and 6 the empty line, the others the pairs of its body.       *)
Size(i) == 6 + 2 * script[i].pairs
Stream(i) == [k \in 1..Size(i) |-> [req |-> i, pos |-> k, damaged |-> FALSE]]

HeaderStart == 3
LineEnds == {2, 4, 6}

(* path: the request whose line set it, 0 for none; headers: the requests  *)
(* whose lines and pairs went into the map _headers, which addBody() uses  *)
(* as well                                                                 *)
EmptyRequest ==
    [method |-> "INVALID", version |-> "UNKNOWN", path |-> 0, headers |-> {}]

(* HttpStatusCode; 0 until the callback sets another *)
Codes == {0, 200, 400, 404, 500}

TypeOK ==
    /\ script \in Scripts /\ pipelines \in BOOLEAN
    /\ sent \in 0..Len(script)
    /\ net \in Seq(Pieces) /\ buffer \in Seq(Pieces)
    /\ skip => buffer = <<>>
    /\ state \in {"EXPECTREQUESTLINE", "EXPECTHEADERS", "EXPECTBODY", "ALLOK"}
    /\ state = "ALLOK" => pc = "respond"
    /\ request \in [method : {"INVALID", "GET", "POST"},
                    version : {"UNKNOWN", "HTTP10", "HTTP11"},
                    path : 0..Len(script),
                    headers : SUBSET (1..Len(script))]
    /\ correct \in BOOLEAN /\ assertFailed \in BOOLEAN /\ skip \in BOOLEAN
    /\ pc \in {"poll", "parse", "respond", "dead"}
    /\ conn \in {"CONNECTED", "DISCONNECTING"}
    /\ responses \in Seq([code : Codes, of : SUBSET (1..Len(script)), last : BOOLEAN])

(* onConnection(): a fresh HttpContext *)
Init ==
    /\ script \in Scripts /\ pipelines \in BOOLEAN
    /\ sent = 0
    /\ net = <<>>
    /\ buffer = <<>> /\ skip = FALSE
    /\ state = "EXPECTREQUESTLINE"
    /\ request = EmptyRequest
    /\ correct = TRUE
    /\ pc = "poll"
    /\ conn = "CONNECTED"
    /\ responses = <<>>
    /\ assertFailed = FALSE

-----------------------------------------------------------------------------
(* A client that waits for its answers goes by what they say. *)
ClientSends ==
    /\ pc # "dead"
    /\ sent < Len(script)
    /\ pipelines \/ (Len(responses) = sent /\ conn = "CONNECTED")
    /\ sent' = sent + 1
    /\ net' = net \o Stream(sent + 1)
    /\ UNCHANGED <<client, ctxVars, correct, pc, conn, responses, assertFailed>>

(* connectionHandler() reads what has arrived of the stream, and calls     *)
(* onMessage(), which calls parseRequest().                                *)
OnMessage ==
    /\ pc = "poll"
    /\ \E n \in 1..Len(net) :
          /\ buffer' = buffer \o
                [k \in 1..n |-> [net[k] EXCEPT !.damaged = skip /\ k = 1]]
          /\ net' = SubSeq(net, n + 1, Len(net))
    /\ skip' = FALSE
    /\ correct' = TRUE
    /\ pc' = "parse"
    /\ UNCHANGED <<client, sent, state, request, conn, responses, assertFailed>>

(* The same for a report of poll() that leads to no data: readFd() returns *)
(* -1, which is a positive size_t, and onMessage() is called all the same. *)
(* After a body getCRLF() then searches from behind the end of the buffer. *)
OnMessageWithoutData ==
    /\ pc = "poll"
    /\ net = <<>>
    /\ correct' = TRUE
    /\ pc' = IF skip THEN "dead" ELSE "parse"
    /\ UNCHANGED <<client, sent, net, ctxVars, conn, responses, assertFailed>>

-----------------------------------------------------------------------------
(* Rounds of the loop in parseRequest().                                   *)

Parsing(where) == pc = "parse" /\ state = where

(* getCRLF() finds one; the first line is the first two pieces then *)
HasLine ==
    \E i \in 1..Len(buffer) : buffer[i].pos \in LineEnds

Line == buffer[1]
AfterLine == SubSeq(buffer, 3, Len(buffer))

NoLine ==
    /\ Parsing("EXPECTREQUESTLINE") \/ Parsing("EXPECTHEADERS")
    /\ ~HasLine
    /\ pc' = "respond"
    /\ UNCHANGED <<client, sent, net, ctxVars, correct, conn, responses,
                   assertFailed>>

SetMethod ==
    IF Line.damaged \/ script[Line.req].line = "badMethod"
      THEN "INVALID" ELSE script[Line.req].method

(* parseRequestLine(): setMethod(), then path, query and version; what was *)
(* set stays set when the rest of the line is refused.                     *)
ParseRequestLine ==
    /\ Parsing("EXPECTREQUESTLINE")
    /\ HasLine
    /\ LET r  == script[Line.req]
           ok == SetMethod # "INVALID" /\ r.line # "badVersion"
       IN  /\ request' = [request EXCEPT
                             !.method = SetMethod,
                             !.path = IF SetMethod # "INVALID" THEN Line.req ELSE @,
                             !.version = IF ok THEN r.version ELSE @]
           /\ buffer' = IF ok THEN AfterLine ELSE buffer
           /\ state' = IF ok THEN "EXPECTHEADERS" ELSE state
           /\ correct' = ok
           /\ pc' = IF ok THEN "parse" ELSE "respond"
    /\ assertFailed' = (assertFailed \/ request.method # "INVALID")
    /\ UNCHANGED <<client, sent, net, skip, conn, responses>>

AddHeader ==
    /\ Parsing("EXPECTHEADERS")
    /\ HasLine /\ Line.pos = HeaderStart
    /\ request' = [request EXCEPT !.headers = @ \cup {Line.req}]
    /\ buffer' = AfterLine
    /\ UNCHANGED <<client, sent, net, skip, state, correct, pc, conn,
                   responses, assertFailed>>

(* the end of the headers, with a body expected of a GET too *)
EndOfHeadersThenBody ==
    /\ Parsing("EXPECTHEADERS")
    /\ HasLine /\ Line.pos # HeaderStart
    /\ buffer' = AfterLine
    /\ state' = "EXPECTBODY"
    /\ UNCHANGED <<client, sent, net, skip, request, correct, pc, conn,
                   responses, assertFailed>>

(* a line without a colon ends the headers *)
EndOfHeaders ==
    /\ Parsing("EXPECTHEADERS")
    /\ HasLine /\ Line.pos # HeaderStart
    /\ buffer' = AfterLine
    /\ \/ /\ request.method = "GET"
          /\ state' = "ALLOK" /\ pc' = "respond"
       \/ /\ request.method # "GET"
          /\ state' = "EXPECTBODY" /\ UNCHANGED pc
    /\ UNCHANGED <<client, sent, net, skip, request, correct, conn, responses,
                   assertFailed>>

Measured == \E i \in request.headers : script[i].measured
ContentLength == 2 * script[CHOOSE i \in request.headers : TRUE].pairs

(* contentLength == actualLength, and there is a name=value *)
BodyIsThere == Len(buffer) = ContentLength /\ buffer # <<>>

(* all the pairs; everything in the buffer is taken for the body *)
ParseBody ==
    /\ Parsing("EXPECTBODY") /\ Measured
    /\ \/ /\ BodyIsThere
          /\ request' = [request EXCEPT
                            !.headers = @ \cup {buffer[k].req : k \in 1..Len(buffer)}]
          /\ buffer' = <<>> /\ skip' = TRUE
          /\ state' = "ALLOK"
          /\ UNCHANGED correct
       \/ /\ ~BodyIsThere
          /\ correct' = FALSE
          /\ UNCHANGED <<request, buffer, skip, state>>
    /\ pc' = "respond"
    /\ UNCHANGED <<client, sent, net, conn, responses, assertFailed>>

(* std::stoi() of the empty string throws *)
ParseUnmeasuredBody ==
    /\ Parsing("EXPECTBODY") /\ ~Measured
    /\ pc' = "dead"
    /\ UNCHANGED <<client, sent, net, ctxVars, correct, conn, responses,
                   assertFailed>>

-----------------------------------------------------------------------------
Answer(code, of, last) == [code |-> code, of |-> of, last |-> last]

(* send() that does not look at _state *)
SendAnyway(answer) == Append(responses, answer)

(* TcpConnection::send() *)
Send(answer) ==
    IF conn = "CONNECTED" THEN Append(responses, answer) ELSE responses

(* the close of processRequest() *)
Close(version, connection) ==
    connection = "closed" \/ (version = "HTTP10" /\ connection # "keep-alive")

(* reset() that leaves _state at ALLOK, where parseRequest() never ends *)
ResetRequestOnly == UNCHANGED state /\ request' = EmptyRequest

(* reset() that leaves _request as it is *)
ResetStateOnly == state' = "EXPECTREQUESTLINE" /\ UNCHANGED request

ResetContext == state' = "EXPECTREQUESTLINE" /\ request' = EmptyRequest

(* parseRequest() returned: the rest of onMessage(). *)
BadRequest ==
    /\ pc = "respond" /\ ~correct
    /\ responses' = Send(Answer(400, {}, TRUE))
    /\ conn' = "DISCONNECTING"
    /\ pc' = "poll"
    /\ UNCHANGED <<client, sent, net, ctxVars, correct, assertFailed>>

NeedMore ==
    /\ pc = "respond" /\ correct /\ state # "ALLOK"
    /\ pc' = "poll"
    /\ UNCHANGED <<client, sent, net, ctxVars, correct, conn, responses,
                   assertFailed>>

(* processRequest(): does the request ask for the connection to be closed? *)
AsksToClose ==
    \E i \in request.headers : Close(request.version, script[i].connection)

(* processRequest(), for a callback that sets code and says in last        *)
(* whether the connection is to be closed; the response carries a          *)
(* Content-Length only when it is not.                                     *)
ProcessRequest(code, last) ==
    /\ pc = "respond" /\ correct /\ state = "ALLOK"
    /\ responses' = Send(Answer(code, request.headers, last))
    /\ conn' = IF last THEN "DISCONNECTING" ELSE conn
    /\ ResetContext
    /\ pc' = "poll"
    /\ UNCHANGED <<client, sent, net, buffer, skip, correct, assertFailed>>

Parse ==
    \/ NoLine \/ ParseRequestLine \/ AddHeader \/ EndOfHeaders \/ ParseBody
    \/ ParseUnmeasuredBody

(* Some callback that may set _closeConnection. *)
AnyCallback == \E last \in {AsksToClose, TRUE} : ProcessRequest(200, last)

LoopStep == OnMessage \/ Parse \/ BadRequest \/ NeedMore

ServerStep == LoopStep \/ AnyCallback

Next == ClientSends \/ OnMessageWithoutData \/ ServerStep

Spec == Init /\ [][Next]_vars

(* The loop thread is scheduled, and reads what arrived. *)
FairSpec == Spec /\ WF_vars(ServerStep)

-----------------------------------------------------------------------------
WellFormed(i) == script[i].line = "ok" /\ (script[i].method = "POST" => script[i].pairs > 0)

(* The k-th success answers the k-th request and nothing but its own lines *)
(* went into it, however the stream was cut into segments and whatever was *)
(* parsed before; setMethod() finds a cleared request, as it asserts, on   *)
(* every connection that was not refused.                                  *)
AnswersMatch ==
    /\ TypeOK
    /\ \A k \in 1..Len(responses) :
        responses[k].code # 400 => k <= sent /\ responses[k].of = {k} /\ WellFormed(k)
    /\ assertFailed => conn = "DISCONNECTING"

(* A client can tell where a response ends: after a 400, or an answer that *)
(* closes the connection and hence has no Content-Length, nothing is sent; *)
(* every other answer leaves the connection open.                          *)
LastAnswerIsLast ==
    /\ \A k \in 1..Len(responses) - 1 :
          /\ ~responses[k].last
          /\ ~Close(script[k].version, script[k].connection)
    /\ conn = "DISCONNECTING" <=> responses # <<>> /\ responses[Len(responses)].last

(* A well-formed request is only refused when it is a POST, whose body can *)
(* be cut off or run into the next request, or follows one, which eats its *)
(* first byte; and only a POST brings the process down.                    *)
OnlyBodiesFail ==
    /\ \A k \in 1..Len(responses) :
          responses[k].code = 400 /\ WellFormed(k) =>
              script[k].method = "POST" \/ (k > 1 /\ script[k - 1].method = "POST")
    /\ pc = "dead" =>
          \E k \in 1..sent : script[k].method = "POST" /\ (script[k].measured => skip)

(* A client that waits for each answer before it sends its next request is *)
(* answered, however its requests are cut, unless the connection is being  *)
(* closed or a POST brought the process down.                              *)
RequestsAnswered ==
    \A k \in UNION {1..Len(s) : s \in Scripts} :
        sent >= k /\ ~pipelines
            ~> Len(responses) >= k \/ conn = "DISCONNECTING" \/ pc = "dead"
=============================================================================
