------------------------------ MODULE MCWebApp ------------------------------
(* The server under any callback with clients that send up to three        *)
(* requests, and under the web application with clients that send one, or  *)
(* one after /time.                                                        *)
EXTENDS WebApp

At(path) == [path |-> path, username |-> "", password |-> ""]
Form(path, username, password) ==
    [path |-> path, username |-> username, password |-> password]

Plain == {At(path) : path \in {"/home.html", "/none.html", "/time",
                               "/booklist", "/unknown", "/signup"}}
Forms == {Form(path, "ann", password) : path \in {"/signup", "/signin"},
                                        password \in {"one", "two"}}
AllTargets == {At("/")} \cup Plain \cup Forms

Get == [method |-> "GET", version |-> "HTTP11", line |-> "ok",
        connection |-> "keep-alive", pairs |-> 0, measured |-> FALSE,
        target |-> At("/")]
OldGet == [Get EXCEPT !.version = "HTTP10"]
OldLastGet == [OldGet EXCEPT !.connection = "other"]
LastGet == [Get EXCEPT !.connection = "closed"]
Post == [Get EXCEPT !.method = "POST", !.pairs = 2, !.measured = TRUE]
EmptyPost == [Post EXCEPT !.pairs = 0]
UnmeasuredPost == [Post EXCEPT !.measured = FALSE]
BadMethod == [Get EXCEPT !.line = "badMethod"]
BadVersion == [Get EXCEPT !.line = "badVersion"]

Kinds == {Get, OldGet, OldLastGet, LastGet, Post, EmptyPost, UnmeasuredPost,
          BadMethod, BadVersion}

AnyScripts == {<<a, b, c>> : a \in Kinds, b \in Kinds, c \in {Get, Post}}

Gets == {[Get EXCEPT !.target = t] : t \in Plain}
Posts == {[Post EXCEPT !.target = t] : t \in Forms}
SomeWebScripts == {<<a>> : a \in Gets \cup Posts}
                  \cup {<<[Get EXCEPT !.target = At("/time")], b>> : b \in Posts}

AllScripts == AnyScripts \cup SomeWebScripts
=============================================================================
