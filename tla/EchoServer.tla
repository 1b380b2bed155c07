----------------------------- MODULE EchoServer -----------------------------
(***************************************************************************)
(* httptest.h, the loopback server of the httplib run: Python starts a     *)
(* httplib::Server on a thread of its own, sends requests to it through a  *)
(* bound client and stops it. httplib is external: bind_to_any_port makes  *)
(* a socket that listens, so that a request waits in its backlog until the *)
(* accept loop takes it; stop closes the socket of a RUNNING server only;  *)
(* listening ends when the socket is closed and the requests are done. The *)
(* system has a port to give: start does not look whether bind failed.     *)
(***************************************************************************)
EXTENDS Integers, Sequences

CONSTANTS
  Requests,   \* what the client may send
  MaxStarts   \* bound: times the server is started

NoReply == [status |-> 0, body |-> <<>>, type |-> "", headers |-> {}]
Refused == [NoReply EXCEPT !.status = -1]  \* Error::Connection

VARIABLES
  call,     \* the call Python is in, and how far: "none" between calls
  socket,   \* whether svr_ has a socket that listens
  running,  \* its is_running_
  thread,   \* thread_: "none", "born", "accepting" or "ended"
  asked,    \* the request that was sent last, or <<>>
  taken,    \* whether the accept loop has taken it
  reply,    \* what came back
  starts    \* how often the server was started

echoVars == <<call, socket, running, thread, asked, taken, reply, starts>>

EchoInit ==
  /\ call = "none" /\ socket = FALSE /\ running = FALSE /\ thread = "none"
  /\ asked = <<>> /\ taken = FALSE /\ reply = NoReply /\ starts = 0

-----------------------------------------------------------------------------
(* The handlers that the constructor registers. A request is a method, a   *)
(* path, the body, its Content-Type ("" for none), the query parameter q   *)
(* and the header X-Probe. A body is a sequence of words.                  *)
Text(words) == [status |-> 200, body |-> words, type |-> "text/plain", headers |-> {}]

GetEcho(req) ==
  [Text(<<req.method, req.path>>) EXCEPT
     !.headers = {<<"X-Echo-Method", req.method>>, <<"X-Echo-Path", req.path>>,
                  <<"X-Echo-Probe", req.probe>>}]

GetParam(req) == Text(<<req.q>>)

PostEcho(req) ==
  [ status |-> 201, body |-> req.body,
    type |-> IF req.type = "" THEN "application/octet-stream" ELSE req.type,
    headers |-> {<<"X-Echo-Method", req.method>>, <<"X-Body-Len", Len(req.body)>>} ]

PutEcho(req) == Text(<<"PUT:">> \o req.body)

DeleteEcho(req) == [NoReply EXCEPT !.status = 204]

GetTeapot(req) == [Text(<<"teapot">>) EXCEPT !.status = 418]

Routed(req) ==
  LET route == <<req.method, req.path>>
  IN  CASE route = <<"GET", "/echo">>    -> GetEcho(req)
        [] route = <<"GET", "/param">>   -> GetParam(req)
        [] route = <<"POST", "/echo">>   -> PostEcho(req)
        [] route = <<"PUT", "/echo">>    -> PutEcho(req)
        [] route = <<"DELETE", "/echo">> -> DeleteEcho(req)
        [] route = <<"GET", "/teapot">>  -> GetTeapot(req)
        [] OTHER -> [NoReply EXCEPT !.status = 404]

-----------------------------------------------------------------------------
\* start, on a server that is not started: bind, the thread, the wait.
Bind ==
  /\ call = "none" /\ thread = "none" /\ starts < MaxStarts
  /\ socket' = TRUE /\ call' = "spawn" /\ starts' = starts + 1
  /\ UNCHANGED <<running, thread, asked, taken, reply>>

\* Fault: start does not wait until the server is ready.
SpawnAndReturn ==
  /\ call = "spawn"
  /\ thread' = "born" /\ call' = "none"
  /\ UNCHANGED <<socket, running, asked, taken, reply, starts>>

Spawn ==
  /\ call = "spawn"
  /\ thread' = "born" /\ call' = "wait"
  /\ UNCHANGED <<socket, running, asked, taken, reply, starts>>

Ready ==
  /\ call = "wait" /\ running
  /\ call' = "none"
  /\ UNCHANGED <<socket, running, thread, asked, taken, reply, starts>>

\* stop, and the destructor: the library's stop, then the join.
StopServer ==
  /\ call = "none" /\ thread # "none"
  /\ socket' = (socket /\ ~running)
  /\ call' = "join"
  /\ UNCHANGED <<running, thread, asked, taken, reply, starts>>

Join ==
  /\ call = "join" /\ thread = "ended"
  /\ thread' = "none" /\ call' = "none"
  /\ UNCHANGED <<socket, running, asked, taken, reply, starts>>

\* A request of the bound client, which blocks until it is answered.
Send(req) ==
  /\ call = "none"
  /\ asked' = <<req>> /\ taken' = FALSE
  /\ IF socket THEN call' = "answer" /\ reply' = NoReply
               ELSE call' = call /\ reply' = Refused
  /\ UNCHANGED <<socket, running, thread, starts>>

Receive ==
  /\ call = "answer" /\ reply # NoReply
  /\ call' = "none"
  /\ UNCHANGED <<socket, running, thread, asked, taken, reply, starts>>

-----------------------------------------------------------------------------
\* listen_after_bind, on the thread: a socket that is closed already ends it.
Listen ==
  /\ thread = "born"
  /\ thread' = "accepting" /\ running' = TRUE
  /\ UNCHANGED <<call, socket, asked, taken, reply, starts>>

Accept ==
  /\ thread = "accepting" /\ socket
  /\ call = "answer" /\ ~taken /\ reply = NoReply
  /\ taken' = TRUE
  /\ UNCHANGED <<call, socket, running, thread, asked, reply, starts>>

\* A thread of the server's pool runs the handler.
Handle ==
  /\ taken /\ reply = NoReply
  /\ reply' = Routed(asked[1]) /\ taken' = FALSE
  /\ UNCHANGED <<call, socket, running, thread, asked, starts>>

ListenEnds ==
  /\ thread = "accepting" /\ ~socket /\ ~taken
  /\ thread' = "ended" /\ running' = FALSE
  /\ UNCHANGED <<call, socket, asked, taken, reply, starts>>

Returning == Spawn \/ Ready \/ Join \/ Receive
Serving   == Listen \/ Accept \/ Handle \/ ListenEnds

EchoNext ==
  \/ Bind \/ StopServer
  \/ \E req \in Requests : Send(req)
  \/ Returning
  \/ Serving

EchoSpec == EchoInit /\ [][EchoNext]_echoVars /\ WF_echoVars(Returning) /\ WF_echoVars(Serving)

-----------------------------------------------------------------------------
Started == thread # "none"

(* A request is refused exactly when the server is stopped: one that is    *)
(* started has a socket, however far its thread is.                        *)
OnlyStoppedRefuses == [][\A req \in Requests : Send(req) => (reply' = Refused <=> ~Started)]_echoVars

(* An answer that was not refused is to the request that was sent: a 404   *)
(* for a path without a route, else what the route echoes of it.           *)
RepliesAreToTheRequest ==
  call = "none" /\ asked # <<>> =>
    \/ reply = Refused
    \/ LET req == asked[1]
       IN  /\ req.path = "/missing" => reply.status = 404
           /\ req.method = "POST" /\ reply.status # 404 => reply.body = req.body
           /\ \A h \in reply.headers : h[1] = "X-Echo-Method" => h[2] = req.method

(* Every call that Python makes of the server or of the client returns:    *)
(* start sees the thread running, stop never joins a thread that goes on   *)
(* accepting, whatever thread was slow, and a request that finds a started *)
(* server is not refused but answered. (start httptest.h:75-81, stop       *)
(* :84-87.)                                                                *)
EveryCallIsServed ==
  /\ [](/\ call # "none" => <>(call = "none")
        /\ call = "answer" => Started
        /\ RepliesAreToTheRequest)
  /\ OnlyStoppedRefuses
=============================================================================
