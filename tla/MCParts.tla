------------------------------ MODULE MCParts ------------------------------
(* The parts of the system that work by themselves, for TLC: a behaviour is  *)
(* one of any of them.  OutBuffer and Epoll bring the fairness of their own  *)
(* specifications.  Epoll is there twice: three threads on two ports with no *)
(* sockets, and two threads on one port.                                     *)
EXTENDS OutBuffer, MCHybi, SocketTree, Digests, StaticRanges, Routing, Responses,
        JsonText, Listening, RequestHead, Epoll

VARIABLE part            \* which part

(* What the calls of the program are limited to: what they are for, or who   *)
(* calls and on which port.                                                  *)
CONSTANTS ThirdThread, SecondPort

SmallCast ==
    \/ part = "ports" /\ closed = {} /\ \A s \in Sockets :
          ready[s] = {} /\ \A p \in Ports : port[p].tree[s] = Nothing
    \/ part = "port" /\ pc[ThirdThread] = "idle" /\ SecondPort \notin allocated

MCInterests == {{"IN"}}

-----------------------------------------------------------------------------
(* What clients and applications send.                                       *)
AskedRange(form, a, b) == [form |-> form, a |-> a, b |-> b]
MCRanges == {AskedRange("a-b", 0, 0), AskedRange("a-b", 1, 2), AskedRange("a-b", 2, 4),
             AskedRange("a-", 1, 0), AskedRange("-a", 2, 0), AskedRange("-a", 0, 0),
             AskedRange("-a", 9, 0), AskedRange("no minus", 0, 0), AskedRange("no number", 0, 0)}
MCRangeHeaders == UNION {[1..n -> MCRanges] : n \in 0..2}

(* "a" and "b", and texts of separators, escapes and digits.                 *)
MCPathNames == {<<97>>}
MCSegments == {<<>>, <<97>>, <<98>>}
MCTexts == MCSegments \cup {<<47, 37>>, <<43, 32>>, <<37, 50, 53>>, <<61, 38, 63>>}
MCPages == {[page |-> "p1", answers |-> {<<<<97>>>>, <<<<>>>>}],
            [page |-> "p2", answers |-> {<<<<97>>>>, <<<<97>>, <<98>>>>, <<>>}]}
MCMalformed == {<<>>, <<97>>, <<47, 37>>, <<47, 37, 50>>, <<47, 37, 50, 113>>,
                <<47, 63, 97, 61, 61, 98>>}

MCStrings == {<<>>, <<97, 34, 92, 9, 8, 10, 12, 13, 200>>, <<31, 117>>}
MCKeys == {<<34>>}
MCShown == {<<97, 32>>, <<34, 97>>}

(* Requests and what they mean to those who send them.                       *)
Asks(verb, uri, version, headers, bytes, means) ==
    [verb |-> verb, uri |-> uri, version |-> version, headers |-> headers, body |-> bytes, means |-> means]
Plain(verb, headers, bytes, means) == Asks(verb, "/page", "HTTP/1.1", headers, bytes, means)
Field(key, value) == <<key, ":", "SP">> \o value
WebSocket(how) == <<Field("Connection", how), Field("UPGRADE", <<"WebSocket">>)>>
MCAsked ==
    {Plain("GET", <<>>, 0, "page"), Plain("HEAD", <<Field("Content-Length", <<"0">>)>>, 0, "page"),
     Plain("POST", <<Field("content-length", <<"2">>)>>, 2, "page"),
     Plain("PUT", <<Field("Host", <<"h", ":", "9">>), Field("CONTENT-LENGTH", <<"TAB", "2x">>)>>, 2, "page"),
     Plain("POST", <<Field("Content-Length", <<"2">>), Field("content-length", <<"9">>)>>, 2, "page"),
     Plain("DELETE", <<Field("Content-Length", <<"-1">>)>>, 0, "page"),
     Plain("GET", <<Field("Connection", <<"Upgrade">>)>>, 0, "page"),
     Plain("GET", WebSocket(<<"keep-alive", ",", "SP", "Upgrade">>), 0, "upgrade"),
     Plain("GET", WebSocket(<<"Upgrade">>) \o <<Field("Content-Length", <<"2">>)>>, 2, "upgrade"),
     Plain("PUT", WebSocket(<<"Upgrade">>), 0, "error"),
     Plain("OPTIONS", <<<<"Host", "SP", "h">>>>, 0, "error"),
     Plain("GOT", <<>>, 0, "error"), Asks("GET", "SP", "HTTP/1.1", <<>>, 0, "error"),
     Asks("GET", "/page", "HTTP/1.0", <<>>, 0, "error"),
     Plain("POST", <<Field("Content-Length", <<"9">>)>>, 0, "error"),
     Plain("POST", <<Field("Content-Length", <<"99999999999">>)>>, 2, "odd"),
     Asks("GET", "/favicon.ico", "HTTP/1.1", <<Field("Content-Length", <<"2">>)>>, 2, "odd"),
     Plain("GET", <<Field("Cookie", [i \in 1..25 |-> "c"])>>, 0, "page")}
MCClients == {<<first, second>> : first \in MCAsked, second \in
                {Plain("GET", <<>>, 0, "page"), Plain("POST", <<Field("content-length", <<"2">>)>>, 2, "page")}}

-----------------------------------------------------------------------------
PartsInit ==
    /\ part \in {"out", "hybi", "tree", "digest", "ranges", "uri", "routing", "response", "json",
                 "listen", "head", "ports", "port"}
    /\ OutInit /\ HybiInit /\ TreeInit /\ DigestInit /\ RangesInit /\ UriInit /\ RoutingInit
    /\ ResponsesInit /\ JsonInit /\ ListeningInit /\ RequestHeadInit /\ Init

PartsNext ==
    \/ /\ part = "out" /\ OutNext
       /\ UNCHANGED <<part, hyvars, tvars, dgvars, rgvars,
                      urivars, pageHandlers, rsvars, jsvars, lsvars, rqvars, vars>>
    \/ /\ part = "hybi" /\ HybiNext
       /\ UNCHANGED <<part, outvars, tvars, dgvars, rgvars,
                      urivars, pageHandlers, rsvars, jsvars, lsvars, rqvars, vars>>
    \/ /\ part = "tree" /\ TreeNext
       /\ UNCHANGED <<part, outvars, hyvars, dgvars, rgvars,
                      urivars, pageHandlers, rsvars, jsvars, lsvars, rqvars, vars>>
    \/ /\ part = "digest" /\ DigestNext
       /\ UNCHANGED <<part, outvars, hyvars, tvars, rgvars,
                      urivars, pageHandlers, rsvars, jsvars, lsvars, rqvars, vars>>
    \/ /\ part = "ranges" /\ RangesNext
       /\ UNCHANGED <<part, outvars, hyvars, tvars, dgvars, urivars,
                      pageHandlers, rsvars, jsvars, lsvars, rqvars, vars>>
    \/ /\ part = "uri" /\ UriNext
       /\ UNCHANGED <<part, outvars, hyvars, tvars, dgvars, rgvars,
                      pageHandlers, rsvars, jsvars, lsvars, rqvars, vars>>
    \/ /\ part = "routing" /\ RoutingNext
       /\ UNCHANGED <<part, outvars, hyvars, tvars, dgvars, rgvars,
                      urivars, rsvars, jsvars, lsvars, rqvars, vars>>
    \/ /\ part = "response" /\ ResponsesNext
       /\ UNCHANGED <<part, outvars, hyvars, tvars, dgvars, rgvars,
                      urivars, pageHandlers, jsvars, lsvars, rqvars, vars>>
    \/ /\ part = "json" /\ JsonNext
       /\ UNCHANGED <<part, outvars, hyvars, tvars, dgvars, rgvars,
                      urivars, pageHandlers, rsvars, lsvars, rqvars, vars>>
    \/ /\ part = "listen" /\ ListeningNext
       /\ UNCHANGED <<part, outvars, hyvars, tvars, dgvars, rgvars,
                      urivars, pageHandlers, rsvars, jsvars, rqvars, vars>>
    \/ /\ part = "head" /\ RequestHeadNext
       /\ UNCHANGED <<part, outvars, hyvars, tvars, dgvars, rgvars,
                      urivars, pageHandlers, rsvars, jsvars, lsvars, vars>>
    \/ /\ part \in {"ports", "port"} /\ Next
       /\ UNCHANGED <<part, outvars, hyvars, tvars, dgvars, rgvars,
                      urivars, pageHandlers, rsvars, jsvars, lsvars, rqvars>>
       /\ SmallCast'

partsvars == <<part, outvars, hyvars, tvars, dgvars, rgvars, urivars, pageHandlers, rsvars, jsvars, lsvars, rqvars, vars>>

(* In the initial state of a part none of its fair actions is enabled, so    *)
(* that the parts which do not run owe nothing.                              *)
PartsSpec ==
    /\ PartsInit /\ [][PartsNext]_partsvars
    /\ WF_outvars(DataReadyForWrite) /\ WF_outvars(Destroy) /\ WF_outvars(PeerReads)
    /\ Fairness
=============================================================================
