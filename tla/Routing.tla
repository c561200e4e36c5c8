------------------------------ MODULE Routing ------------------------------
(* From a request's URI to the page that answers: PathHandler,               *)
(* RootPageHandler and the lists of handlers of Server.                      *)
(* A page is [page, answers]: its name, and the paths it answers.  A         *)
(* PathHandler is [path, handlers], a RootPageHandler [root].  The handlers  *)
(* of a PathHandler are pages.                                               *)
(* Names ..._<what is wrong> are slips that the checks must notice; no action *)
(* uses them.                                                                *)
EXTENDS CrackedUri

CONSTANTS
    Pages,          \* pages of the application
    PathNames,      \* names of its PathHandlers
    MaxHandlers,    \* bound: handlers in one list
    Segments        \* segments of the paths that are asked for

VARIABLES
    pageHandlers    \* Server::_pageHandlers, and all that is below them

-----------------------------------------------------------------------------
(* The handlers                                                              *)
Unhandled == "unhandled"

ASSUME PagesAssumption ==
    /\ \A p \in Pages : p = [page |-> p.page, answers |-> p.answers] /\ p.page # Unhandled
    /\ Segments \subseteq Seq(Chars) /\ MaxHandlers \in Nat

FirstAnswer_last(answers) ==
    LET at == SelectLastInSeq(answers, LAMBDA a : a # Unhandled)
    IN  IF at = 0 THEN Unhandled ELSE answers[at]

(* The loops of Server::handle(), RootPageHandler and PathHandler.           *)
FirstAnswer(answers) ==
    LET at == SelectInSeq(answers, LAMBDA a : a # Unhandled)
    IN  IF at = 0 THEN Unhandled ELSE answers[at]

PageAnswer(h, path) == IF path \in h.answers THEN h.page ELSE Unhandled
HandlePath(h, path) ==
    IF "page" \in DOMAIN h THEN PageAnswer(h, path)
    ELSE IF path = <<>> \/ Head(path) # h.path THEN Unhandled
    ELSE FirstAnswer([k \in 1..Len(h.handlers) |-> PageAnswer(h.handlers[k], Shift(path))])

(* RootPageHandler::handle() throws when the URI is malformed.               *)
HandleRequest(h, uri) ==
    IF ~Crack(uri).ok THEN "exception"
    ELSE FirstAnswer([k \in 1..Len(h.root) |-> HandlePath(h.root[k], Crack(uri).path)])

Handle(uri) ==
    FirstAnswer([k \in 1..Len(pageHandlers) |-> HandleRequest(pageHandlers[k], uri)])

RoutingInit == pageHandlers = <<>>

NewPath(name) == [path |-> name, handlers |-> <<>>]
NewHandlers == Pages \cup {NewPath(name) : name \in PathNames}

AddPageHandler ==
    /\ Len(pageHandlers) < MaxHandlers
    /\ pageHandlers' = Append(pageHandlers, [root |-> <<>>])

(* RootPageHandler::add()                                                    *)
AddToRoot(k, h) ==
    /\ Len(pageHandlers[k].root) < MaxHandlers
    /\ pageHandlers' = [pageHandlers EXCEPT ![k].root = Append(@, h)]

(* PathHandler::add()                                                        *)
AddToPath(k, j, h) ==
    /\ "path" \in DOMAIN pageHandlers[k].root[j]
    /\ Len(pageHandlers[k].root[j].handlers) < MaxHandlers
    /\ pageHandlers' = [pageHandlers EXCEPT ![k].root[j].handlers = Append(@, h)]

RoutingNext ==
    \/ AddPageHandler
    \/ \E k \in 1..Len(pageHandlers), h \in NewHandlers : AddToRoot(k, h)
    \/ \E k \in 1..Len(pageHandlers) : \E j \in 1..Len(pageHandlers[k].root), h \in Pages :
          AddToPath(k, j, h)

(* Requests come while handlers are added.                                   *)
ServerNext == (UriNext /\ UNCHANGED pageHandlers) \/ (RoutingNext /\ UNCHANGED urivars)

RoutingSpec == UriInit /\ RoutingInit /\ [][ServerNext]_<<urivars, pageHandlers>>

-----------------------------------------------------------------------------
(* A page that the URI path leads to: the root handler it is in, the place   *)
(* there, and the place in a PathHandler or 0.                               *)
Leads(path) ==
    {x \in (1..MaxHandlers) \X (1..MaxHandlers) \X (0..MaxHandlers) :
        /\ x[1] <= Len(pageHandlers) /\ x[2] <= Len(pageHandlers[x[1]].root)
        /\ LET h == pageHandlers[x[1]].root[x[2]]
           IN  IF "page" \in DOMAIN h THEN x[3] = 0 /\ path \in h.answers
               ELSE /\ x[3] \in 1..Len(h.handlers) /\ path # <<>> /\ path[1] = h.path
                    /\ (IF Len(path) = 1 THEN <<<<>>>> ELSE Tail(path)) \in h.handlers[x[3]].answers}

Before(x, y) ==
    \/ x[1] < y[1]
    \/ x[1] = y[1] /\ (x[2] < y[2] \/ (x[2] = y[2] /\ x[3] <= y[3]))

(* However handlers are nested and added while the server runs, a request    *)
(* goes to the page that comes first among those its path leads to, and is   *)
(* unhandled only when there is none.                                        *)
FirstPageAnswers ==
    pageHandlers # <<>> => \A path \in Paths(Segments) :
        LET uri == JoinUri(path, <<>>, <<>>)
            leads == Leads(path)
            first == CHOOSE x \in leads : \A y \in leads : Before(x, y)
            h == pageHandlers[first[1]].root[first[2]]
        IN  Handle(uri) = IF leads = {} THEN Unhandled
                          ELSE IF first[3] = 0 THEN h.page ELSE h.handlers[first[3]].page

(* A request that a client escapes and sends reaches the page it asks for:   *)
(* CrackedUri reads the path back, and the nested handlers follow it.        *)
PagesAreFound == UriReadsBack /\ FirstPageAnswers
=============================================================================
