---------------------------- MODULE HeroService ----------------------------
(***************************************************************************)
(* HeroService.fetchHeroes: a data task per call, whose completion handler *)
(* runs on URLSession's background queue and posts exactly one block, the  *)
(* success or the error handler, on the main queue.                        *)
(*                                                                         *)
(* The URL is built from constants and is valid, so the invalidEndpoint    *)
(* path is not taken.  What the server publishes and when a task completes *)
(* are the environment's choices.                                          *)
(***************************************************************************)
EXTENDS Naturals, Sequences

CONSTANTS
    MaxRequests,  \* bound: how many data tasks are ever started
    Catalogues    \* what the server publishes, one response after the other

ASSUME ServiceAssumption ==
    /\ MaxRequests \in Nat
    /\ Catalogues # << >>
    /\ Catalogues \in Seq({Catalogues[v] : v \in DOMAIN Catalogues})

Requests == 1 .. MaxRequests
Versions == DOMAIN Catalogues
LateErrors == {"invalidResponse", "noData", "serializationError"}
HeroErrors == {"apiError"} \cup LateErrors
Outcomes == {"success"} \cup HeroErrors
Stages == {"unsent", "sent", "read", "answered", "delivered", "failed", "lost"}
Block == [request : Requests, outcome : Outcomes]

VARIABLES
    published,  \* the version the server serves now
    request,    \* stage of every data task
    version,    \* version the server answered a data task with
    mainQueue,  \* blocks waiting for the main thread, oldest first
    posted      \* history: every block posted since the process started

serviceVars == << published, request, version, mainQueue, posted >>

ServiceInit ==
    /\ published = 1
    /\ request = [r \in Requests |-> "unsent"]
    /\ version = [r \in Requests |-> 1]
    /\ mainQueue = << >>
    /\ posted = << >>

(* Server: a new list of heroes replaces the old one.                      *)
Publish ==
    /\ published + 1 \in Versions
    /\ published' = published + 1
    /\ UNCHANGED << request, version, mainQueue, posted >>

(* Server: the response to a data task is fixed when the server reads it.  *)
ServerReads(r) ==
    /\ request[r] = "sent"
    /\ request' = [request EXCEPT ![r] = "read"]
    /\ version' = [version EXCEPT ![r] = published]
    /\ UNCHANGED << published, mainQueue, posted >>

(* fetchHeroes: resume a new data task.                                    *)
Send(r) ==
    /\ request[r] = "unsent"
    /\ \A q \in Requests : q < r => request[q] # "unsent"
    /\ request' = [request EXCEPT ![r] = "sent"]
    /\ UNCHANGED << published, version, mainQueue, posted >>

Post(r, outcome) ==
    LET block == [request |-> r, outcome |-> outcome]
    IN  /\ mainQueue' = Append(mainQueue, block)
        /\ posted' = Append(posted, block)
        /\ request' = [request EXCEPT ![r] = "answered"]
        /\ UNCHANGED << published, version >>

(* ApiErrorAsEndpoint and ApiErrorWithoutReturn are ApiError with a        *)
(* plausible bug; no specification uses them.  They show that the          *)
(* properties below can fail.                                              *)
ApiErrorAsEndpoint(r) ==
    /\ request[r] \in {"sent", "read"}
    /\ Post(r, "invalidEndpoint")

ApiErrorWithoutReturn(r) ==
    /\ request[r] \in {"sent", "read"}
    /\ LET blocks == << [request |-> r, outcome |-> "apiError"], [request |-> r, outcome |-> "invalidResponse"] >>
       IN  mainQueue' = mainQueue \o blocks /\ posted' = posted \o blocks
    /\ request' = [request EXCEPT ![r] = "answered"]
    /\ UNCHANGED << published, version >>

(* Completion handler, error # nil: no connection, or a timeout, before or *)
(* after the server has read the request.                                  *)
ApiError(r) ==
    /\ request[r] \in {"sent", "read"}
    /\ Post(r, "apiError")

(* Completion handler: status out of 200..<300, no data, undecodable data. *)
BadResponse(r) ==
    /\ request[r] = "read"
    /\ \E e \in LateErrors : Post(r, e)

(* Completion handler: the response decodes.                               *)
Decoded(r) ==
    /\ request[r] = "read"
    /\ Post(r, "success")

TaskCompletes(r) == ApiError(r) \/ BadResponse(r) \/ Decoded(r)

(* The main thread takes the oldest block; what the handler it carries     *)
(* does is the client's part of the step.                                  *)
TakeBlock ==
    /\ mainQueue # << >>
    /\ mainQueue' = Tail(mainQueue)
    /\ LET block == Head(mainQueue)
       IN  request' = [request EXCEPT ![block.request] =
                          IF block.outcome = "success" THEN "delivered" ELSE "failed"]
    /\ UNCHANGED << published, version, posted >>

(* The process dies: its tasks and its queue go with it.                   *)
ServiceKilled ==
    /\ request' = [r \in Requests |->
                     IF request[r] \in {"sent", "read", "answered"} THEN "lost" ELSE request[r]]
    /\ mainQueue' = << >>
    /\ posted' = << >>
    /\ UNCHANGED << published, version >>

ServiceNext ==
    \/ Publish
    \/ TakeBlock
    \/ ServiceKilled
    \/ \E r \in Requests : Send(r) \/ ServerReads(r) \/ TaskCompletes(r)

ServiceSafety == ServiceInit /\ [][ServiceNext]_serviceVars
----------------------------------------------------------------------------
ServiceTypeOK ==
    /\ published \in Versions
    /\ request \in [Requests -> Stages]
    /\ version \in [Requests -> Versions]
    /\ mainQueue \in Seq(Block)
    /\ posted \in Seq(Block)

(* Every fetch calls back at most once, whatever way its completion        *)
(* handler leaves: a task with a block in the queue is answered, an        *)
(* answered one has its block there, and no task has two.                  *)
OneCallbackPerFetch ==
    /\ \A i \in DOMAIN mainQueue : request[mainQueue[i].request] = "answered"
    /\ \A i, j \in DOMAIN mainQueue : mainQueue[i].request = mainQueue[j].request => i = j
    /\ \A r \in Requests : request[r] = "answered" => \E i \in DOMAIN mainQueue : mainQueue[i].request = r

(* No fetch is left hanging: a task that was started reaches its handler,  *)
(* unless the process is killed first.                                     *)
EveryFetchReturns ==
    \A r \in Requests : request[r] = "sent" ~> request[r] \in {"delivered", "failed", "lost"}
============================================================================
