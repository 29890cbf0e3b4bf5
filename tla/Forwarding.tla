------------------------------ MODULE Forwarding ------------------------------
(***************************************************************************)
(* How a client's request travels from node to node and its reply back.    *)
(* Whoever receives a request makes a channel for the reply and a waiter   *)
(* that hands the reply on: to the client, or to the node that forwarded   *)
(* the request.  A node that forwards remembers the request by the text of *)
(* its command, and gives a reply to the last request with that text.      *)
(*                                                                         *)
(* path[r] lists the nodes that request r has come to, and the channel it  *)
(* was given at the k-th of them is <<r, k>>.                              *)
(***************************************************************************)
EXTENDS Naturals, Sequences, FiniteSets

CONSTANTS
  Server,    \* the nodes
  Req,       \* the requests
  Text,      \* Text[r]: Command.String, with the IDs of client and command
  MaxPath    \* bound: how many nodes a request comes to

ASSUME ForwardingAssumption == IsFiniteSet(Req) /\ MaxPath \in Nat \ {0}

VARIABLES
  path,      \* see above
  place,     \* where request r is: "client", "held", "flying", "answered"
  forwards,  \* forwards[n][t]: the channel of the last request with text t, or none
  buffer,    \* buffer[c]: the reply in channel c, for there is room for one
  waiting,   \* the channels whose waiter still waits
  replies,   \* replies between nodes: [to, of, by], of the request, by the channel it was in
  answer     \* answer[r]: the requests whose reply the client of r has got

forwardVars == <<path, place, forwards, buffer, waiting, replies, answer>>

Channel == Req \X (1 .. MaxPath)
NoChannel == <<>>

At(r) == path[r][Len(path[r])]
Mine(r) == <<r, Len(path[r])>>

\* The HTTP handler makes the channel and waits for the reply itself.
SubmitTo(n, r) ==
  /\ place[r] = "client"
  /\ place' = [place EXCEPT ![r] = "held"]
  /\ path' = [path EXCEPT ![r] = <<n>>]
  /\ waiting' = waiting \cup {<<r, 1>>}
  /\ UNCHANGED <<forwards, buffer, replies, answer>>

\* External: the protocol hands the request to the node it takes for the leader.
Forward(n, r) ==
  /\ place[r] = "held" /\ Len(path[r]) < MaxPath
  /\ n # At(r)
  /\ forwards' = [forwards EXCEPT ![At(r)][Text[r]] = Mine(r)]
  /\ path' = [path EXCEPT ![r] = Append(@, n)]
  /\ place' = [place EXCEPT ![r] = "flying"]
  /\ UNCHANGED <<buffer, waiting, replies, answer>>

\* Mutant: nobody waits for the reply to a request that came from a node.
ReceiveWithoutWaiter(n, r) ==
  /\ place[r] = "flying" /\ n = At(r)
  /\ place' = [place EXCEPT ![r] = "held"]
  /\ UNCHANGED <<path, forwards, buffer, waiting, replies, answer>>

ReceiveRequest(n, r) ==
  /\ place[r] = "flying" /\ n = At(r)
  /\ place' = [place EXCEPT ![r] = "held"]
  /\ waiting' = waiting \cup {Mine(r)}
  /\ UNCHANGED <<path, forwards, buffer, replies, answer>>

\* External: the protocol has executed the command.
AnswerAt(n, r) ==
  /\ place[r] = "held" /\ n = At(r)
  /\ buffer[Mine(r)] = {}
  /\ buffer' = [buffer EXCEPT ![Mine(r)] = {r}]
  /\ place' = [place EXCEPT ![r] = "answered"]
  /\ UNCHANGED <<path, forwards, waiting, replies, answer>>

\* A waiter takes the reply out of its channel, once.
HandOn(r, k) ==
  LET c == <<r, k>>
  IN  /\ c \in waiting /\ buffer[c] # {}
      /\ waiting' = waiting \ {c}
      /\ buffer' = [buffer EXCEPT ![c] = {}]
      /\ \/ k = 1 /\ answer' = [answer EXCEPT ![r] = buffer[c]] /\ UNCHANGED replies
         \/ /\ k > 1
            /\ replies' = replies \cup {[to |-> path[r][k - 1], of |-> q, by |-> c] : q \in buffer[c]}
            /\ UNCHANGED answer
      /\ UNCHANGED <<path, place, forwards>>

\* A channel that holds a reply already blocks the loop that receives.
ReceiveReply(n, m) ==
  LET c == forwards[n][Text[m.of]]
  IN  /\ m.to = n /\ buffer[c] = {}
      /\ buffer' = [buffer EXCEPT ![c] = {m.of}]
      /\ replies' = replies \ {m}
      /\ UNCHANGED <<path, place, forwards, waiting, answer>>

ForwardInit ==
  /\ path = [r \in Req |-> <<>>]
  /\ place = [r \in Req |-> "client"]
  /\ forwards = [n \in Server |-> [t \in {Text[r] : r \in Req} |-> NoChannel]]
  /\ buffer = [c \in Channel |-> {}]
  /\ waiting = {} /\ replies = {}
  /\ answer = [r \in Req |-> {}]

ForwardNext ==
  \/ \E n \in Server, r \in Req :
       SubmitTo(n, r) \/ Forward(n, r) \/ ReceiveRequest(n, r) \/ AnswerAt(n, r)
  \/ \E r \in Req, k \in 1 .. MaxPath : HandOn(r, k)
  \/ \E n \in Server, m \in replies : ReceiveReply(n, m)
-----------------------------------------------------------------------------
\* Some node has forwarded two requests with the text of r, or r twice.
Overwritten(r) ==
  \E n \in Server :
    Cardinality({c \in Channel : /\ Text[c[1]] = Text[r]
                                 /\ c[2] < Len(path[c[1]])
                                 /\ path[c[1]][c[2]] = n}) > 1

\* When nothing is under way any more, every client has got the reply to its
\* own request, over however many nodes it went, the client's own again among
\* them ("TODO does this work when forward twice", http.go:97): unless
\* forwards had to hold two entries for one text.
AnswersComeHome ==
  (replies = {} /\ \A r \in Req : place[r] \in {"client", "answered"}
                /\ \A c \in waiting : buffer[c] = {}) =>
    \A r \in Req : place[r] = "answered" => Overwritten(r) \/ answer[r] = {r}
=============================================================================
