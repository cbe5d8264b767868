------------------------------- MODULE Gateway -------------------------------
(***************************************************************************)
(* One request in the gateway: RouteTable.lookup of src/gateway/router.py, *)
(* the failover and the broadcast of src/gateway/proxy.py and the handlers *)
(* of src/gateway/routes.py that use them.  The gateway keeps no state     *)
(* that one request leaves for another: _sse_sessions is read and trimmed  *)
(* but never written to.                                                   *)
(*                                                                         *)
(* A version is the sequence of its parts, without the leading "v" and in  *)
(* lower case, as both sides of the comparison clean it; "starts with the  *)
(* declared version and a dot" is then a strict prefix.                    *)
(*                                                                         *)
(* Nodes are external.  Whether a node can be reached is chosen anew each  *)
(* time, and one that was sent a request may work on it, be cut off by a   *)
(* timeout and go on working.                                              *)
(***************************************************************************)
EXTENDS Integers, SequencesExt

CONSTANTS
  Order,   \* the nodes in the order of routing.yaml
  Configs, \* the <<db_type, version>> pairs that each node may declare
  DbType,  \* types that nodes declare or requests ask for
  Part,    \* what a version is made of
  Version, \* versions that requests ask for
  NoNode,
  NoKey

Node == ToSet(Order)

ASSUME OrderAssumption ==
  Order \in Seq(Node) /\ Order # <<>> /\ IsInjective(Order) /\ NoNode \notin Node
ASSUME VersionAssumption == Version \subseteq Seq(Part)
ASSUME ConfigAssumption ==
  \A c \in Configs :
    /\ DOMAIN c = Node
    /\ \A n \in Node :
         c[n] \in Seq(DbType \X Seq(Part)) /\ c[n] # <<>> /\ IsInjective(c[n])

VARIABLES
  config,   \* _route_table: what the nodes declare
  kind,     \* which handler the request is for
  key,      \* the <<db_type, version>> it looks up
  phase,    \* where it is
  routes,   \* replicas that the loop of forward() has not tried
  ring,     \* nodes that the search of /messages has not tried
  knows,    \* nodes that do not answer 404 to the session of /messages
  at,       \* the node it was sent to
  failed,   \* nodes that forward() took for unreachable
  executed, \* how often each node executed it
  replies,  \* scatter: what came back from each node
  listed,   \* /api/databases: the merged list
  answer    \* what the client gets: a status and, if one answered, a node

vars == <<config, kind, key, phase, routes, ring, knows, at, failed, executed,
          replies, listed, answer>>

\* The handlers that look up db_type and version and forward.
Routed == {"execute_sql", "tools/call", "sse"}
Forwarded == Routed \cup {"versions", "default"}
Scattered == {"tools/list", "health", "databases", "shutdown"}
Kind == Forwarded \cup Scattered \cup {"messages", "initialize"}

(***************************************************************************)
(* RouteTable                                                              *)
(***************************************************************************)
\* The replicas of a declared key, in priority order: the constructor goes
\* through the nodes and appends each one that declares it.
Replicas(c, k) ==
  LET upTo[i \in 0..Len(Order)] ==
        IF i = 0 THEN <<>>
        ELSE IF k \in ToSet(c[Order[i]]) THEN Append(upTo[i - 1], Order[i])
        ELSE upTo[i - 1]
  IN  upTo[Len(Order)]

DeclaredKeys(c) == UNION {ToSet(c[n]) : n \in Node}

IsVersionPrefix(k, q) == k[1] = q[1] /\ IsStrictPrefix(k[2], q[2])

\* Where a node declares a type.
OfType(c, n, type) == {j \in DOMAIN c[n] : c[n][j][1] = type}

\* The first declared key of a type; the type must be declared.
FirstOf(c, type) ==
  LET n == Order[Min({i \in DOMAIN Order : OfType(c, Order[i], type) # {}})]
  IN  c[n][Min(OfType(c, n, type))]

\* Mutant: the shortest prefix wins.
Lookup_Shortest(c, q) ==
  LET prefixes == {k \in DeclaredKeys(c) : IsVersionPrefix(k, q)} IN
  CASE q \in DeclaredKeys(c) -> Replicas(c, q)
    [] q \notin DeclaredKeys(c) /\ prefixes # {} ->
         Replicas(c, CHOOSE k \in prefixes : \A l \in prefixes : Len(k[2]) <= Len(l[2]))
    [] OTHER ->
         IF \E k \in DeclaredKeys(c) : k[1] = q[1]
         THEN Replicas(c, FirstOf(c, q[1])) ELSE <<>>

\* Exact key, else the longest declared prefix, else any key of the type.
Lookup(c, q) ==
  LET prefixes == {k \in DeclaredKeys(c) : IsVersionPrefix(k, q)} IN
  CASE q \in DeclaredKeys(c) -> Replicas(c, q)
    [] q \notin DeclaredKeys(c) /\ prefixes # {} ->
         Replicas(c, CHOOSE k \in prefixes : \A l \in prefixes : Len(k[2]) >= Len(l[2]))
    [] OTHER ->
         IF \E k \in DeclaredKeys(c) : k[1] = q[1]
         THEN Replicas(c, FirstOf(c, q[1])) ELSE <<>>

(***************************************************************************)
(* Arrival                                                                 *)
(***************************************************************************)
Statuses == {"ok", "unauthorized", "no node", "unreachable", "not found",
             "complete", "partial", "tools", "no tools"}
NoAnswer == [status |-> "none", node |-> NoNode]
Answer(status, n) ==
  /\ answer' = [status |-> status, node |-> n]
  /\ phase' = "answered"

TypeOK ==
  /\ config \in Configs /\ kind \in Kind \cup {"none"}
  /\ key \in (DbType \X Version) \cup DeclaredKeys(config) \cup {NoKey}
  /\ phase \in {"new", "forward", "sent", "search", "scatter", "answered"}
  /\ ToSet(routes) \subseteq Node /\ ToSet(ring) \subseteq Node /\ knows \subseteq Node
  /\ at \in Node \cup {NoNode} /\ (phase = "sent" <=> at # NoNode)
  /\ failed \subseteq Node
  /\ executed \in [Node -> Nat]
  /\ replies \in [Node -> {"none", "ok", "error"}]
  /\ listed \subseteq DeclaredKeys(config)
  /\ answer = NoAnswer \/ answer \in [status : Statuses, node : Node \cup {NoNode}]
  /\ phase = "answered" <=> answer # NoAnswer

Init ==
  /\ config \in Configs
  /\ kind = "none" /\ key = NoKey /\ phase = "new"
  /\ routes = <<>> /\ ring = <<>> /\ knows = {} /\ at = NoNode /\ failed = {}
  /\ executed = [n \in Node |-> 0] /\ replies = [n \in Node |-> "none"]
  /\ listed = {} /\ answer = NoAnswer

\* A request without a key is let through, and one that only returns gateway
\* state is not asked for it.
Arrive(k, q) ==
  /\ phase = "new"
  /\ kind' = k /\ key' = q
  /\ UNCHANGED <<config, at, failed, executed, replies, listed>>

Refuse(k) ==
  /\ k \notin {"initialize", "health", "databases", "shutdown", "versions"}
  /\ Arrive(k, NoKey)
  /\ Answer("unauthorized", NoNode)
  /\ UNCHANGED <<routes, ring, knows>>

Initialize ==
  /\ Arrive("initialize", NoKey)
  /\ Answer("ok", NoNode)
  /\ UNCHANGED <<routes, ring, knows>>

\* An event stream only ever goes to the primary.
ForwardTo(k, q) ==
  LET found == Lookup(config, q) IN
  /\ Arrive(k, q)
  /\ routes' = IF k = "sse" /\ found # <<>> THEN <<found[1]>> ELSE found
  /\ IF found = <<>> THEN Answer("no node", NoNode)
     ELSE phase' = "forward" /\ UNCHANGED answer
  /\ UNCHANGED <<ring, knows>>

Route(k, type, version) == k \in Routed /\ ForwardTo(k, <<type, version>>)

GetVersions(type) ==
  IF \E k \in DeclaredKeys(config) : k[1] = type
  THEN ForwardTo("versions", FirstOf(config, type))
  ELSE /\ Arrive("versions", NoKey)
       /\ Answer("no node", NoNode)
       /\ UNCHANGED <<routes, ring, knows>>

\* Any other JSON-RPC method goes where the first declared key leads.
Default == ForwardTo("default", config[Order[1]][1])

\* The nodes of this repository keep no sessions and take every message; the
\* gateway reckons with others.
Message ==
  /\ Arrive("messages", NoKey)
  /\ knows' \in SUBSET Node
  /\ ring' = Order /\ phase' = "search"
  /\ UNCHANGED <<routes, answer>>

Scatter(k) ==
  /\ k \in Scattered
  /\ Arrive(k, NoKey)
  /\ phase' = "scatter"
  /\ UNCHANGED <<routes, ring, knows, answer>>

(***************************************************************************)
(* forward() with failover                                                 *)
(***************************************************************************)
\* A node executes what it accepts: execute_sql asks for the API key that the
\* gateway has stripped off, /mcp and /messages ask for none.
Accepts(k, n) == k = "tools/call" \/ (k = "messages" /\ n \in knows)

\* Mutant: the copy of a request that was cut off is sent to the same node.
Send_Sticks ==
  /\ phase = "forward" /\ routes # <<>>
  /\ at' = IF failed = {} THEN Head(routes) ELSE CHOOSE n \in failed : TRUE
  /\ routes' = Tail(routes) /\ phase' = "sent"
  /\ executed' = IF Accepts(kind, at') THEN [executed EXCEPT ![at'] = @ + 1] ELSE executed
  /\ UNCHANGED <<config, kind, key, ring, knows, failed, replies, listed, answer>>

\* Mutant: the replica declared last comes first.
Send_Last ==
  /\ phase = "forward" /\ routes # <<>>
  /\ at' = Last(routes)
  /\ routes' = Front(routes) /\ phase' = "sent"
  /\ executed' = IF Accepts(kind, at') THEN [executed EXCEPT ![at'] = @ + 1] ELSE executed
  /\ UNCHANGED <<config, kind, key, ring, knows, failed, replies, listed, answer>>

Send ==
  /\ phase = "forward" /\ routes # <<>>
  /\ at' = Head(routes)
  /\ routes' = Tail(routes) /\ phase' = "sent"
  /\ executed' = IF Accepts(kind, at') THEN [executed EXCEPT ![at'] = @ + 1] ELSE executed
  /\ UNCHANGED <<config, kind, key, ring, knows, failed, replies, listed, answer>>

\* Connection refused or not established in time: the node never sees it.
CannotConnect ==
  /\ phase = "forward" /\ routes # <<>>
  /\ failed' = failed \cup {Head(routes)}
  /\ routes' = Tail(routes)
  /\ UNCHANGED <<config, kind, key, phase, ring, knows, at, executed, replies, listed, answer>>

\* Whatever status the node answers with is passed on ...
NodeAnswers ==
  /\ phase = "sent"
  /\ kind = "messages" => at \in knows
  /\ Answer(IF kind = "execute_sql" THEN "unauthorized" ELSE "ok", at)
  /\ at' = NoNode
  /\ UNCHANGED <<config, kind, key, routes, ring, knows, failed, executed, replies, listed>>

\* ... but for a 404 to /messages: the search goes on with the next node, and the
\* replicas after this one are not asked.
SessionUnknown ==
  /\ phase = "sent"
  /\ kind = "messages" /\ at \notin knows
  /\ at' = NoNode /\ routes' = <<>>
  /\ phase' = "search"
  /\ UNCHANGED <<config, kind, key, ring, knows, failed, executed, replies, listed, answer>>

\* Mutant: a timeout after the connection ends the request.
GiveUp_Raises ==
  /\ phase = "sent"
  /\ failed' = failed \cup {at} /\ at' = NoNode
  /\ Answer("unreachable", NoNode)
  /\ UNCHANGED <<config, kind, key, routes, ring, knows, executed, replies, listed>>

\* request_timeout, or the connection breaks: the node counts as unreachable.
GiveUp ==
  /\ phase = "sent"
  /\ failed' = failed \cup {at} /\ at' = NoNode
  /\ phase' = "forward"
  /\ UNCHANGED <<config, kind, key, routes, ring, knows, executed, replies, listed, answer>>

\* All replicas failed.
Exhausted ==
  /\ phase = "forward" /\ routes = <<>>
  /\ IF kind = "messages" THEN phase' = "search" /\ UNCHANGED answer
     ELSE Answer("unreachable", NoNode)
  /\ UNCHANGED <<config, kind, key, routes, ring, knows, at, failed, executed, replies,
                 listed>>

(***************************************************************************)
(* /messages: node by node, the replicas of what the node declares first   *)
(***************************************************************************)
\* Mutant: the search starts from the same node again.
Search_Forever ==
  /\ phase = "search" /\ ring # <<>>
  /\ routes' = Lookup(config, config[Head(ring)][1])
  /\ phase' = "forward"
  /\ UNCHANGED <<config, kind, key, ring, knows, at, failed, executed, replies, listed, answer>>

Search ==
  /\ phase = "search" /\ ring # <<>>
  /\ routes' = Lookup(config, config[Head(ring)][1])
  /\ ring' = Tail(ring) /\ phase' = "forward"
  /\ UNCHANGED <<config, kind, key, knows, at, failed, executed, replies, listed, answer>>

NotFound ==
  /\ phase = "search" /\ ring = <<>>
  /\ Answer("not found", NoNode)
  /\ UNCHANGED <<config, kind, key, routes, ring, knows, at, failed, executed, replies,
                 listed>>

(***************************************************************************)
(* scatter()                                                               *)
(***************************************************************************)
\* The list keeps the first entry of each type that comes back.
ScatterReply(n) ==
  /\ phase = "scatter" /\ replies[n] = "none"
  /\ replies' = [replies EXCEPT ![n] = IF kind = "shutdown" THEN "error" ELSE "ok"]
  /\ listed' = IF kind = "databases"
               THEN listed \cup {k \in ToSet(config[n]) : \A l \in listed : l[1] # k[1]}
               ELSE listed
  /\ UNCHANGED <<config, kind, key, phase, routes, ring, knows, at, failed, executed, answer>>

ScatterFails(n) ==
  /\ phase = "scatter" /\ replies[n] = "none"
  /\ replies' = [replies EXCEPT ![n] = "error"]
  /\ UNCHANGED <<config, kind, key, phase, routes, ring, knows, at, failed, executed, listed, answer>>

\* Mutant: nodes that failed do not count.
ScatterEnds_IgnoresErrors ==
  /\ phase = "scatter" /\ \A n \in Node : replies[n] # "none"
  /\ Answer(IF \E n \in Node : replies[n] = "ok" THEN "complete" ELSE "partial", NoNode)
  /\ UNCHANGED <<config, kind, key, routes, ring, knows, at, failed, executed, replies, listed>>

\* The aggregate: complete (healthy) only if every node answered with success.
\* The answer to tools/list is the merged tools alone: it does not say who failed.
\* /api/shutdown is a POST route of the node and is broadcast as a GET.
ScatterEnds ==
  /\ phase = "scatter" /\ \A n \in Node : replies[n] # "none"
  /\ Answer(IF kind = "tools/list"
            THEN IF \E n \in Node : replies[n] = "ok" THEN "tools" ELSE "no tools"
            ELSE IF \A n \in Node : replies[n] = "ok" THEN "complete" ELSE "partial",
            NoNode)
  /\ UNCHANGED <<config, kind, key, routes, ring, knows, at, failed, executed, replies,
                 listed>>

(***************************************************************************)
(* Specification                                                           *)
(***************************************************************************)
Arrival ==
  \/ \E k \in Kind : Refuse(k)
  \/ Initialize
  \/ \E k \in Routed, t \in DbType, v \in Version : Route(k, t, v)
  \/ \E t \in DbType : GetVersions(t)
  \/ Default
  \/ Message
  \/ \E k \in Scattered : Scatter(k)

Step ==
  \/ Send \/ CannotConnect \/ NodeAnswers \/ SessionUnknown \/ GiveUp \/ Exhausted
  \/ Search \/ NotFound
  \/ \E n \in Node : ScatterReply(n) \/ ScatterFails(n)
  \/ ScatterEnds

\* The request was answered.
Idle == phase = "answered" /\ UNCHANGED vars

Next == Arrival \/ Step \/ Idle

Spec == Init /\ [][Next]_vars

\* Every attempt ends: httpx bounds it by request_timeout and connect_timeout.
FairSpec == Spec /\ WF_vars(Step)

(***************************************************************************)
(* Safety                                                                  *)
(***************************************************************************)
Position(n) == CHOOSE i \in DOMAIN Order : Order[i] = n

\* The three tiers of lookup(): the replicas are exactly the nodes that declare
\* the most specific version the requested one falls under, in the order of
\* routing.yaml; without such a version they serve the type at least, and only
\* a type that nobody declares has none.
MostSpecific ==
  kind \in Routed /\ key # NoKey =>
    LET found == Lookup(config, key)
        above == {k \in DeclaredKeys(config) : k[1] = key[1] /\ IsPrefix(k[2], key[2])}
    IN /\ \A i, j \in DOMAIN found : i < j => Position(found[i]) < Position(found[j])
       /\ above # {} => \E k \in above :
            /\ \A l \in above : IsPrefix(l[2], k[2])
            /\ ToSet(found) = {n \in Node : k \in ToSet(config[n])}
       /\ \A n \in ToSet(found) : \E k \in ToSet(config[n]) : k[1] = key[1]
       /\ found = <<>> => \A k \in DeclaredKeys(config) : k[1] # key[1]

\* A replica has the request, or has answered it, only after each replica
\* declared before it was found unreachable; a stream stays with the primary.
FailoverInOrder ==
  \A n \in Node : kind \in Forwarded /\ n \in {at, answer.node} =>
    LET found == Lookup(config, key) IN
      \E i \in DOMAIN found :
        /\ found[i] = n
        /\ \A j \in 1..(i - 1) : found[j] \in failed
        /\ kind = "sse" => i = 1

\* Failover executes a request on a second node only after it gave up on the
\* first, and on no node twice.  The search of /messages may repeat a node.
ExecutedOnce ==
  \A n \in Node : executed[n] > 0 =>
    /\ n \in failed \cup {at, answer.node}
    /\ kind # "messages" => executed[n] = 1

\* The search asks node n through the first replica of the key that n declares
\* first: one before n that answers 404 hides it.
Hidden(n) ==
  \E m \in Node \ knows :
    Position(m) < Position(n) /\ config[n][1] \in ToSet(config[m])

\* Nobody is told that nodes are unreachable before every replica has failed, nor
\* that there is no session while a node that knows it was neither unreachable
\* nor hidden: where every node takes the message, all of them have failed.
NoAnswerMeansAll ==
  /\ answer.status = "unreachable" /\ kind # "sse" =>
       ToSet(Lookup(config, key)) \subseteq failed
  /\ answer.status = "not found" =>
       /\ \A n \in knows : n \in failed \/ Hidden(n)
       /\ knows = Node => failed = Node

Answered == {n \in Node : replies[n] = "ok"}
TypesOf(keys) == {k[1] : k \in keys}
VersionsOf(keys, type) == {k \in keys : k[1] = type}

\* A broadcast waits for all nodes and tells of each that failed, but for
\* tools/list, which is without tools only if all failed.  The merged list has the
\* types of the nodes that answered, each with the versions of one of them,
\* whatever came back first; what others add to a type is lost.
ScatterCovers ==
  kind \in Scattered /\ phase = "answered" /\ answer.status # "unauthorized" =>
    /\ \A n \in Node : replies[n] # "none"
    /\ answer.status = "complete" => Answered = Node
    /\ answer.status = "partial" => Answered # Node
    /\ answer.status = "no tools" => Answered = {}
    /\ answer.status \in {"tools", "no tools"} <=> kind = "tools/list"
    /\ kind = "databases" =>
         /\ TypesOf(listed) = UNION {TypesOf(ToSet(config[n])) : n \in Answered}
         /\ \A k \in listed : \E n \in Answered :
              VersionsOf(listed, k[1]) = VersionsOf(ToSet(config[n]), k[1])

(***************************************************************************)
(* Liveness                                                                *)
(***************************************************************************)
\* Every request is answered, whichever nodes answer, refuse or hang.
EveryRequestAnswered == phase # "new" ~> phase = "answered"
=============================================================================
