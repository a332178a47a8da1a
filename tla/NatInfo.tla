------------------------------ MODULE NatInfo ------------------------------
(***************************************************************************)
(* whoami/nat-info.go: what a node finds out about its router by asking a  *)
(* STUN server.  Three mapping tests and three filtering tests, each a     *)
(* round trip of one request and one answer with a timeout of 3 s, over    *)
(* the UDP port the node will listen on.                                   *)
(*                                                                         *)
(* The server has two addresses with two ports each.  An answer carries    *)
(* the external address the request came from, and a round trip takes the  *)
(* first answer that arrives: the transaction is never compared.  way[e]   *)
(* counts the answers on their way to requests that were sent to e.  The   *)
(* router (outside src/) keeps its mapping and the holes made by requests. *)
(* A lost or late answer and a failed call take one of MaxFaults.          *)
(***************************************************************************)
EXTENDS Integers

CONSTANTS MaxFaults,   \* bound: faults in a behaviour
          MaxWay       \* bound: answers on their way from one endpoint

\* The server's endpoints; MAPPED-ADDRESS, OTHER-ADDRESS and the two in between.
Endpoints == {"primary:1", "primary:2", "other:1", "other:2"}

Address(e) == IF e \in {"primary:1", "primary:2"} THEN "primary" ELSE "other"

Behaviours == {"endpoint", "address", "port"}    \* what mapping and filter depend on

ASSUME NatAssumption == MaxFaults \in Nat /\ MaxWay \in Nat \ {0}

VARIABLES
    router,     \* the router: how it maps and how it filters
    holes,      \* the endpoints the port has sent to
    way,        \* the answers on their way
    port,       \* the UDP port: free, bound by a test, left bound, or the host's
    test,       \* the test under way; "none" outside of getNatInfo
    asked,      \* its request was sent
    first, second,    \* the external addresses of mapping tests I and II
    mapping,    \* the result of mappingTests, "error" included
    natReachability,  \* whoami.NatReachability
    faults,     \* how many are left
    tidy        \* observer: the process began no tests with an answer on its way

natVars == <<router, holes, way, port, test, asked, first, second, mapping,
             natReachability, tidy>>

MappingTests == {"mapping1", "mapping2", "mapping3"}

Tests == MappingTests \cup {"filtering1", "filtering2", "filtering3"}

Externals == Endpoints \cup {"primary", "other", "any", "none"}

NatTypeOK ==
    /\ router \in [map : Behaviours, filter : Behaviours]
    /\ holes \in SUBSET Endpoints
    /\ way \in [Endpoints -> Nat]
    /\ port \in {"free", "test", "leaked", "host"}
    /\ test \in Tests \cup {"none", "panic"}
    /\ asked \in BOOLEAN
    /\ first \in Externals /\ second \in Externals
    /\ mapping \in Behaviours \cup {"unknown", "error"}
    /\ natReachability \in BOOLEAN
    /\ faults \in 0..MaxFaults
    /\ tidy \in BOOLEAN

NatInit ==
    /\ router \in [map : Behaviours, filter : Behaviours]
    /\ holes = {} /\ way = [e \in Endpoints |-> 0]
    /\ port = "free" /\ test = "none" /\ asked = FALSE
    /\ first = "none" /\ second = "none" /\ mapping = "unknown"
    /\ natReachability = FALSE
    /\ faults = MaxFaults
    /\ tidy = TRUE

Fault == faults > 0 /\ faults' = faults - 1

Fine == UNCHANGED faults

-----------------------------------------------------------------------------
(* The router and the server.                                              *)

\* The external address of packets that go to e.
External(e) ==
    IF router.map = "endpoint" THEN "any"
    ELSE IF router.map = "address" THEN Address(e) ELSE e

\* A packet from src to the external address of the primary endpoint passes
\* the filter if one like it was asked for through the same mapping.
Passes(src, through) ==
    LET asking == {e \in through : External(e) = External("primary:1")}
    IN \/ router.filter = "endpoint"
       \/ router.filter = "address" /\ \E e \in asking : Address(e) = Address(src)
       \/ router.filter = "port" /\ src \in asking

\* Where a test sends its request, and where the answer comes from: the
\* filtering tests II and III ask for another address and port, or port.
Target(t) ==
    IF t = "mapping2" THEN "other:1"
    ELSE IF t = "mapping3" THEN "other:2" ELSE "primary:1"

Source(t) ==
    IF t = "filtering2" THEN "other:2"
    ELSE IF t = "filtering3" THEN "primary:2" ELSE Target(t)

OnWay == {e \in Endpoints : way[e] > 0}

-----------------------------------------------------------------------------
(* getNatInfo.                                                             *)

\* connect of mappingTests: an address in use is an error, and so is a server
\* name that does not resolve.  getNatInfo still runs filteringTests before it
\* returns the error; nobody looks at their result, and the panic follows
\* either way, so they are passed over here.
Begin ==
    /\ test = "none"
    /\ \/ /\ port = "free" /\ Fine
          /\ test' = "mapping1" /\ port' = "test" /\ mapping' = "unknown"
          /\ tidy' = (tidy /\ OnWay = {})
       \/ /\ port # "free" /\ Fine
          /\ test' = "panic" /\ mapping' = "error" /\ UNCHANGED <<port, tidy>>
       \/ /\ Fault
          /\ test' = "panic" /\ mapping' = "error" /\ UNCHANGED <<port, tidy>>
    /\ first' = "none" /\ second' = "none" /\ asked' = FALSE
    /\ UNCHANGED <<router, holes, way, natReachability>>

\* roundTrip sends; the server answers, and the answer sets out if the router
\* will let it in.
Ask ==
    /\ test \in Tests /\ ~asked /\ asked' = TRUE
    /\ LET through == holes \cup {Target(test)}
       IN /\ holes' = through
          /\ way' = IF /\ test \in MappingTests \/ Passes(Source(test), through)
                       /\ way[Target(test)] < MaxWay
                      THEN [way EXCEPT ![Target(test)] = @ + 1] ELSE way
    /\ Fine
    /\ UNCHANGED <<router, port, test, first, second, mapping, natReachability, tidy>>

\* The end of mappingTests closes its socket and filteringTests binds again.
MappingEnds(result) ==
    test' = "filtering1" /\ asked' = FALSE /\ mapping' = result
        /\ UNCHANGED <<port, natReachability>>

NextTest(t) ==
    test' = t /\ asked' = FALSE /\ UNCHANGED <<mapping, port, natReachability>>

\* The end of filteringTests, and of GetNatInfoAndUpdateGlobals: an error of
\* the mapping tests is a panic.  The socket is closed unless test I failed.
FilteringEnds(filtering, left) ==
    /\ asked' = FALSE /\ UNCHANGED mapping
    /\ port' = IF left THEN "leaked" ELSE "free"
    /\ IF mapping = "error"
         THEN test' = "panic" /\ UNCHANGED natReachability
         ELSE /\ test' = "none"
              /\ natReachability' =
                     (mapping = "endpoint" /\ filtering \in {"endpoint", "address"})

\* roundTrip takes an answer, whichever it is.
Answer(e) ==
    /\ asked /\ way[e] > 0
    /\ way' = [way EXCEPT ![e] = @ - 1]
    /\ \/ test = "mapping1" /\ first' = External(e) /\ UNCHANGED second /\ NextTest("mapping2")
       \/ /\ test = "mapping2" /\ second' = External(e) /\ UNCHANGED first
          /\ IF External(e) = first THEN MappingEnds("endpoint") ELSE NextTest("mapping3")
       \/ /\ test = "mapping3" /\ UNCHANGED <<first, second>>
          /\ MappingEnds(IF External(e) = second THEN "address" ELSE "port")
       \/ test = "filtering1" /\ UNCHANGED <<first, second>> /\ NextTest("filtering2")
       \/ test = "filtering2" /\ UNCHANGED <<first, second>> /\ FilteringEnds("endpoint", FALSE)
       \/ test = "filtering3" /\ UNCHANGED <<first, second>> /\ FilteringEnds("address", FALSE)
    /\ Fine
    /\ UNCHANGED <<router, holes, tidy>>

\* Mutant: a mapping test that times out is tried once more.
TimedOut_Retries ==
    \/ test \in MappingTests /\ NextTest(test)
    \/ test = "filtering1" /\ FilteringEnds("unknown", TRUE)
    \/ test = "filtering2" /\ NextTest("filtering3")
    \/ test = "filtering3" /\ FilteringEnds("port", FALSE)

TimedOut ==
    \/ test \in MappingTests /\ MappingEnds("error")
    \/ test = "filtering1" /\ FilteringEnds("unknown", TRUE)
    \/ test = "filtering2" /\ NextTest("filtering3")
    \/ test = "filtering3" /\ FilteringEnds("port", FALSE)

\* Three seconds without an answer: there is none, or it is late.
Timeout ==
    /\ asked
    /\ TimedOut
    /\ IF OnWay = {} THEN Fine ELSE Fault
    /\ UNCHANGED <<router, holes, way, first, second, tidy>>

\* The request cannot be sent, or what comes back does not decode.
RoundTripFails ==
    /\ asked /\ Fault
    /\ \/ test \in MappingTests /\ MappingEnds("error")
       \/ test \in Tests \ MappingTests /\ FilteringEnds("unknown", test = "filtering1")
    /\ UNCHANGED <<router, holes, way, first, second, tidy>>

\* The server's name does not resolve this time, or it has no second address.
FilteringCannotStart ==
    /\ test = "filtering1" /\ Fault
    /\ FilteringEnds("unknown", FALSE)
    /\ UNCHANGED <<router, holes, way, first, second, tidy>>

LoseAnswer(e) ==
    /\ way[e] > 0 /\ Fault
    /\ way' = [way EXCEPT ![e] = @ - 1]
    /\ UNCHANGED <<router, holes, port, test, asked, first, second, mapping,
                   natReachability, tidy>>

getNatInfo ==
    \/ Ask \/ Timeout \/ RoundTripFails \/ FilteringCannotStart
    \/ \E e \in Endpoints : Answer(e)

-----------------------------------------------------------------------------
(* Properties.                                                             *)

Reachable == router.map = "endpoint" /\ router.filter \in {"endpoint", "address"}

\* Whoever calls himself reachable is: his router maps all destinations to
\* one address, and filters by address at most, even if an answer that was
\* given up came in time for the next test.  It takes a socket without
\* answers from before: one that outlives its tests deceives the next ones.
NoFalseReachability == natReachability /\ tidy => Reachable
=============================================================================
